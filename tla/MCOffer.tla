------------------------------ MODULE MCOffer ------------------------------
(***************************************************************************)
(* One offer watched by a clock: every well-formed offer with small fields *)
(* is an initial state, and the clock runs past its deadline.  The         *)
(* properties relate the price the contract computes at one second to the  *)
(* price at the next, and to the time timeAtPrice names for it.            *)
(***************************************************************************)
EXTENDS Offer

CONSTANTS
    MaxPrice,    \* bound on minPrice and maxPrice
    MaxPeriod,   \* bound on the ramp and the two timeouts
    MaxStart,    \* bound on rampUpStart
    MinRamp      \* the shortest ramp considered

VARIABLES
    offer,       \* the offer, fixed after Init
    timestamp    \* block.timestamp

vars == <<offer, timestamp>>

Offers ==
    {o \in [minPrice: 0..MaxPrice, maxPrice: 0..MaxPrice, rampUpStart: 1..MaxStart,
            rampUpPeriod: MinRamp..MaxPeriod, lockTimeout: 1..MaxPeriod,
            timeout: 1..MaxPeriod, lockCollateral: {0}] : validate(o)}

Init == offer \in Offers /\ timestamp = 0

\* The clock, stopped one second after the deadline.
Tick ==
    /\ timestamp <= deadline(offer)
    /\ timestamp' = timestamp + 1
    /\ UNCHANGED offer

Stop == timestamp > deadline(offer) /\ UNCHANGED vars

Next == Tick \/ Stop

Spec == Init /\ [][Next]_vars

\* Up to the lock deadline a prover is offered between minPrice and maxPrice,
\* and nothing after it (Offer.sol:97-101).
PriceWithinOffer ==
    LET price == priceAt(offer, timestamp)
    IN  IF timestamp <= lockDeadline(offer)
          THEN offer.minPrice <= price /\ price <= offer.maxPrice
          ELSE price = 0

\* The price never falls while a lock can still be taken: waiting never makes
\* an unlocked request cheaper for the client (Offer.sol:98).
PriceNeverFallsBeforeLockDeadline ==
    [][timestamp' <= lockDeadline(offer) =>
           priceAt(offer, timestamp') >= priceAt(offer, timestamp)]_vars

\* timeAtPrice is the least time at which priceAt reaches the price, for every
\* price above minPrice and every offer with a ramp (Offer.sol:72-76).
TimeAtPriceIsEarliest ==
    \A price \in (offer.minPrice + 1)..offer.maxPrice :
        timestamp <= lockDeadline(offer) =>
            (priceAt(offer, timestamp) >= price <=> timestamp >= timeAtPrice(offer, price))

\* What the comment of timeAtPrice says of its result for every offer: at that
\* time the offer is worth at least the price (Offer.sol:72, 76).
WorthThePriceAtTimeAtPrice ==
    \A price \in (offer.minPrice + 1)..offer.maxPrice :
        timestamp = timeAtPrice(offer, price) => priceAt(offer, timestamp) >= price
=============================================================================
