------------------------------- MODULE Offer -------------------------------
(***************************************************************************)
(* The reverse Dutch auction of one proof request, translated from         *)
(* contracts/src/types/Offer.sol.  An offer is a record with the fields of *)
(* the Solidity struct; the functions of OfferLibrary keep their names.    *)
(* Solidity's checked arithmetic reverts on overflow, so an offer whose    *)
(* deadline does not fit a uint64 fails validate.                          *)
(***************************************************************************)
EXTENDS Integers

CONSTANTS
    Uint24Max,   \* type(uint24).max, the width of RequestLock.deadlineDelta
    Uint64Max    \* type(uint64).max, the width of a timestamp

ASSUME WidthAssumption == Uint24Max \in Nat /\ Uint64Max \in Nat

\* The Solidity struct (Offer.sol:15-42).
OfferType == [minPrice: Nat, maxPrice: Nat, rampUpStart: Nat, rampUpPeriod: Nat,
              lockTimeout: Nat, timeout: Nat, lockCollateral: Nat]

deadline(offer) == offer.rampUpStart + offer.timeout

lockDeadline(offer) == offer.rampUpStart + offer.lockTimeout

validate(offer) ==
    /\ offer.minPrice <= offer.maxPrice
    /\ offer.rampUpPeriod <= offer.lockTimeout
    /\ offer.lockTimeout <= offer.timeout
    /\ deadline(offer) <= Uint64Max
    /\ deadline(offer) - lockDeadline(offer) <= Uint24Max

\* Mutants of priceAt: the ramp does not stop at the lock deadline; the ramp
\* starts from the maximum price.
priceAt_NoLockDeadline(offer, timestamp) ==
    LET delta == timestamp - offer.rampUpStart
    IN  IF timestamp <= offer.rampUpStart
          THEN offer.minPrice
        ELSE IF timestamp <= offer.rampUpStart + offer.rampUpPeriod
          THEN offer.minPrice + (delta * (offer.maxPrice - offer.minPrice)) \div offer.rampUpPeriod
        ELSE offer.maxPrice

priceAt_FallingRamp(offer, timestamp) ==
    LET delta == timestamp - offer.rampUpStart
    IN  IF timestamp <= offer.rampUpStart
          THEN offer.minPrice
        ELSE IF timestamp > lockDeadline(offer)
          THEN 0
        ELSE IF timestamp <= offer.rampUpStart + offer.rampUpPeriod
          THEN offer.maxPrice - (delta * (offer.maxPrice - offer.minPrice)) \div offer.rampUpPeriod
        ELSE offer.maxPrice

priceAt(offer, timestamp) ==
    LET rise  == offer.maxPrice - offer.minPrice
        run   == offer.rampUpPeriod
        delta == timestamp - offer.rampUpStart
    IN  IF timestamp <= offer.rampUpStart
          THEN offer.minPrice
        ELSE IF timestamp > lockDeadline(offer)
          THEN 0
        ELSE IF timestamp <= offer.rampUpStart + run
          THEN offer.minPrice + (delta * rise) \div run
        ELSE offer.maxPrice

\* OpenZeppelin's Math.ceilDiv.
ceilDiv(a, b) == IF a = 0 THEN 0 ELSE (a - 1) \div b + 1

\* Mutant of timeAtPrice: floor division instead of ceilDiv.
timeAtPrice_Floor(offer, price) ==
    IF price <= offer.minPrice
      THEN 0
      ELSE offer.rampUpStart +
             ((price - offer.minPrice) * offer.rampUpPeriod) \div (offer.maxPrice - offer.minPrice)

\* Defined for price <= offer.maxPrice; the code reverts above it.
timeAtPrice(offer, price) ==
    LET rise == offer.maxPrice - offer.minPrice
        run  == offer.rampUpPeriod
    IN  IF price <= offer.minPrice
          THEN 0
          ELSE offer.rampUpStart + ceilDiv((price - offer.minPrice) * run, rise)
=============================================================================
