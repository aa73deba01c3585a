----------------------- MODULE BoundlessMarketProofs -----------------------
(***************************************************************************)
(* Proofs about BoundlessMarket.  The inductive invariant says of a        *)
(* storage what the properties say of `market', and holds of the current   *)
(* storage and of the storage every running fulfill would revert to.       *)
(***************************************************************************)
EXTENDS BoundlessMarket, SequenceTheorems, TLAPS

-----------------------------------------------------------------------------
(* The inductive invariant *)

\* The money of id: what EscrowMatchesLock says of one storage and one id.
Balanced(m, id) ==
    /\ m.spent[id] - m.earned[id] = Escrowed(m.requestLocks[id])
    /\ m.staked[id] - m.released[id] = m.requestLocks[id].collateral

\* Only the flag `locked' opens the way to a lock record (also of an alias id).
UnlockedIsEmpty(m, id) ==
    ~m.locked[clientAndIndex(id)] => m.requestLocks[id] = EmptyLock

DeliveredFulfilled(m, id) ==
    (id \in m.delivered \/ isProverPaid(m.requestLocks[id])) => m.fulfilled[clientAndIndex(id)]

SlashExpired(m, id, t) ==
    isSlashed(m.requestLocks[id]) =>
        /\ t > lockExpiry(m.requestLocks[id])
        /\ ~isProverPaidBeforeLockDeadline(m.requestLocks[id])

\* A credit leaves a mark that no later payment overlooks.
EarnedIsMarked(m, id) ==
    m.earned[id] > 0 =>
        \/ isProverPaid(m.requestLocks[id])
        \/ ~m.locked[clientAndIndex(id)] /\ m.fulfilled[clientAndIndex(id)]

\* A lock paid after its deadline names the prover that was paid.
PaidAfterHasProver(m, id) ==
    isProverPaidAfterLockDeadline(m.requestLocks[id]) => m.requestLocks[id].prover \in Accounts

GoodId(m, id, t) ==
    /\ Balanced(m, id)
    /\ UnlockedIsEmpty(m, id)
    /\ DeliveredFulfilled(m, id)
    /\ SlashExpired(m, id, t)
    /\ EarnedIsMarked(m, id)
    /\ PaidAfterHasProver(m, id)

GoodStorage(t) == {m \in MarketType : \A id \in Ids : GoodId(m, id, t)}

\* A running fulfill: its counters name a fill of its call, and the storage it
\* would revert to is good.
GoodFrame(t) ==
    {f \in FrameType :
        /\ f.i > 0 => /\ f.phase = "settle"
                      /\ f.j <= Len(f.call)
                      /\ f.i <= Len(f.call[f.j].fills)
                      /\ Len(f.call[f.j].requests) = Len(f.call[f.j].fills)
        /\ f.saved \in GoodStorage(t)}

IInv ==
    /\ market \in GoodStorage(timestamp)
    /\ frames \in Seq(GoodFrame(timestamp))
    /\ timestamp \in Nat
    /\ blockNumber \in Nat \ {0}

-----------------------------------------------------------------------------
(* Types *)

\* A signed request names a considered id, an account and an offer.
LEMMA RequestType ==
    ASSUME NEW d \in Digests
    PROVE  /\ request[d].id \in Ids
           /\ request[d].id.client \in Holders
           /\ clientAndIndex(request[d].id) \in Keys
           /\ request[d].offer \in OfferType
  BY MarketAssumption DEF IdType, Holders, Keys

\* The flags of an id, and the account of its client, are part of the storage.
LEMMA IdKey ==
    ASSUME NEW id \in Ids
    PROVE  clientAndIndex(id) \in Keys /\ id.client \in Holders
  BY MarketAssumption DEF Keys, IdType, Holders

\* A subtraction in an unchecked block does not wrap when it was guarded.
LEMMA uncheckedSubType ==
    ASSUME NEW a \in Nat, NEW b \in Int, a >= b
    PROVE  uncheckedSub(a, b) = a - b /\ uncheckedSub(a, b) \in Nat
  BY DEF uncheckedSub

\* The price of a valid offer is a natural number at every time (Offer.priceAt).
LEMMA priceAtType ==
    ASSUME NEW offer \in OfferType, validate(offer), NEW t \in Nat
    PROVE  priceAt(offer, t) \in Nat
  <1> DEFINE rise == offer.maxPrice - offer.minPrice
             run == offer.rampUpPeriod
             delta == t - offer.rampUpStart
  <1>1. offer.maxPrice \in Nat /\ offer.minPrice \in Nat /\ run \in Nat /\ offer.rampUpStart \in Nat
    BY DEF OfferType
  <1>2. rise \in Nat
    BY <1>1 DEF validate
  <1>3. CASE t > offer.rampUpStart /\ t <= offer.rampUpStart + run
    <2>1. delta \in Nat /\ run \in Nat \ {0}
      BY <1>1, <1>3
    <2>2. delta * rise \in Nat
      BY <2>1, <1>2
    <2>3. \A x \in Nat, n \in Nat \ {0} : x \div n \in Nat
      BY SMT
    <2>4. (delta * rise) \div run \in Nat
      BY <2>1, <2>2, <2>3
    <2>5. offer.minPrice + (delta * rise) \div run \in Nat
      BY <2>4, <1>1
    <2> HIDE DEF rise, run, delta
    <2> QED BY <2>5, <1>1, <1>3 DEF priceAt, rise, run, delta
  <1>4. CASE ~(t > offer.rampUpStart /\ t <= offer.rampUpStart + run)
    BY <1>1, <1>4 DEF priceAt
  <1> QED BY <1>3, <1>4

\* The record _lockRequest writes is well formed: a valid offer's deadline is
\* not before its lock deadline.
LEMMA newLockType ==
    ASSUME NEW d \in Digests, NEW prover \in Accounts, NEW price \in Nat,
           validate(request[d].offer)
    PROVE  newLock(d, prover, price) \in RequestLock
  <1> DEFINE offer == request[d].offer
  <1>1. offer \in OfferType
    BY RequestType
  <1>2. offer.lockTimeout \in Nat /\ offer.timeout \in Nat /\ offer.rampUpStart \in Nat /\ offer.lockCollateral \in Nat
    BY <1>1 DEF OfferType
  <1>3. lockDeadline(offer) \in Nat /\ deadline(offer) - lockDeadline(offer) \in Nat
    BY <1>2 DEF validate, deadline, lockDeadline
  <1> HIDE DEF offer
  <1> QED BY <1>2, <1>3 DEF newLock, RequestLock, LockFlags, offer

-----------------------------------------------------------------------------
(* Storage updates *)

\* Deposits, withdrawals, prices and commitments leave the requests alone.
LEMMA SameRequests ==
    ASSUME NEW t \in Nat, NEW m \in GoodStorage(t), NEW n \in MarketType,
           n.requestLocks = m.requestLocks, n.locked = m.locked, n.fulfilled = m.fulfilled,
           n.spent = m.spent, n.earned = m.earned, n.staked = m.staked,
           n.released = m.released, n.delivered = m.delivered
    PROVE  n \in GoodStorage(t)
  BY DEF GoodStorage, GoodId, Balanced, UnlockedIsEmpty, DeliveredFulfilled, SlashExpired, EarnedIsMarked, PaidAfterHasProver

\* The lock record of one id.
LEMMA LockRecord ==
    ASSUME NEW m \in MarketType, NEW id \in Ids
    PROVE  /\ m.requestLocks[id] \in RequestLock
           /\ m.requestLocks[id].price \in Nat
           /\ m.requestLocks[id].collateral \in Nat
           /\ m.requestLocks[id].lockDeadline \in Nat
           /\ m.requestLocks[id].deadlineDelta \in Nat
           /\ m.requestLocks[id].requestLockFlags \in SUBSET LockFlags
           /\ m.spent[id] \in Int /\ m.earned[id] \in Nat
           /\ m.staked[id] \in Nat /\ m.released[id] \in Nat
           /\ m.locked[clientAndIndex(id)] \in BOOLEAN
           /\ m.fulfilled[clientAndIndex(id)] \in BOOLEAN
  BY IdKey DEF MarketType, RequestLock

\* What _lockRequest does to the records of the requests.
Locks(m, n, d, prover, price) ==
    LET id == request[d].id
    IN  /\ ~m.locked[clientAndIndex(id)]
        /\ ~m.fulfilled[clientAndIndex(id)]
        /\ n.requestLocks = [m.requestLocks EXCEPT ![id] = newLock(d, prover, price)]
        /\ n.locked = [m.locked EXCEPT ![clientAndIndex(id)] = TRUE]
        /\ n.spent = [m.spent EXCEPT ![id] = @ + price]
        /\ n.staked = [m.staked EXCEPT ![id] = @ + request[d].offer.lockCollateral]
        /\ n.fulfilled = m.fulfilled /\ n.earned = m.earned
        /\ n.released = m.released /\ n.delivered = m.delivered

\* _lockRequest on an unlocked index keeps a good storage good.
LEMMA LockStorage ==
    ASSUME NEW t \in Nat, NEW m \in GoodStorage(t), NEW n \in MarketType,
           NEW d \in Digests, NEW prover \in Accounts, NEW price \in Nat,
           validate(request[d].offer), Locks(m, n, d, prover, price)
    PROVE  n \in GoodStorage(t)
  <1> DEFINE id == request[d].id
             l == newLock(d, prover, price)
  <1> USE DEF Locks
  <1>1. id \in Ids /\ clientAndIndex(id) \in Keys /\ request[d].offer.lockCollateral \in Nat
    BY RequestType DEF OfferType
  <1>2. m \in MarketType /\ \A x \in Ids : GoodId(m, x, t)
    BY DEF GoodStorage
  <1>3. /\ l \in RequestLock /\ l.price = price /\ l.collateral = request[d].offer.lockCollateral
        /\ l.requestLockFlags = {}
    BY newLockType DEF newLock
  <1>4. ASSUME NEW x \in Ids
        PROVE  GoodId(n, x, t)
    <2>0. clientAndIndex(x) \in Keys
      BY IdKey
    <2>1. GoodId(m, x, t)
      BY <1>2
    <2>2. CASE x = id
      <3>1. m.requestLocks[id] = EmptyLock
        BY <2>1, <2>2 DEF GoodId, UnlockedIsEmpty
      <3>2. /\ n.requestLocks[id] = l /\ n.spent[id] = m.spent[id] + price
            /\ n.staked[id] = m.staked[id] + request[d].offer.lockCollateral
            /\ n.locked[clientAndIndex(id)] = TRUE
            /\ n.earned[id] = m.earned[id] /\ n.released[id] = m.released[id]
        BY <1>1, <1>2 DEF MarketType
      <3>3. m.spent[id] - m.earned[id] = 0 /\ m.staked[id] - m.released[id] = 0
        BY <2>1, <2>2, <3>1 DEF GoodId, Balanced, Escrowed, isProverPaidAfterLockDeadline, EmptyLock
      <3>4. m.spent[id] \in Int /\ m.earned[id] \in Nat /\ m.staked[id] \in Nat /\ m.released[id] \in Nat
        BY <1>1, <1>2, LockRecord
      <3>5. Escrowed(l) = price /\ l.collateral = request[d].offer.lockCollateral
        BY <1>3 DEF Escrowed, isProverPaidAfterLockDeadline
      <3>6. ~isProverPaid(l) /\ ~isProverPaidAfterLockDeadline(l) /\ ~isSlashed(l)
        BY <1>3 DEF isProverPaid, isSlashed, isProverPaidBeforeLockDeadline, isProverPaidAfterLockDeadline
      <3>7. id \notin n.delivered
        BY <2>1, <2>2 DEF GoodId, DeliveredFulfilled
      <3>8. ~(n.earned[id] > 0)
        BY <2>1, <2>2, <3>1 DEF GoodId, EarnedIsMarked, EmptyLock, isProverPaid,
                                isProverPaidBeforeLockDeadline, isProverPaidAfterLockDeadline
      <3>9. n.spent[id] - n.earned[id] = price
        BY <3>2, <3>3, <3>4
      <3>10. n.staked[id] - n.released[id] = request[d].offer.lockCollateral
        BY <3>2, <3>3, <3>4, <1>1
      <3>11. Balanced(n, id)
        BY <3>2, <3>5, <3>9, <3>10 DEF Balanced
      <3> HIDE DEF id, l
      <3> QED BY <2>2, <3>2, <3>6, <3>7, <3>8, <3>11
              DEF GoodId, UnlockedIsEmpty, DeliveredFulfilled, SlashExpired, EarnedIsMarked, PaidAfterHasProver
    <2>3. CASE x # id
      <3>1. /\ n.requestLocks[x] = m.requestLocks[x] /\ n.spent[x] = m.spent[x]
            /\ n.staked[x] = m.staked[x]
        BY <2>3, <1>1, <1>2 DEF MarketType
      <3>2. IF clientAndIndex(x) = clientAndIndex(id)
              THEN n.locked[clientAndIndex(x)]
              ELSE n.locked[clientAndIndex(x)] = m.locked[clientAndIndex(x)]
        BY <2>0, <1>1, <1>2 DEF MarketType
      <3>3. ~m.fulfilled[clientAndIndex(id)]
        OBVIOUS
      <3> HIDE DEF id
      <3> QED BY <2>1, <3>1, <3>2, <3>3 DEF GoodId, Balanced, UnlockedIsEmpty, DeliveredFulfilled, SlashExpired, EarnedIsMarked, PaidAfterHasProver
    <2> QED BY <2>2, <2>3
  <1> QED BY <1>4 DEF GoodStorage

\* An update of the records of one id keeps a good storage good when it leaves
\* that id good, keeps `locked' and clears no `fulfilled' flag.
LEMMA OneIdUpdate ==
    ASSUME NEW t \in Nat, NEW m \in GoodStorage(t), NEW n \in MarketType, NEW id \in Ids,
           \A x \in Ids \ {id} :
               /\ n.requestLocks[x] = m.requestLocks[x]
               /\ n.spent[x] = m.spent[x] /\ n.earned[x] = m.earned[x]
               /\ n.staked[x] = m.staked[x] /\ n.released[x] = m.released[x]
               /\ x \in n.delivered => x \in m.delivered,
           n.locked = m.locked,
           \A k \in Keys : m.fulfilled[k] => n.fulfilled[k],
           GoodId(n, id, t)
    PROVE  n \in GoodStorage(t)
  <1>1. ASSUME NEW x \in Ids \ {id}
        PROVE  GoodId(n, x, t)
    <2>1. GoodId(m, x, t)
      BY DEF GoodStorage
    <2>2. m.fulfilled[clientAndIndex(x)] => n.fulfilled[clientAndIndex(x)]
      BY IdKey
    <2> QED
      BY <2>1, <2>2 DEF GoodId, Balanced, UnlockedIsEmpty, DeliveredFulfilled, SlashExpired, EarnedIsMarked, PaidAfterHasProver
  <1> QED BY <1>1 DEF GoodStorage

\* What slash does to the records of the requests.
Slashes(m, n, id) ==
    LET lock == m.requestLocks[id]
    IN  /\ n.requestLocks = [m.requestLocks EXCEPT ![id] = setSlashed(lock)]
        /\ n.released = [m.released EXCEPT ![id] = @ + lock.collateral]
        /\ n.spent = IF isProverPaidAfterLockDeadline(lock)
                       THEN m.spent
                       ELSE [m.spent EXCEPT ![id] = @ - lock.price]
        /\ n.locked = m.locked /\ n.fulfilled = m.fulfilled /\ n.earned = m.earned
        /\ n.staked = m.staked /\ n.delivered = m.delivered

\* slash keeps a good storage good.
LEMMA SlashStorage ==
    ASSUME NEW t \in Nat, NEW m \in GoodStorage(t), NEW n \in MarketType, NEW id \in Ids,
           m.locked[clientAndIndex(id)],
           ~isSlashed(m.requestLocks[id]),
           ~isProverPaidBeforeLockDeadline(m.requestLocks[id]),
           t > lockExpiry(m.requestLocks[id]),
           Slashes(m, n, id)
    PROVE  n \in GoodStorage(t)
  <1> DEFINE lock == m.requestLocks[id]
             l == setSlashed(lock)
  <1> USE DEF Slashes
  <1>1. m \in MarketType /\ GoodId(m, id, t)
    BY DEF GoodStorage
  <1>2. /\ l.requestLockFlags = lock.requestLockFlags \cup {Slashed}
        /\ l.price = 0 /\ l.collateral = 0
        /\ l.lockDeadline = lock.lockDeadline /\ l.deadlineDelta = lock.deadlineDelta
        /\ l.prover = lock.prover
    <2>1. lock \in RequestLock
      BY <1>1, LockRecord
    <2> HIDE DEF lock
    <2> QED BY <2>1 DEF setSlashed, clearSlot1, RequestLock
  <1>3. /\ isProverPaidBeforeLockDeadline(l) = isProverPaidBeforeLockDeadline(lock)
        /\ isProverPaidAfterLockDeadline(l) = isProverPaidAfterLockDeadline(lock)
        /\ isProverPaid(l) = isProverPaid(lock)
        /\ lockExpiry(l) = lockExpiry(lock)
    BY <1>2 DEF isProverPaid, isProverPaidBeforeLockDeadline, isProverPaidAfterLockDeadline,
                lockExpiry, Slashed, ProverPaidDuringLock, ProverPaidAfterLock
  <1>4. /\ n.requestLocks[id] = l
        /\ n.released[id] = m.released[id] + lock.collateral
        /\ n.spent[id] = IF isProverPaidAfterLockDeadline(lock) THEN m.spent[id] ELSE m.spent[id] - lock.price
    BY <1>1 DEF MarketType
  <1>5. Balanced(m, id)
    BY <1>1 DEF GoodId
  <1>6. Escrowed(l) = 0
    BY <1>2 DEF Escrowed
  <1>7. n.spent[id] - n.earned[id] = 0
    <2>1. m.spent[id] - m.earned[id] = IF isProverPaidAfterLockDeadline(lock) THEN 0 ELSE lock.price
      BY <1>5 DEF Balanced, Escrowed
    <2>2. m.spent[id] \in Int /\ m.earned[id] \in Nat /\ lock.price \in Nat
      BY <1>1, LockRecord
    <2> HIDE DEF lock
    <2> QED BY <1>4, <2>1, <2>2
  <1>8. n.staked[id] - n.released[id] = 0
    <2>1. m.staked[id] - m.released[id] = lock.collateral
      BY <1>5 DEF Balanced
    <2>2. m.staked[id] \in Nat /\ m.released[id] \in Nat /\ lock.collateral \in Nat
      BY <1>1, LockRecord
    <2> HIDE DEF lock
    <2> QED BY <1>4, <2>1, <2>2
  <1>9. GoodId(n, id, t)
    <2>1. Balanced(n, id)
      BY <1>2, <1>4, <1>6, <1>7, <1>8 DEF Balanced
    <2>2. ~isProverPaidBeforeLockDeadline(l) /\ t > lockExpiry(l)
      BY <1>3
    <2> HIDE DEF l, lock
    <2> QED
      BY <2>1, <2>2, <1>1, <1>2, <1>3, <1>4 DEF GoodId, UnlockedIsEmpty, DeliveredFulfilled, SlashExpired, EarnedIsMarked, PaidAfterHasProver, lock
  <1>10. ASSUME NEW x \in Ids \ {id}
         PROVE  /\ n.requestLocks[x] = m.requestLocks[x]
                /\ n.spent[x] = m.spent[x]
                /\ n.released[x] = m.released[x]
    BY <1>1 DEF MarketType
  <1> QED BY Zenon, <1>9, <1>10, OneIdUpdate

\* setRequestFulfilled sets the flag and leaves every other record alone.
LEMMA FulfilledStorage ==
    ASSUME NEW t \in Nat, NEW m \in GoodStorage(t), NEW id \in Ids
    PROVE  LET n == setRequestFulfilled(m, id)
           IN  /\ n \in GoodStorage(t)
               /\ n.fulfilled[clientAndIndex(id)]
               /\ n = [m EXCEPT !.fulfilled = n.fulfilled]
               /\ n.balance = m.balance /\ n.collateralBalance = m.collateralBalance
               /\ n.requestLocks = m.requestLocks /\ n.locked = m.locked
               /\ n.spent = m.spent /\ n.earned = m.earned /\ n.staked = m.staked
               /\ n.released = m.released /\ n.delivered = m.delivered
  <1> DEFINE n == setRequestFulfilled(m, id)
             k == clientAndIndex(id)
  <1>1. m \in MarketType /\ GoodId(m, id, t)
    BY DEF GoodStorage
  <1>2. k \in Keys
    BY IdKey
  <1>3. /\ n \in MarketType
        /\ n.fulfilled = [m.fulfilled EXCEPT ![k] = TRUE]
        /\ n = [m EXCEPT !.fulfilled = n.fulfilled]
        /\ n.balance = m.balance /\ n.collateralBalance = m.collateralBalance
        /\ n.requestLocks = m.requestLocks /\ n.locked = m.locked
        /\ n.spent = m.spent /\ n.earned = m.earned /\ n.staked = m.staked
        /\ n.released = m.released /\ n.delivered = m.delivered
    BY <1>1, <1>2, Zenon DEF setRequestFulfilled, MarketType
  <1>4. n.fulfilled[k] /\ \A x \in Keys : m.fulfilled[x] => n.fulfilled[x]
    BY <1>1, <1>2, <1>3 DEF MarketType
  <1> HIDE DEF n
  <1>5. GoodId(n, id, t)
    BY <1>1, <1>3, <1>4 DEF GoodId, Balanced, UnlockedIsEmpty, DeliveredFulfilled, SlashExpired, EarnedIsMarked, PaidAfterHasProver
  <1>6. n \in GoodStorage(t)
    BY Zenon, <1>3, <1>4, <1>5, OneIdUpdate
  <1> QED BY <1>3, <1>4, <1>6 DEF n

\* _fulfillAndPayLocked keeps a good storage good and leaves the id fulfilled.
LEMMA LockedStorage ==
    ASSUME NEW t \in Nat, NEW m \in GoodStorage(t), NEW d \in Digests, NEW prover \in Accounts,
           m.locked[clientAndIndex(request[d].id)],
           m.requestLocks[request[d].id].lockDeadline >= t
    PROVE  LET n == fulfillAndPayLocked(m, d, prover)
           IN  n \in GoodStorage(t) /\ n.fulfilled[clientAndIndex(request[d].id)]
  <1> DEFINE id == request[d].id
             lock == m.requestLocks[id]
             k == clientAndIndex(id)
             done == setRequestFulfilled(m, id)
             n == fulfillAndPayLocked(m, d, prover)
             l == setProverPaidBeforeLockDeadline(lock)
  <1>1. id \in Ids /\ m \in MarketType /\ GoodId(m, id, t)
    BY RequestType DEF GoodStorage
  <1>0. m.locked[k]
    OBVIOUS
  <1>2. CASE isProverPaid(lock)
    <2>1. m.fulfilled[k]
      BY <1>1, <1>2 DEF GoodId, DeliveredFulfilled
    <2> QED BY <1>2, <2>1 DEF fulfillAndPayLocked
  <1>3. CASE ~isProverPaid(lock) /\ ~eligible(lock, d, prover)
    <2>1. n = done
      BY <1>3 DEF fulfillAndPayLocked
    <2> QED BY <2>1, <1>1, FulfilledStorage
  <1>4. CASE ~isProverPaid(lock) /\ eligible(lock, d, prover)
    <2>1. /\ done \in GoodStorage(t) /\ done \in MarketType /\ GoodId(done, id, t) /\ done.fulfilled[k]
          /\ done.requestLocks = m.requestLocks /\ done.locked = m.locked
      BY <1>1, FulfilledStorage DEF GoodStorage
    <2>2. /\ lock \in RequestLock /\ lock.price \in Nat /\ lock.collateral \in Nat
          /\ lock.lockDeadline \in Nat /\ lock.deadlineDelta \in Nat
          /\ lock.requestLockFlags \in SUBSET LockFlags
          /\ done.spent[id] \in Int /\ done.earned[id] \in Nat
          /\ done.staked[id] \in Nat /\ done.released[id] \in Nat
          /\ done.balance[prover] \in Nat /\ done.collateralBalance[prover] \in Nat
      <3>1. done.balance[prover] \in Nat /\ done.collateralBalance[prover] \in Nat
        BY <2>1 DEF MarketType, Holders
      <3> HIDE DEF done
      <3> QED BY <3>1, <1>1, <2>1, LockRecord
    <2>3. l \in RequestLock /\ l.requestLockFlags = {ProverPaidDuringLock} /\ l.price = 0 /\ l.collateral = 0
      <3> HIDE DEF lock
      <3> QED BY <2>2, Zenon DEF setProverPaidBeforeLockDeadline, clearSlot1, RequestLock, LockFlags
    <2>4. n = [done EXCEPT !.requestLocks[id] = l,
                           !.balance[prover] = done.balance[prover] + lock.price,
                           !.collateralBalance[prover] = done.collateralBalance[prover] + lock.collateral,
                           !.earned[id] = done.earned[id] + lock.price,
                           !.released[id] = done.released[id] + lock.collateral]
      BY <1>4 DEF fulfillAndPayLocked
    <2> HIDE DEF n, done, l, lock, k, id
    <2>5. /\ n \in MarketType
          /\ n.requestLocks = [done.requestLocks EXCEPT ![id] = l]
          /\ n.earned = [done.earned EXCEPT ![id] = done.earned[id] + lock.price]
          /\ n.released = [done.released EXCEPT ![id] = done.released[id] + lock.collateral]
          /\ n.locked = done.locked /\ n.fulfilled = done.fulfilled
          /\ n.spent = done.spent /\ n.staked = done.staked /\ n.delivered = done.delivered
      <3>1. /\ done.balance[prover] + lock.price \in Nat
            /\ done.collateralBalance[prover] + lock.collateral \in Nat
            /\ done.earned[id] + lock.price \in Nat
            /\ done.released[id] + lock.collateral \in Nat
        BY <2>2
      <3> DEFINE b == done.balance[prover] + lock.price
                 c == done.collateralBalance[prover] + lock.collateral
                 e == done.earned[id] + lock.price
                 r == done.released[id] + lock.collateral
      <3>2. n = [done EXCEPT !.requestLocks[id] = l, !.balance[prover] = b,
                             !.collateralBalance[prover] = c, !.earned[id] = e,
                             !.released[id] = r]
        BY <2>4
      <3>3. b \in Nat /\ c \in Nat /\ e \in Nat /\ r \in Nat
        BY <3>1
      <3> HIDE DEF b, c, e, r
      <3>4. /\ n \in MarketType
            /\ n.requestLocks = [done.requestLocks EXCEPT ![id] = l]
            /\ n.earned = [done.earned EXCEPT ![id] = e]
            /\ n.released = [done.released EXCEPT ![id] = r]
            /\ n.locked = done.locked /\ n.fulfilled = done.fulfilled
            /\ n.spent = done.spent /\ n.staked = done.staked /\ n.delivered = done.delivered
        BY <3>2, <3>3, <2>1, <2>3, <1>1, Zenon DEF MarketType, Holders
      <3> QED BY <3>4 DEF e, r
    <2>6. /\ n.requestLocks[id] = l
          /\ n.earned[id] = done.earned[id] + lock.price
          /\ n.released[id] = done.released[id] + lock.collateral
      BY <2>1, <2>5, <1>1 DEF MarketType
    <2>7. /\ done.spent[id] - done.earned[id] = lock.price
          /\ done.staked[id] - done.released[id] = lock.collateral
      BY <2>1, <1>4 DEF GoodId, Balanced, Escrowed, isProverPaid, lock
    <2>8. n.spent[id] - n.earned[id] = 0 /\ n.staked[id] - n.released[id] = 0
      BY <2>2, <2>5, <2>6, <2>7
    <2>9. /\ Escrowed(l) = 0 /\ ~isSlashed(l) /\ isProverPaid(l)
          /\ ~isProverPaidAfterLockDeadline(l)
      BY <2>3 DEF Escrowed, isSlashed, isProverPaid, isProverPaidBeforeLockDeadline,
                  isProverPaidAfterLockDeadline, Slashed, ProverPaidDuringLock, ProverPaidAfterLock
    <2>10. GoodId(n, id, t)
      BY <1>0, <2>1, <2>3, <2>5, <2>6, <2>8, <2>9
         DEF GoodId, Balanced, UnlockedIsEmpty, DeliveredFulfilled, SlashExpired, EarnedIsMarked, PaidAfterHasProver, k
    <2>11. ASSUME NEW x \in Ids \ {id}
           PROVE  /\ n.requestLocks[x] = done.requestLocks[x]
                  /\ n.earned[x] = done.earned[x]
                  /\ n.released[x] = done.released[x]
      BY <2>1, <2>5 DEF MarketType
    <2>12. n \in GoodStorage(t)
      BY Zenon, <2>1, <2>5, <2>10, <2>11, <1>1, OneIdUpdate
    <2> QED BY <2>12, <2>1, <2>5 DEF n, k, id
  <1> QED BY <1>2, <1>3, <1>4

\* _fulfillAndPayWasLocked keeps a good storage good and leaves the id
\* fulfilled, whether it charges the client, refunds it or pays partially.
LEMMA WasLockedStorage ==
    ASSUME NEW t \in Nat, NEW m \in GoodStorage(t), NEW d \in Digests, NEW prover \in Accounts,
           NEW price \in Nat,
           m.locked[clientAndIndex(request[d].id)]
    PROVE  LET n == fulfillAndPayWasLocked(m, d, price, prover)
           IN  n \in GoodStorage(t) /\ n.fulfilled[clientAndIndex(request[d].id)]
  <1> DEFINE id == request[d].id
             lock == m.requestLocks[id]
             k == clientAndIndex(id)
             due == amountDue(lock, price)
             owes == IF due > m.balance[id.client] THEN m.balance[id.client] ELSE due
             done == setRequestFulfilled(m, id)
             b == uncheckedSub(done.balance[id.client], owes)
             s == done.spent[id] + owes
             charged == [done EXCEPT !.balance[id.client] = b, !.spent[id] = s]
             l == setProverPaidAfterLockDeadline(lock, prover)
             n == fulfillAndPayWasLocked(m, d, price, prover)
  <1>1. id \in Ids /\ id.client \in Holders /\ m \in MarketType /\ GoodId(m, id, t) /\ m.locked[k]
    BY RequestType DEF GoodStorage
  <1>2. CASE isProverPaid(lock)
    <2>1. m.fulfilled[k]
      BY <1>1, <1>2 DEF GoodId, DeliveredFulfilled
    <2> QED BY <1>2, <2>1 DEF fulfillAndPayWasLocked
  <1>3. CASE ~isProverPaid(lock)
    <2>1. /\ done \in GoodStorage(t) /\ done \in MarketType /\ GoodId(done, id, t) /\ done.fulfilled[k]
          /\ done.requestLocks = m.requestLocks /\ done.locked = m.locked /\ done.balance = m.balance
      BY <1>1, FulfilledStorage DEF GoodStorage
    <2>2. /\ lock \in RequestLock /\ lock.price \in Nat /\ lock.collateral \in Nat
          /\ lock.lockDeadline \in Nat /\ lock.deadlineDelta \in Nat
          /\ lock.requestLockFlags \in SUBSET LockFlags
          /\ done.spent[id] \in Int /\ done.earned[id] \in Nat
          /\ done.staked[id] \in Nat /\ done.released[id] \in Nat
          /\ m.balance[id.client] \in Nat
      <3>1. m.balance[id.client] \in Nat
        BY <1>1 DEF MarketType
      <3> HIDE DEF done
      <3> QED BY <3>1, <1>1, <2>1, LockRecord
    <2>3. owes \in Int /\ lock.price + owes \in Nat /\ b \in Nat /\ s \in Int
      <3>1. due = price - lock.price
        BY DEF amountDue
      <3>2. owes \in Int /\ lock.price + owes \in Nat /\ owes <= m.balance[id.client]
        <4> HIDE DEF lock, due, id
        <4> QED BY <3>1, <2>2
      <3>3. b \in Nat
        <4> HIDE DEF owes, done, id
        <4> QED BY Zenon, <3>2, <2>1, <2>2, uncheckedSubType
      <3> HIDE DEF owes, done
      <3> QED BY <3>2, <3>3, <2>2
    <2>4. /\ l \in RequestLock /\ l.price = lock.price /\ l.collateral = lock.collateral
          /\ l.lockDeadline = lock.lockDeadline /\ l.deadlineDelta = lock.deadlineDelta
          /\ l.requestLockFlags = lock.requestLockFlags \cup {ProverPaidAfterLock}
          /\ l.prover = prover
      <3> HIDE DEF lock
      <3> QED BY <2>2, Zenon DEF setProverPaidAfterLockDeadline, RequestLock, LockFlags
    <2>5. n = [charged EXCEPT !.requestLocks[id] = l,
                              !.balance[prover] = @ + (lock.price + owes),
                              !.earned[id] = @ + (lock.price + owes)]
      BY <1>3 DEF fulfillAndPayWasLocked
    <2> HIDE DEF n, done, l, lock, k, id, owes, due, b, s
    <2>6. /\ charged \in MarketType
          /\ charged.requestLocks = done.requestLocks /\ charged.earned = done.earned
          /\ charged.spent = [done.spent EXCEPT ![id] = s]
          /\ charged.locked = done.locked /\ charged.fulfilled = done.fulfilled
          /\ charged.staked = done.staked /\ charged.released = done.released
          /\ charged.delivered = done.delivered
      BY <1>1, <2>1, <2>3, Zenon DEF MarketType
    <2> HIDE DEF charged
    <2>7. /\ n \in MarketType
          /\ n.requestLocks = [charged.requestLocks EXCEPT ![id] = l]
          /\ n.earned = [charged.earned EXCEPT ![id] = charged.earned[id] + (lock.price + owes)]
          /\ n.spent = charged.spent
          /\ n.locked = charged.locked /\ n.fulfilled = charged.fulfilled
          /\ n.staked = charged.staked /\ n.released = charged.released
          /\ n.delivered = charged.delivered
      <3> DEFINE c == charged.balance[prover] + (lock.price + owes)
                 e == charged.earned[id] + (lock.price + owes)
      <3>1. charged.balance[prover] \in Nat /\ charged.earned[id] \in Nat
        BY <1>1, <2>6 DEF MarketType, Holders
      <3>2. c \in Nat /\ e \in Nat
        BY <3>1, <2>3
      <3>3. n = [charged EXCEPT !.requestLocks[id] = l, !.balance[prover] = c, !.earned[id] = e]
        BY <2>5
      <3> HIDE DEF c, e
      <3>4. /\ n \in MarketType
            /\ n.requestLocks = [charged.requestLocks EXCEPT ![id] = l]
            /\ n.earned = [charged.earned EXCEPT ![id] = e]
            /\ n.spent = charged.spent
            /\ n.locked = charged.locked /\ n.fulfilled = charged.fulfilled
            /\ n.staked = charged.staked /\ n.released = charged.released
            /\ n.delivered = charged.delivered
        BY <3>2, <3>3, <2>4, <2>6, <1>1, Zenon DEF MarketType, Holders
      <3> QED BY <3>4 DEF e
    <2>8. /\ n.requestLocks[id] = l
          /\ n.earned[id] = done.earned[id] + (lock.price + owes)
          /\ n.spent[id] = done.spent[id] + owes
      BY <2>1, <2>6, <2>7, <1>1 DEF MarketType, s
    <2>9. /\ done.spent[id] - done.earned[id] = lock.price
          /\ done.staked[id] - done.released[id] = lock.collateral
      BY <2>1, <1>3 DEF GoodId, Balanced, Escrowed, isProverPaid, lock
    <2>10. n.spent[id] - n.earned[id] = 0 /\ n.staked[id] - n.released[id] = lock.collateral
      BY <2>2, <2>3, <2>6, <2>7, <2>8, <2>9
    <2>11. /\ Escrowed(l) = 0 /\ isSlashed(l) = isSlashed(lock) /\ isProverPaid(l)
           /\ isProverPaidBeforeLockDeadline(l) = isProverPaidBeforeLockDeadline(lock)
           /\ lockExpiry(l) = lockExpiry(lock)
      BY <2>4 DEF Escrowed, isSlashed, isProverPaid, isProverPaidBeforeLockDeadline, lockExpiry,
                  isProverPaidAfterLockDeadline, Slashed, ProverPaidDuringLock, ProverPaidAfterLock
    <2>12. GoodId(n, id, t)
      <3>1. Balanced(n, id)
        BY <2>4, <2>8, <2>10, <2>11 DEF Balanced
      <3>2. /\ UnlockedIsEmpty(n, id) /\ DeliveredFulfilled(n, id) /\ EarnedIsMarked(n, id)
            /\ PaidAfterHasProver(n, id)
        BY <1>1, <2>1, <2>4, <2>6, <2>7, <2>8, <2>11
           DEF UnlockedIsEmpty, DeliveredFulfilled, EarnedIsMarked, PaidAfterHasProver, k
      <3>3. SlashExpired(n, id, t)
        BY <1>1, <2>8, <2>11 DEF SlashExpired, GoodId, lock
      <3> QED BY <3>1, <3>2, <3>3 DEF GoodId
    <2>13. ASSUME NEW x \in Ids \ {id}
           PROVE  /\ n.requestLocks[x] = done.requestLocks[x]
                  /\ n.earned[x] = done.earned[x]
                  /\ n.spent[x] = done.spent[x]
      BY <2>1, <2>6, <2>7 DEF MarketType
    <2>14. n \in GoodStorage(t)
      <3>1. \A x \in Ids \ {id} :
               /\ n.requestLocks[x] = done.requestLocks[x]
               /\ n.spent[x] = done.spent[x] /\ n.earned[x] = done.earned[x]
               /\ n.staked[x] = done.staked[x] /\ n.released[x] = done.released[x]
               /\ x \in n.delivered => x \in done.delivered
        BY <2>6, <2>7, <2>13
      <3>2. n.locked = done.locked /\ \A x \in Keys : done.fulfilled[x] => n.fulfilled[x]
        BY <2>6, <2>7, <2>13
      <3> QED BY Zenon, <3>1, <3>2, <1>1, <2>1, <2>7, <2>12, OneIdUpdate
    <2> QED BY <2>14, <2>1, <2>6, <2>7 DEF n, k, id
  <1> QED BY <1>2, <1>3

\* _fulfillAndPayNeverLocked keeps a good storage good and leaves the id
\* fulfilled.
LEMMA NeverLockedStorage ==
    ASSUME NEW t \in Nat, NEW m \in GoodStorage(t), NEW d \in Digests, NEW prover \in Accounts,
           NEW price \in Nat,
           ~m.locked[clientAndIndex(request[d].id)]
    PROVE  LET n == fulfillAndPayNeverLocked(m, d, price, prover)
           IN  n \in GoodStorage(t) /\ n.fulfilled[clientAndIndex(request[d].id)]
  <1> DEFINE id == request[d].id
             k == clientAndIndex(id)
             done == setRequestFulfilled(m, id)
             b == uncheckedSub(done.balance[id.client], price)
             charged == [done EXCEPT !.balance[id.client] = b]
             n == fulfillAndPayNeverLocked(m, d, price, prover)
  <1>1. id \in Ids /\ id.client \in Holders /\ m \in MarketType /\ GoodId(m, id, t) /\ ~m.locked[k]
    BY RequestType DEF GoodStorage
  <1>2. CASE m.fulfilled[k]
    BY <1>2 DEF fulfillAndPayNeverLocked
  <1>3. CASE ~m.fulfilled[k] /\ m.balance[id.client] < price
    <2>1. n = done
      BY <1>3 DEF fulfillAndPayNeverLocked
    <2> QED BY <2>1, <1>1, FulfilledStorage
  <1>4. CASE ~m.fulfilled[k] /\ ~(m.balance[id.client] < price)
    <2>1. /\ done \in GoodStorage(t) /\ done \in MarketType /\ GoodId(done, id, t) /\ done.fulfilled[k]
          /\ done.requestLocks = m.requestLocks /\ done.locked = m.locked /\ done.balance = m.balance
      BY <1>1, FulfilledStorage DEF GoodStorage
    <2>2. m.balance[id.client] \in Nat /\ done.spent[id] \in Int /\ done.earned[id] \in Nat
      BY <1>1, <2>1 DEF MarketType
    <2>3. b \in Nat
      <3> HIDE DEF done, id
      <3> QED BY <1>4, <2>1, <2>2, uncheckedSubType
    <2>4. n = [charged EXCEPT !.balance[prover] = @ + price,
                              !.spent[id] = @ + price,
                              !.earned[id] = @ + price]
      BY <1>4 DEF fulfillAndPayNeverLocked
    <2> HIDE DEF n, done, k, id, b
    <2>5. /\ charged \in MarketType
          /\ charged.requestLocks = done.requestLocks /\ charged.earned = done.earned
          /\ charged.spent = done.spent
          /\ charged.locked = done.locked /\ charged.fulfilled = done.fulfilled
          /\ charged.staked = done.staked /\ charged.released = done.released
          /\ charged.delivered = done.delivered
      BY <1>1, <2>1, <2>3, Zenon DEF MarketType
    <2> HIDE DEF charged
    <2>6. /\ n \in MarketType
          /\ n.requestLocks = charged.requestLocks
          /\ n.earned = [charged.earned EXCEPT ![id] = charged.earned[id] + price]
          /\ n.spent = [charged.spent EXCEPT ![id] = charged.spent[id] + price]
          /\ n.locked = charged.locked /\ n.fulfilled = charged.fulfilled
          /\ n.staked = charged.staked /\ n.released = charged.released
          /\ n.delivered = charged.delivered
      <3> DEFINE c == charged.balance[prover] + price
                 e == charged.earned[id] + price
                 s == charged.spent[id] + price
      <3>1. charged.balance[prover] \in Nat /\ charged.earned[id] \in Nat /\ charged.spent[id] \in Int
        BY <1>1, <2>5 DEF MarketType, Holders
      <3>2. c \in Nat /\ e \in Nat /\ s \in Int
        BY <3>1
      <3>3. n = [charged EXCEPT !.balance[prover] = c, !.spent[id] = s, !.earned[id] = e]
        BY <2>4
      <3> HIDE DEF c, e, s
      <3>4. /\ n \in MarketType
            /\ n.requestLocks = charged.requestLocks
            /\ n.earned = [charged.earned EXCEPT ![id] = e]
            /\ n.spent = [charged.spent EXCEPT ![id] = s]
            /\ n.locked = charged.locked /\ n.fulfilled = charged.fulfilled
            /\ n.staked = charged.staked /\ n.released = charged.released
            /\ n.delivered = charged.delivered
        BY <3>2, <3>3, <2>5, <1>1, Zenon DEF MarketType, Holders
      <3> QED BY <3>4 DEF e, s
    <2>7. n.earned[id] = done.earned[id] + price /\ n.spent[id] = done.spent[id] + price
      BY <2>1, <2>5, <2>6, <1>1 DEF MarketType
    <2>8. n.spent[id] - n.earned[id] = done.spent[id] - done.earned[id]
      BY <2>2, <2>7
    <2>9. GoodId(n, id, t)
      BY <1>1, <2>1, <2>5, <2>6, <2>8
         DEF GoodId, Balanced, UnlockedIsEmpty, DeliveredFulfilled, SlashExpired, EarnedIsMarked, PaidAfterHasProver, k
    <2>10. ASSUME NEW x \in Ids \ {id}
           PROVE  n.earned[x] = done.earned[x] /\ n.spent[x] = done.spent[x]
      BY <2>1, <2>5, <2>6 DEF MarketType
    <2>11. n \in GoodStorage(t)
      <3>1. \A x \in Ids \ {id} :
               /\ n.requestLocks[x] = done.requestLocks[x]
               /\ n.spent[x] = done.spent[x] /\ n.earned[x] = done.earned[x]
               /\ n.staked[x] = done.staked[x] /\ n.released[x] = done.released[x]
               /\ x \in n.delivered => x \in done.delivered
        BY <2>5, <2>6, <2>10
      <3>2. n.locked = done.locked /\ \A x \in Keys : done.fulfilled[x] => n.fulfilled[x]
        BY <2>5, <2>6, <2>10
      <3> QED BY Zenon, <3>1, <3>2, <1>1, <2>1, <2>6, <2>9, OneIdUpdate
    <2> QED BY <2>11, <2>1, <2>5, <2>6 DEF n, k, id
  <1> QED BY <1>2, <1>3, <1>4

\* _fulfillAndPay keeps a good storage good, on each of its three paths.
LEMMA FulfillStorage ==
    ASSUME timestamp \in Nat, NEW m \in GoodStorage(timestamp), NEW d \in Digests, NEW prover \in Accounts
    PROVE  fulfillAndPay(m, d, prover) \in GoodStorage(timestamp)
  <1> DEFINE id == request[d].id
             k == clientAndIndex(id)
             price == m.context[d].price
             paid == IF ~m.locked[k]
                       THEN fulfillAndPayNeverLocked(m, d, price, prover)
                     ELSE IF m.requestLocks[id].lockDeadline >= timestamp
                       THEN fulfillAndPayLocked(m, d, prover)
                     ELSE fulfillAndPayWasLocked(m, d, price, prover)
             n == [paid EXCEPT !.delivered = @ \cup {id}]
  <1>1. price \in Nat
    BY DEF GoodStorage, MarketType, FulfillmentContext
  <1>2. paid \in GoodStorage(timestamp) /\ paid.fulfilled[k]
    <2> HIDE DEF price
    <2>1. CASE ~m.locked[k]
      BY <1>1, <2>1, NeverLockedStorage
    <2>2. CASE m.locked[k] /\ m.requestLocks[id].lockDeadline >= timestamp
      BY <2>2, LockedStorage
    <2>3. CASE m.locked[k] /\ ~(m.requestLocks[id].lockDeadline >= timestamp)
      BY <1>1, <2>3, WasLockedStorage
    <2> QED BY <2>1, <2>2, <2>3
  <1>3. id \in Ids /\ k \in Keys
    BY RequestType
  <1>4. fulfillAndPay(m, d, prover) = n
    BY DEF fulfillAndPay
  <1> HIDE DEF paid, k, id, price
  <1>5. /\ n \in MarketType
        /\ n.delivered = paid.delivered \cup {id}
        /\ n.requestLocks = paid.requestLocks /\ n.locked = paid.locked
        /\ n.fulfilled = paid.fulfilled /\ n.spent = paid.spent /\ n.earned = paid.earned
        /\ n.staked = paid.staked /\ n.released = paid.released
    BY <1>2, <1>3, Zenon DEF GoodStorage, MarketType
  <1> HIDE DEF n
  <1>6. GoodId(n, id, timestamp)
    BY <1>2, <1>3, <1>5 DEF GoodStorage, GoodId, Balanced, UnlockedIsEmpty, DeliveredFulfilled,
                            SlashExpired, EarnedIsMarked, PaidAfterHasProver, k
  <1> QED BY <1>2, <1>3, <1>4, <1>5, <1>6, OneIdUpdate

-----------------------------------------------------------------------------
(* The call stack *)

\* The innermost frame is an element of the stack.
LEMMA TopIn ==
    ASSUME NEW S, frames \in Seq(S), frames # <<>>
    PROVE  Top \in S /\ Len(frames) \in 1..Len(frames)
  BY DEF Top

\* Replacing the innermost frame keeps the type of the stack.
LEMMA SetTopIn ==
    ASSUME NEW S, frames \in Seq(S), frames # <<>>, NEW f \in S
    PROVE  SetTop(f) \in Seq(S)
  BY TopIn, ExceptSeq DEF SetTop

\* A return keeps the type of the stack.
LEMMA PopIn ==
    ASSUME NEW S, frames \in Seq(S), frames # <<>>
    PROVE  Pop(frames) \in Seq(S)
  <1>1. Len(frames) \in Nat /\ \A i \in 1..(Len(frames) - 1) : frames[i] \in S
    OBVIOUS
  <1> QED BY <1>1, SubSeqProperties DEF Pop

-----------------------------------------------------------------------------
(* Invariance *)

\* A fresh market is good.
LEMMA InitIInv ==
    ASSUME Init
    PROVE  IInv
  <1>1. EmptyLock \in RequestLock
    BY DEF EmptyLock, RequestLock, LockFlags
  <1>2. market \in MarketType
    BY <1>1 DEF Init, MarketType, FulfillmentContext, NoContext
  <1>3. ASSUME NEW id \in Ids
        PROVE  GoodId(market, id, timestamp)
    <2>1. /\ market.requestLocks[id] = EmptyLock /\ market.delivered = {}
          /\ market.spent[id] = 0 /\ market.earned[id] = 0
          /\ market.staked[id] = 0 /\ market.released[id] = 0
      BY DEF Init
    <2>2. /\ ~isProverPaid(EmptyLock) /\ ~isSlashed(EmptyLock) /\ Escrowed(EmptyLock) = 0
          /\ EmptyLock.collateral = 0 /\ ~isProverPaidAfterLockDeadline(EmptyLock)
      BY DEF EmptyLock, isProverPaid, isSlashed, isProverPaidBeforeLockDeadline,
             isProverPaidAfterLockDeadline, Escrowed
    <2>3. Balanced(market, id)
      BY <2>1, <2>2 DEF Balanced
    <2> QED
      BY <2>1, <2>2, <2>3 DEF GoodId, UnlockedIsEmpty, DeliveredFulfilled, SlashExpired, EarnedIsMarked, PaidAfterHasProver
  <1>4. timestamp \in Nat /\ blockNumber \in Nat \ {0} /\ frames \in Seq(GoodFrame(timestamp))
    BY DEF Init
  <1> QED BY <1>2, <1>3, <1>4 DEF IInv, GoodStorage

\* A step that keeps the stack and the clock needs only a good new storage.
LEMMA CommitIInv ==
    ASSUME IInv, NEW m \in GoodStorage(timestamp), Commit(m)
    PROVE  IInv'
  BY DEF IInv, Commit

\* The ETH transfer that ends a withdrawal of at most the balance.
LEMMA WithdrawnStorage ==
    ASSUME NEW t \in Nat, NEW m \in GoodStorage(t), NEW a \in Accounts, NEW value \in Nat,
           m.balance[a] >= value
    PROVE  withdrawn(m, a, value) \in GoodStorage(t)
  <1> DEFINE b == uncheckedSub(m.balance[a], value)
             e == m.eth - value
             n == [m EXCEPT !.balance[a] = b, !.eth = e]
  <1>1. m \in MarketType /\ m.balance[a] \in Nat /\ m.eth \in Int /\ a \in Holders
    BY DEF GoodStorage, MarketType, Holders
  <1>2. b \in Nat /\ e \in Int
    <2>1. b \in Nat
      BY <1>1 DEF uncheckedSub
    <2> QED BY <1>1, <2>1
  <1>3. withdrawn(m, a, value) = n
    BY DEF withdrawn
  <1> HIDE DEF b, e
  <1>4. /\ n \in MarketType
        /\ n.requestLocks = m.requestLocks /\ n.locked = m.locked /\ n.fulfilled = m.fulfilled
        /\ n.spent = m.spent /\ n.earned = m.earned /\ n.staked = m.staked
        /\ n.released = m.released /\ n.delivered = m.delivered
    BY <1>1, <1>2, Zenon DEF MarketType
  <1> QED BY Zenon, <1>3, <1>4, SameRequests

\* Deposits and withdrawals keep the invariant.
LEMMA AccountSteps ==
    ASSUME IInv, NEW a \in Accounts, NEW value \in Nat,
           \/ depositTo(a, value) \/ withdraw(a, value)
           \/ depositCollateralTo(a, value) \/ withdrawCollateral(a, value)
    PROVE  IInv'
  <1>1. /\ market \in GoodStorage(timestamp) /\ market \in MarketType /\ timestamp \in Nat
        /\ a \in Holders
    BY DEF IInv, GoodStorage, Holders
  <1>2. /\ market.balance[a] \in Nat /\ market.collateralBalance[a] \in Nat
        /\ market.eth \in Int /\ market.tokens \in Int
    BY <1>1 DEF MarketType
  <1>3. CASE depositTo(a, value)
    <2> DEFINE b == market.balance[a] + value
               e == market.eth + value
               n == [market EXCEPT !.balance[a] = b, !.eth = e]
    <2>1. Commit(n)
      BY <1>3 DEF depositTo
    <2>2. b \in Nat /\ e \in Int
      BY <1>2
    <2> HIDE DEF b, e
    <2>3. /\ n \in MarketType
          /\ n.requestLocks = market.requestLocks /\ n.locked = market.locked
          /\ n.fulfilled = market.fulfilled /\ n.spent = market.spent /\ n.earned = market.earned
          /\ n.staked = market.staked /\ n.released = market.released
          /\ n.delivered = market.delivered
      BY <1>1, <2>2, Zenon DEF MarketType
    <2> HIDE DEF n
    <2> QED BY <1>1, <2>1, <2>3, SameRequests, CommitIInv
  <1>4. CASE withdraw(a, value)
    BY <1>1, <1>4, WithdrawnStorage, CommitIInv DEF withdraw
  <1>5. CASE depositCollateralTo(a, value)
    <2> DEFINE b == market.collateralBalance[a] + value
               e == market.tokens + value
               n == [market EXCEPT !.collateralBalance[a] = b, !.tokens = e]
    <2>1. Commit(n)
      BY <1>5 DEF depositCollateralTo
    <2>2. b \in Nat /\ e \in Int
      BY <1>2
    <2> HIDE DEF b, e
    <2>3. /\ n \in MarketType
          /\ n.requestLocks = market.requestLocks /\ n.locked = market.locked
          /\ n.fulfilled = market.fulfilled /\ n.spent = market.spent /\ n.earned = market.earned
          /\ n.staked = market.staked /\ n.released = market.released
          /\ n.delivered = market.delivered
      BY <1>1, <2>2, Zenon DEF MarketType
    <2> HIDE DEF n
    <2> QED BY <1>1, <2>1, <2>3, SameRequests, CommitIInv
  <1>6. CASE withdrawCollateral(a, value)
    <2> DEFINE b == uncheckedSub(market.collateralBalance[a], value)
               e == market.tokens - value
               n == [market EXCEPT !.collateralBalance[a] = b, !.tokens = e]
    <2>1. Commit(n)
      BY <1>6 DEF withdrawCollateral
    <2>2. b \in Nat /\ e \in Int
      BY <1>2, <1>6, uncheckedSubType DEF withdrawCollateral
    <2> HIDE DEF b, e
    <2>3. /\ n \in MarketType
          /\ n.requestLocks = market.requestLocks /\ n.locked = market.locked
          /\ n.fulfilled = market.fulfilled /\ n.spent = market.spent /\ n.earned = market.earned
          /\ n.staked = market.staked /\ n.released = market.released
          /\ n.delivered = market.delivered
      BY <1>1, <2>2, Zenon DEF MarketType
    <2> HIDE DEF n
    <2> QED BY <1>1, <2>1, <2>3, SameRequests, CommitIInv
  <1> QED BY <1>3, <1>4, <1>5, <1>6

\* lockRequest keeps the invariant.
LEMMA LockStep ==
    ASSUME IInv, NEW prover \in Accounts, NEW d \in Digests, lockRequest(prover, d)
    PROVE  IInv'
  <1> DEFINE id == request[d].id
             price == priceAt(request[d].offer, timestamp)
             stake == request[d].offer.lockCollateral
             b == uncheckedSub(market.balance[id.client], price)
             c == uncheckedSub(market.collateralBalance[prover], stake)
             l == newLock(d, prover, price)
             s == market.spent[id] + price
             k == market.staked[id] + stake
             n == [market EXCEPT !.balance[id.client] = b,
                                 !.collateralBalance[prover] = c,
                                 !.requestLocks[id] = l,
                                 !.locked[clientAndIndex(id)] = TRUE,
                                 !.spent[id] = s,
                                 !.staked[id] = k]
  <1>1. /\ market \in GoodStorage(timestamp) /\ market \in MarketType /\ timestamp \in Nat
        /\ id \in Ids /\ id.client \in Holders /\ prover \in Holders
        /\ clientAndIndex(id) \in Keys /\ request[d].offer \in OfferType
    BY RequestType DEF IInv, GoodStorage, Holders
  <1>2. /\ validate(request[d].offer) /\ lockable(id)
        /\ market.balance[id.client] >= price
        /\ market.collateralBalance[prover] >= stake
        /\ Commit(n)
    BY DEF lockRequest
  <1>3. price \in Nat /\ stake \in Nat
    BY <1>1, <1>2, priceAtType DEF OfferType
  <1>4. l \in RequestLock
    BY <1>2, <1>3, newLockType
  <1>5. /\ market.balance[id.client] \in Nat /\ market.collateralBalance[prover] \in Nat
        /\ market.spent[id] \in Int /\ market.staked[id] \in Nat
    BY <1>1 DEF MarketType
  <1>6. b \in Nat /\ c \in Nat /\ s \in Int /\ k \in Nat
    <2> HIDE DEF price, stake, id
    <2> QED BY <1>2, <1>3, <1>5, uncheckedSubType
  <1>7. ~market.locked[clientAndIndex(id)] /\ ~market.fulfilled[clientAndIndex(id)]
    BY <1>2 DEF lockable
  <1> HIDE DEF b, c, s, k, l
  <1>8. /\ n \in MarketType
        /\ n.requestLocks = [market.requestLocks EXCEPT ![id] = l]
        /\ n.locked = [market.locked EXCEPT ![clientAndIndex(id)] = TRUE]
        /\ n.spent = [market.spent EXCEPT ![id] = s]
        /\ n.staked = [market.staked EXCEPT ![id] = k]
        /\ n.fulfilled = market.fulfilled
        /\ n.earned = market.earned
        /\ n.released = market.released
        /\ n.delivered = market.delivered
    <2> HIDE DEF id
    <2> QED BY <1>1, <1>4, <1>6, Zenon DEF MarketType
  <1> HIDE DEF n, price
  <1>9. n \in GoodStorage(timestamp)
    <2>1. Locks(market, n, d, prover, price)
      BY <1>7, <1>8 DEF Locks, l, s, k
    <2> QED BY <2>1, <1>1, <1>2, <1>3, <1>8, LockStorage
  <1> QED BY <1>2, <1>9, CommitIInv

\* slash keeps the invariant.
LEMMA SlashStep ==
    ASSUME IInv, NEW id \in Ids, slash(id)
    PROVE  IInv'
  <1> DEFINE lock == market.requestLocks[id]
             burnValue == (lock.collateral * SLASHING_BURN_BPS) \div 10000
             transferValue == lock.collateral - burnValue
             r == market.released[id] + lock.collateral
             burnt == market.tokens - burnValue
             slashed == [market EXCEPT !.requestLocks[id] = setSlashed(lock),
                                       !.tokens = burnt,
                                       !.released[id] = r]
  <1>1. /\ market \in GoodStorage(timestamp) /\ market \in MarketType /\ timestamp \in Nat
        /\ id.client \in Holders /\ Market \in Holders
    BY IdKey DEF IInv, GoodStorage, Holders
  <1>2. /\ market.locked[clientAndIndex(id)] /\ ~isSlashed(lock)
        /\ ~isProverPaidBeforeLockDeadline(lock) /\ timestamp > lockExpiry(lock)
    BY DEF slash, slashable
  <1>3. /\ lock \in RequestLock /\ lock.price \in Nat /\ lock.collateral \in Nat
        /\ market.released[id] \in Nat /\ market.spent[id] \in Int /\ market.tokens \in Int
        /\ market.balance[id.client] \in Nat
        /\ \A a \in Holders : market.collateralBalance[a] \in Nat
    <2>1. lock \in RequestLock
      BY <1>1 DEF MarketType
    <2>2. lock.price \in Nat /\ lock.collateral \in Nat
      BY <2>1 DEF RequestLock
    <2> QED BY <2>1, <2>2, <1>1 DEF MarketType
  <1>4. burnValue \in Nat /\ transferValue \in Nat
    <2> HIDE DEF lock
    <2> QED BY <1>3 DEF SLASHING_BURN_BPS
  <1>5. r \in Nat /\ burnt \in Int
    <2> HIDE DEF lock, burnValue
    <2> QED BY <1>3, <1>4
  <1>6. setSlashed(lock) \in RequestLock
    <2> HIDE DEF lock
    <2> QED BY <1>3, Zenon DEF setSlashed, clearSlot1, RequestLock, LockFlags
  <1>7. \/ isProverPaidAfterLockDeadline(lock)
           /\ Commit([slashed EXCEPT !.collateralBalance[lock.prover] = @ + transferValue])
        \/ ~isProverPaidAfterLockDeadline(lock)
           /\ Commit([slashed EXCEPT !.collateralBalance[Market] = @ + transferValue,
                                     !.balance[id.client] = @ + lock.price,
                                     !.spent[id] = @ - lock.price])
    BY DEF slash
  <1> HIDE DEF burnValue, transferValue, r, burnt
  <1>8. /\ slashed \in MarketType
        /\ slashed.requestLocks = [market.requestLocks EXCEPT ![id] = setSlashed(lock)]
        /\ slashed.released = [market.released EXCEPT ![id] = r]
        /\ slashed.balance = market.balance
        /\ slashed.collateralBalance = market.collateralBalance
        /\ slashed.spent = market.spent /\ slashed.locked = market.locked
        /\ slashed.fulfilled = market.fulfilled /\ slashed.earned = market.earned
        /\ slashed.staked = market.staked /\ slashed.delivered = market.delivered
    <2> DEFINE l == setSlashed(lock)
    <2> HIDE DEF l
    <2> QED BY <1>1, <1>5, <1>6, Zenon DEF MarketType, l
  <1> HIDE DEF slashed
  <1>9. CASE isProverPaidAfterLockDeadline(lock)
    <2> DEFINE c == slashed.collateralBalance[lock.prover] + transferValue
               n == [slashed EXCEPT !.collateralBalance[lock.prover] = c]
    <2>1. PaidAfterHasProver(market, id)
      BY <1>1 DEF GoodStorage, GoodId
    <2>2. lock.prover \in Holders
      BY <2>1, <1>9 DEF PaidAfterHasProver, Holders
    <2>3. c \in Nat
      BY <2>2, <1>3, <1>4, <1>8
    <2>4. Commit(n)
      BY <1>7, <1>9
    <2> HIDE DEF c
    <2>5. /\ n \in MarketType
          /\ n.requestLocks = slashed.requestLocks /\ n.released = slashed.released
          /\ n.spent = slashed.spent /\ n.locked = slashed.locked
          /\ n.fulfilled = slashed.fulfilled /\ n.earned = slashed.earned
          /\ n.staked = slashed.staked /\ n.delivered = slashed.delivered
      BY <1>8, <2>2, <2>3, Zenon DEF MarketType
    <2> HIDE DEF n
    <2>6. Slashes(market, n, id)
      BY <1>8, <1>9, <2>5 DEF Slashes, r
    <2> QED BY <1>1, <1>2, <2>4, <2>5, <2>6, SlashStorage, CommitIInv
  <1>10. CASE ~isProverPaidAfterLockDeadline(lock)
    <2> DEFINE c == slashed.collateralBalance[Market] + transferValue
               b == slashed.balance[id.client] + lock.price
               s == slashed.spent[id] - lock.price
               n == [slashed EXCEPT !.collateralBalance[Market] = c, !.balance[id.client] = b,
                                    !.spent[id] = s]
    <2>1. c \in Nat /\ b \in Nat /\ s \in Int
      BY <1>1, <1>3, <1>4, <1>8
    <2>2. Commit(n)
      BY <1>7, <1>10
    <2> HIDE DEF c, b, s
    <2>3. /\ n \in MarketType
          /\ n.requestLocks = slashed.requestLocks /\ n.released = slashed.released
          /\ n.spent = [slashed.spent EXCEPT ![id] = s] /\ n.locked = slashed.locked
          /\ n.fulfilled = slashed.fulfilled /\ n.earned = slashed.earned
          /\ n.staked = slashed.staked /\ n.delivered = slashed.delivered
      BY <1>1, <1>8, <2>1, Zenon DEF MarketType
    <2> HIDE DEF n
    <2>4. Slashes(market, n, id)
      BY <1>8, <1>10, <2>3 DEF Slashes, r, s
    <2> QED BY <1>1, <1>2, <2>2, <2>3, <2>4, SlashStorage, CommitIInv
  <1> QED BY <1>9, <1>10

\* priceRequest keeps the invariant.
LEMMA PriceStep ==
    ASSUME IInv, NEW d \in Digests, priceRequest(d)
    PROVE  IInv'
  <1> DEFINE c == [valid |-> TRUE,
                   expired |-> deadline(request[d].offer) < timestamp,
                   price |-> priceAt(request[d].offer, timestamp)]
             n == [market EXCEPT !.context[d] = c]
  <1>1. /\ market \in GoodStorage(timestamp) /\ market \in MarketType /\ timestamp \in Nat
        /\ request[d].offer \in OfferType /\ validate(request[d].offer)
    BY RequestType DEF IInv, GoodStorage, priceRequest
  <1>2. c \in FulfillmentContext
    BY <1>1, priceAtType DEF FulfillmentContext
  <1>3. Commit(n)
    BY DEF priceRequest
  <1> HIDE DEF c
  <1>4. /\ n \in MarketType
        /\ n.requestLocks = market.requestLocks /\ n.locked = market.locked
        /\ n.fulfilled = market.fulfilled /\ n.spent = market.spent /\ n.earned = market.earned
        /\ n.staked = market.staked /\ n.released = market.released
        /\ n.delivered = market.delivered
    BY <1>1, <1>2, Zenon DEF MarketType
  <1> HIDE DEF n
  <1> QED BY <1>1, <1>3, <1>4, SameRequests, CommitIInv

\* Writing the block stamp of a commitment leaves the requests alone.
LEMMA StampStorage ==
    ASSUME NEW t \in Nat, NEW m \in GoodStorage(t), NEW call \in Calls, NEW stamp \in Nat
    PROVE  [m EXCEPT !.fulfillmentCommitBlock[call] = stamp] \in GoodStorage(t)
  <1> DEFINE n == [m EXCEPT !.fulfillmentCommitBlock[call] = stamp]
  <1>1. /\ n \in MarketType
        /\ n.requestLocks = m.requestLocks /\ n.locked = m.locked /\ n.fulfilled = m.fulfilled
        /\ n.spent = m.spent /\ n.earned = m.earned /\ n.staked = m.staked
        /\ n.released = m.released /\ n.delivered = m.delivered
    BY Zenon DEF GoodStorage, MarketType
  <1> QED BY Zenon, <1>1, SameRequests

\* The end of a transaction clears the contexts.
LEMMA DropStorage ==
    ASSUME NEW t \in Nat, NEW m \in GoodStorage(t)
    PROVE  dropContexts(m) \in GoodStorage(t)
  <1> DEFINE n == dropContexts(m)
  <1>1. /\ n \in MarketType
        /\ n.requestLocks = m.requestLocks /\ n.locked = m.locked /\ n.fulfilled = m.fulfilled
        /\ n.spent = m.spent /\ n.earned = m.earned /\ n.staked = m.staked
        /\ n.released = m.released /\ n.delivered = m.delivered
    BY Zenon DEF GoodStorage, MarketType, dropContexts, NoContext, FulfillmentContext
  <1> QED BY <1>1, SameRequests

\* commitFulfillment keeps the invariant.
LEMMA CommitFulfillmentStep ==
    ASSUME IInv, NEW call \in Calls, commitFulfillment(call)
    PROVE  IInv'
  <1>1. market \in GoodStorage(timestamp) /\ timestamp \in Nat /\ blockNumber \in Nat
    BY DEF IInv
  <1>2. Commit([market EXCEPT !.fulfillmentCommitBlock[call] = blockNumber])
    BY DEF commitFulfillment
  <1> QED BY <1>1, <1>2, StampStorage, CommitIInv

\* Entering fulfill keeps the invariant: the storage it saves is good.
LEMMA FulfillStep ==
    ASSUME IInv, NEW call \in Calls, NEW w \in BOOLEAN, fulfill(call, w)
    PROVE  IInv'
  <1> DEFINE stamp == IF hasOpenPathFill(call) THEN market.fulfillmentCommitBlock[call] ELSE 0
             f == [call |-> call, j |-> 1, i |-> 0, calling |-> FALSE, andWithdraw |-> w,
                   phase |-> "settle", saved |-> market, committed |-> stamp]
  <1>1. /\ market \in GoodStorage(timestamp) /\ market \in MarketType /\ timestamp \in Nat
        /\ blockNumber \in Nat \ {0} /\ frames \in Seq(GoodFrame(timestamp))
    BY DEF IInv, GoodStorage
  <1>2. market' \in GoodStorage(timestamp)
    <2>1. consumeCommitment(market, call) \in GoodStorage(timestamp)
      BY <1>1, StampStorage, SMTT(30) DEF consumeCommitment
    <2> QED BY <1>1, <2>1 DEF fulfill
  <1>3. stamp \in Nat
    BY <1>1 DEF MarketType
  <1>4. frames' = Append(frames, f) /\ timestamp' = timestamp /\ blockNumber' = blockNumber
    BY DEF fulfill
  <1> HIDE DEF stamp
  <1>5. f \in GoodFrame(timestamp)
    <2>1. f \in FrameType
      BY <1>1, <1>3 DEF FrameType
    <2> QED BY <2>1, <1>1 DEF GoodFrame
  <1> HIDE DEF f
  <1>6. frames' \in Seq(GoodFrame(timestamp))
    BY <1>1, <1>4, <1>5
  <1> QED BY <1>1, <1>2, <1>4, <1>6 DEF IInv

\* A batch of a call, and its fills.
LEMMA FrameBatch ==
    ASSUME NEW t \in Nat, NEW f \in GoodFrame(t), f.j <= Len(f.call)
    PROVE  /\ f.call \in Seq(BatchType) /\ f.j \in 1..Len(f.call) /\ f.i \in Nat
           /\ f.call[f.j] \in BatchType /\ f.call[f.j].prover \in Accounts
           /\ f.call[f.j].fills \in Seq(FillType)
           /\ f.i <= Len(f.call[f.j].fills)
           /\ f.i > 0 => /\ Len(f.call[f.j].requests) = Len(f.call[f.j].fills)
                         /\ f.call[f.j].requests[f.i] \in Digests
  <1>1. /\ f \in FrameType
        /\ f.i > 0 => /\ f.i <= Len(f.call[f.j].fills)
                      /\ Len(f.call[f.j].requests) = Len(f.call[f.j].fills)
    BY DEF GoodFrame
  <1>2. f.call \in Seq(BatchType) /\ f.j \in 1..Len(f.call) /\ f.i \in Nat
    BY <1>1, MarketAssumption DEF FrameType
  <1>3. f.call[f.j] \in BatchType
    BY <1>2
  <1>4. /\ f.call[f.j].prover \in Accounts /\ f.call[f.j].fills \in Seq(FillType)
        /\ f.call[f.j].requests \in Seq(Digests)
    BY <1>3 DEF BatchType
  <1>5. f.i <= Len(f.call[f.j].fills)
    <2>1. Len(f.call[f.j].fills) \in Nat
      BY <1>4
    <2> QED BY <1>1, <1>2, <2>1
  <1>6. ASSUME f.i > 0
        PROVE  f.call[f.j].requests[f.i] \in Digests
    <2>1. f.i \in 1..Len(f.call[f.j].requests)
      BY <1>1, <1>2, <1>4, <1>5, <1>6
    <2> QED BY <1>4, <2>1
  <1> QED BY <1>1, <1>2, <1>3, <1>4, <1>5, <1>6

\* The loop counters stay within the call.
LEMMA NextBatch ==
    ASSUME NEW t \in Nat, NEW f \in GoodFrame(t), NEW c \in BOOLEAN, NEW j \in Nat \ {0},
           NEW p \in {"settle", "withdraw"}
    PROVE  [f EXCEPT !.j = j, !.i = 0, !.calling = c, !.phase = p] \in GoodFrame(t)
  <1> DEFINE g == [f EXCEPT !.j = j, !.i = 0, !.calling = c, !.phase = p]
  <1>1. f \in FrameType /\ f.saved \in GoodStorage(t)
    BY DEF GoodFrame
  <1>2. g \in FrameType /\ g.saved = f.saved /\ g.j = j /\ g.i = 0 /\ g.call = f.call
    BY <1>1, Zenon DEF FrameType
  <1> HIDE DEF g
  <1>3. g \in GoodFrame(t)
    BY <1>1, <1>2 DEF GoodFrame
  <1> QED BY <1>3 DEF g

\* The counters of the next fill of the same batch.
LEMMA NextFill ==
    ASSUME NEW t \in Nat, NEW f \in GoodFrame(t), NEW c \in BOOLEAN, NEW i \in Nat,
           f.phase = "settle", f.j <= Len(f.call), i <= Len(f.call[f.j].fills),
           Len(f.call[f.j].requests) = Len(f.call[f.j].fills)
    PROVE  [f EXCEPT !.i = i, !.calling = c] \in GoodFrame(t)
  BY Zenon DEF GoodFrame, FrameType

\* Binding a batch, or skipping an empty one, keeps the invariant.
LEMMA BindStep ==
    ASSUME IInv, bindBatch
    PROVE  IInv'
  <1>1. /\ market \in GoodStorage(timestamp) /\ timestamp \in Nat
        /\ blockNumber \in Nat \ {0} /\ frames \in Seq(GoodFrame(timestamp)) /\ frames # <<>>
        /\ Top.phase = "settle" /\ Top.j <= Len(Top.call) /\ Top.i = 0
    BY DEF IInv, bindBatch, Running
  <1>2. Top \in GoodFrame(timestamp)
    BY <1>1, TopIn
  <1>3. Top \in FrameType /\ Top.j \in Nat \ {0} /\ Top.phase \in {"settle", "withdraw"}
    BY <1>2 DEF GoodFrame, FrameType
  <1>4. /\ Top.call[Top.j].fills \in Seq(FillType) /\ Len(Top.call[Top.j].fills) \in Nat
    BY <1>1, <1>2, FrameBatch
  <1>5. CASE Top.call[Top.j].fills = <<>>
    <2>1. [Top EXCEPT !.j = Top.j + 1, !.i = 0, !.calling = FALSE, !.phase = Top.phase] \in GoodFrame(timestamp)
      <3>1. Top.j + 1 \in Nat \ {0}
        BY <1>3
      <3> QED BY Zenon, <3>1, <1>1, <1>2, <1>3, NextBatch
    <2>2. [Top EXCEPT !.j = @ + 1, !.calling = FALSE]
            = [Top EXCEPT !.j = Top.j + 1, !.i = 0, !.calling = FALSE, !.phase = Top.phase]
      BY <1>1, <1>3, Zenon DEF FrameType
    <2>3. frames' = SetTop([Top EXCEPT !.j = @ + 1, !.calling = FALSE])
      BY <1>5 DEF bindBatch
    <2>4. frames' \in Seq(GoodFrame(timestamp))
      BY <1>1, <2>1, <2>2, <2>3, SetTopIn
    <2> QED BY <1>1, <2>4 DEF IInv, bindBatch
  <1>6. CASE Top.call[Top.j].fills # <<>>
    <2>1. 1 <= Len(Top.call[Top.j].fills) /\ Len(Top.call[Top.j].requests) = Len(Top.call[Top.j].fills)
      BY <1>4, <1>6 DEF bindBatch
    <2>2. [Top EXCEPT !.i = 1, !.calling = FALSE] \in GoodFrame(timestamp)
      BY Zenon, <1>1, <1>2, <2>1, NextFill
    <2>3. frames' = SetTop([Top EXCEPT !.i = 1, !.calling = FALSE])
      BY <1>6 DEF bindBatch
    <2>4. frames' \in Seq(GoodFrame(timestamp))
      BY <1>1, <2>2, <2>3, SetTopIn
    <2> QED BY <1>1, <2>4 DEF IInv, bindBatch
  <1> QED BY <1>5, <1>6

\* The counters after a fill, with any value of `calling'.
LEMMA AfterFillOK ==
    ASSUME NEW t \in Nat, NEW f \in GoodFrame(t), NEW c \in BOOLEAN,
           f.phase = "settle", f.j <= Len(f.call), f.i > 0
    PROVE  [AfterFill(f) EXCEPT !.calling = c] \in GoodFrame(t)
  <1>1. /\ f \in FrameType /\ f.j \in Nat \ {0} /\ f.i \in Nat /\ f.phase \in {"settle", "withdraw"}
    BY DEF GoodFrame, FrameType
  <1>2. Len(f.call[f.j].fills) \in Nat /\ Len(f.call[f.j].requests) = Len(f.call[f.j].fills)
    BY FrameBatch
  <1>3. CASE f.i < Len(f.call[f.j].fills)
    <2>1. [f EXCEPT !.i = f.i + 1, !.calling = c] \in GoodFrame(t)
      <3>1. f.i + 1 \in Nat /\ f.i + 1 <= Len(f.call[f.j].fills)
        BY <1>1, <1>2, <1>3
      <3> QED BY Zenon, <1>2, <3>1, NextFill
    <2>2. [AfterFill(f) EXCEPT !.calling = c] = [f EXCEPT !.i = f.i + 1, !.calling = c]
      BY <1>1, <1>3 DEF AfterFill, FrameType
    <2> QED BY <2>1, <2>2
  <1>4. CASE ~(f.i < Len(f.call[f.j].fills))
    <2>1. [f EXCEPT !.j = f.j + 1, !.i = 0, !.calling = c, !.phase = f.phase] \in GoodFrame(t)
      <3>1. f.j + 1 \in Nat \ {0}
        BY <1>1
      <3> QED BY Zenon, <3>1, <1>1, NextBatch
    <2>2. [AfterFill(f) EXCEPT !.calling = c] = [f EXCEPT !.j = f.j + 1, !.i = 0, !.calling = c, !.phase = f.phase]
      BY <1>1, <1>4, Zenon DEF AfterFill, FrameType
    <2> QED BY <2>1, <2>2
  <1> QED BY <1>3, <1>4

\* Settling a fill keeps the invariant.
LEMMA SettleStep ==
    ASSUME IInv, settleFill
    PROVE  IInv'
  <1> DEFINE d == Top.call[Top.j].requests[Top.i]
             prover == Top.call[Top.j].prover
  <1>1. /\ market \in GoodStorage(timestamp) /\ timestamp \in Nat
        /\ blockNumber \in Nat \ {0} /\ frames \in Seq(GoodFrame(timestamp)) /\ frames # <<>>
        /\ Top.phase = "settle" /\ Top.j <= Len(Top.call) /\ Top.i > 0
    BY Zenon DEF IInv, settleFill, Running
  <1>2. Top \in GoodFrame(timestamp)
    BY <1>1, TopIn
  <1>3. d \in Digests /\ prover \in Accounts
    BY <1>1, <1>2, FrameBatch
  <1>4. fulfillAndPay(market, d, prover) \in GoodStorage(timestamp)
    BY <1>1, <1>3, FulfillStorage
  <1>5. request[d].callback \in BOOLEAN
    BY Zenon, <1>3, MarketAssumption
  <1>6. /\ market' \in {market, fulfillAndPay(market, d, prover)}
        /\ \E c \in BOOLEAN : frames' = SetTop([AfterFill(Top) EXCEPT !.calling = c])
        /\ UNCHANGED <<timestamp, blockNumber>>
    BY <1>5, Zenon DEF settleFill, executeCallback
  <1>7. frames' \in Seq(GoodFrame(timestamp))
    <2>1. PICK c \in BOOLEAN : frames' = SetTop([AfterFill(Top) EXCEPT !.calling = c])
      BY <1>6
    <2>2. [AfterFill(Top) EXCEPT !.calling = c] \in GoodFrame(timestamp)
      BY <1>1, <1>2, AfterFillOK
    <2> QED BY <1>1, <2>1, <2>2, SetTopIn
  <1> HIDE DEF d, prover
  <1> QED BY <1>1, <1>4, <1>6, <1>7 DEF IInv

\* Returning, or starting the withdrawals, keeps the invariant.
LEMMA ReturnStep ==
    ASSUME IInv, fulfillReturns
    PROVE  IInv'
  <1>1. /\ market \in GoodStorage(timestamp) /\ timestamp \in Nat
        /\ blockNumber \in Nat \ {0} /\ frames \in Seq(GoodFrame(timestamp)) /\ frames # <<>>
        /\ Top.j > Len(Top.call) /\ UNCHANGED <<market, timestamp, blockNumber>>
    BY DEF IInv, fulfillReturns
  <1>2. Top \in GoodFrame(timestamp)
    BY <1>1, TopIn
  <1>3. CASE Top.phase = "settle" /\ Top.andWithdraw
    <2>1. Top \in FrameType /\ Top.i = 0
      <3>1. Top \in FrameType /\ ~(Top.i > 0)
        BY <1>1, <1>2, MarketAssumption DEF GoodFrame, FrameType
      <3> QED BY <3>1 DEF FrameType
    <2>2. [Top EXCEPT !.j = 1, !.i = 0, !.calling = FALSE, !.phase = "withdraw"] \in GoodFrame(timestamp)
      <3>1. 1 \in Nat \ {0} /\ "withdraw" \in {"settle", "withdraw"} /\ FALSE \in BOOLEAN
        OBVIOUS
      <3> QED BY Zenon, <3>1, <1>1, <1>2, NextBatch
    <2>3. [Top EXCEPT !.phase = "withdraw", !.j = 1, !.calling = FALSE]
            = [Top EXCEPT !.j = 1, !.i = 0, !.calling = FALSE, !.phase = "withdraw"]
      BY <2>1, Zenon DEF FrameType
    <2>4. frames' = SetTop([Top EXCEPT !.phase = "withdraw", !.j = 1, !.calling = FALSE])
      BY <1>3 DEF fulfillReturns
    <2>5. frames' \in Seq(GoodFrame(timestamp))
      BY <1>1, <2>2, <2>3, <2>4, SetTopIn
    <2> QED BY <1>1, <2>5 DEF IInv
  <1>4. CASE ~(Top.phase = "settle" /\ Top.andWithdraw)
    <2>1. frames' = Pop(frames)
      BY <1>4 DEF fulfillReturns
    <2>2. frames' \in Seq(GoodFrame(timestamp))
      BY <1>1, <2>1, PopIn
    <2> QED BY <1>1, <2>2 DEF IInv
  <1> QED BY <1>3, <1>4

\* Paying out a prover keeps the invariant.
LEMMA WithdrawProverStep ==
    ASSUME IInv, withdrawProver
    PROVE  IInv'
  <1> DEFINE prover == Top.call[Top.j].prover
             c == market.balance[prover] > 0
  <1>1. /\ market \in GoodStorage(timestamp) /\ market \in MarketType /\ timestamp \in Nat
        /\ blockNumber \in Nat \ {0} /\ frames \in Seq(GoodFrame(timestamp)) /\ frames # <<>>
        /\ Top.phase = "withdraw" /\ Top.j <= Len(Top.call) /\ UNCHANGED <<timestamp, blockNumber>>
        /\ market' = withdrawn(market, prover, market.balance[prover])
        /\ frames' = SetTop([Top EXCEPT !.j = @ + 1, !.calling = c])
    BY DEF IInv, GoodStorage, withdrawProver, Running
  <1>2. Top \in GoodFrame(timestamp)
    BY <1>1, TopIn
  <1>3. prover \in Accounts
    BY Zenon, <1>1, <1>2, FrameBatch
  <1>4. /\ Top \in FrameType /\ Top.i = 0 /\ Top.j + 1 \in Nat \ {0}
    <2>1. Top \in FrameType /\ ~(Top.i > 0)
      BY <1>1, <1>2 DEF GoodFrame
    <2> QED BY <2>1 DEF FrameType
  <1>5. market.balance[prover] \in Nat
    BY <1>1, <1>3 DEF MarketType, Holders
  <1>6. market' \in GoodStorage(timestamp)
    <2> HIDE DEF prover
    <2> QED BY <1>1, <1>3, <1>5, WithdrawnStorage
  <1>7. c \in BOOLEAN
    OBVIOUS
  <1> HIDE DEF c
  <1>8. [Top EXCEPT !.j = Top.j + 1, !.i = 0, !.calling = c, !.phase = "withdraw"] \in GoodFrame(timestamp)
    BY Zenon, <1>1, <1>2, <1>4, <1>7, NextBatch
  <1>9. [Top EXCEPT !.j = @ + 1, !.calling = c]
          = [Top EXCEPT !.j = Top.j + 1, !.i = 0, !.calling = c, !.phase = "withdraw"]
    BY <1>1, <1>4, Zenon DEF FrameType
  <1>10. frames' \in Seq(GoodFrame(timestamp))
    BY <1>1, <1>8, <1>9, SetTopIn
  <1> QED BY <1>1, <1>6, <1>10 DEF IInv

\* A revert restores a storage that was good when the call started and still
\* is: no time passes while a call runs.
LEMMA RevertStep ==
    ASSUME IInv, RevertFrame
    PROVE  IInv'
  <1>1. /\ frames \in Seq(GoodFrame(timestamp)) /\ frames # <<>>
        /\ timestamp' = timestamp /\ blockNumber' = blockNumber
        /\ timestamp \in Nat /\ blockNumber \in Nat \ {0}
    BY DEF IInv, RevertFrame
  <1>2. Top \in GoodFrame(timestamp)
    BY <1>1, TopIn
  <1>3. market' \in GoodStorage(timestamp)
    BY <1>2 DEF RevertFrame, GoodFrame
  <1>4. frames' \in Seq(GoodFrame(timestamp))
    BY <1>1, PopIn DEF RevertFrame
  <1> QED BY <1>1, <1>3, <1>4 DEF IInv

\* Time only moves between transactions, and only forward.
LEMMA ChainStep ==
    ASSUME IInv, EndTransaction \/ \E s \in BlockTimes : NextBlock(s)
    PROVE  IInv'
  <1>1. /\ market \in GoodStorage(timestamp) /\ timestamp \in Nat /\ blockNumber \in Nat \ {0}
        /\ frames = <<>> /\ market' = dropContexts(market) /\ frames' = frames
    BY DEF IInv, EndTransaction, NextBlock
  <1>2. /\ timestamp' \in Nat /\ timestamp' >= timestamp /\ blockNumber' \in Nat \ {0}
    BY <1>1, MarketAssumption DEF EndTransaction, NextBlock
  <1>3. market' \in GoodStorage(timestamp)
    BY <1>1, DropStorage
  <1>4. ASSUME NEW id \in Ids
        PROVE  GoodId(market', id, timestamp')
    <2>1. GoodId(market', id, timestamp) /\ market' \in MarketType
      BY <1>3 DEF GoodStorage
    <2>2. lockExpiry(market'.requestLocks[id]) \in Nat
      BY <2>1, LockRecord DEF lockExpiry
    <2>3. SlashExpired(market', id, timestamp')
      BY <1>1, <1>2, <2>1, <2>2 DEF GoodId, SlashExpired
    <2> QED BY <2>1, <2>3 DEF GoodId
  <1>5. market' \in GoodStorage(timestamp')
    BY <1>3, <1>4 DEF GoodStorage
  <1> QED BY <1>1, <1>2, <1>5 DEF IInv

\* Every step keeps the invariant.
LEMMA StepIInv ==
    ASSUME IInv, [Next]_vars
    PROVE  IInv'
  <1>1. CASE \E x \in EthMoves \cup TokenMoves :
                \/ depositTo(x[1], x[2]) \/ withdraw(x[1], x[2])
                \/ depositCollateralTo(x[1], x[2]) \/ withdrawCollateral(x[1], x[2])
    <2>1. PICK x \in EthMoves \cup TokenMoves :
                \/ depositTo(x[1], x[2]) \/ withdraw(x[1], x[2])
                \/ depositCollateralTo(x[1], x[2]) \/ withdrawCollateral(x[1], x[2])
      BY <1>1
    <2>2. x[1] \in Accounts /\ x[2] \in Nat
      BY MarketAssumption
    <2> QED BY <2>1, <2>2, AccountSteps
  <1>2. CASE \E a \in Accounts, d \in Digests : lockRequest(a, d)
    BY <1>2, LockStep
  <1>3. CASE \E d \in Digests : priceRequest(d)
    BY <1>3, PriceStep
  <1>4. CASE \E id \in Ids : slash(id)
    BY <1>4, SlashStep
  <1>5. CASE \E c \in Calls : commitFulfillment(c)
    BY <1>5, CommitFulfillmentStep
  <1>6. CASE \E c \in Calls, w \in BOOLEAN : fulfill(c, w)
    BY <1>6, FulfillStep
  <1>7. CASE bindBatch
    BY <1>7, BindStep
  <1>8. CASE settleFill
    BY <1>8, SettleStep
  <1>9. CASE fulfillReturns
    BY <1>9, ReturnStep
  <1>10. CASE withdrawProver
    BY <1>10, WithdrawProverStep
  <1>11. CASE RevertFrame
    BY <1>11, RevertStep
  <1>12. CASE EndTransaction \/ \E s \in BlockTimes : NextBlock(s)
    BY <1>12, ChainStep
  <1>13. CASE UNCHANGED vars
    BY <1>13 DEF vars, IInv
  <1> QED
    BY <1>1, <1>2, <1>3, <1>4, <1>5, <1>6, <1>7, <1>8, <1>9, <1>10, <1>11, <1>12, <1>13 DEF Next

\* The inductive invariant: the current storage, and every storage a running
\* fulfill would revert to, is good, and every running fulfill is within its call.
THEOREM IInvHolds == Spec => []IInv
  BY InitIInv, StepIInv, PTL DEF Spec

-----------------------------------------------------------------------------
(* The invariants of the runs *)

\* The storage, the storage every running fulfill would revert to and the loop
\* counters keep their types, for every set of requests, accounts and calls: no
\* unchecked subtraction of BoundlessMarket.sol wraps and no running fulfill
\* loses its place.
THEOREM TypeCorrect == Spec => []TypeOK
  <1>1. IInv => TypeOK
    <2> SUFFICES ASSUME IInv PROVE TypeOK
      OBVIOUS
    <2>1. GoodFrame(timestamp) \subseteq FrameType
      BY DEF GoodFrame
    <2>2. frames \in Seq(FrameType)
      BY <2>1, SeqMonotonic DEF IInv
    <2> QED BY <2>2 DEF IInv, TypeOK, GoodStorage
  <1> QED BY <1>1, IInvHolds, PTL

\* Every request's money moves exactly once: what the client paid and no prover
\* earned is what its lock holds in escrow, and what was staked and not released
\* is the collateral on its lock (_lockRequest, _fulfillAndPay*, slash).
THEOREM EscrowIsConserved == Spec => []EscrowMatchesLock
  <1>1. IInv => EscrowMatchesLock
    BY DEF IInv, GoodStorage, GoodId, Balanced, EscrowMatchesLock
  <1> QED BY <1>1, IInvHolds, PTL

\* A proof delivered or a prover paid implies the fulfilled flag, the NOTE in
\* _fulfillAndPay (BoundlessMarket.sol:517-520).
THEOREM DeliveryIsRecorded == Spec => []DeliveredIsFulfilled
  <1>1. IInv => DeliveredIsFulfilled
    BY DEF IInv, GoodStorage, GoodId, DeliveredFulfilled, DeliveredIsFulfilled
  <1> QED BY <1>1, IInvHolds, PTL

\* A slashed lock is past its full deadline and its prover was not paid during
\* the lock: no collateral is both returned and slashed.
THEOREM SlashIsLate == Spec => []SlashedOnlyAfterExpiry
  <1>1. IInv => SlashedOnlyAfterExpiry
    BY DEF IInv, GoodStorage, GoodId, SlashExpired, SlashedOnlyAfterExpiry
  <1> QED BY <1>1, IInvHolds, PTL

-----------------------------------------------------------------------------
(* Live locks *)

\* The only steps that write a lock record are lockRequest, slash, settleFill
\* and a revert.
LEMMA LocksKept ==
    ASSUME IInv, [Next]_vars,
           ~\E a \in Accounts, d \in Digests : lockRequest(a, d),
           ~\E id \in Ids : slash(id),
           ~settleFill, ~RevertFrame
    PROVE  market'.requestLocks = market.requestLocks
  <1>1. market \in MarketType
    BY DEF IInv, GoodStorage
  <1>2. ASSUME NEW x, depositTo(x[1], x[2]) \/ withdraw(x[1], x[2])
        PROVE  market'.requestLocks = market.requestLocks
    BY <1>1, <1>2, Zenon DEF depositTo, withdraw, withdrawn, Commit, MarketType
  <1>3. ASSUME NEW x, depositCollateralTo(x[1], x[2]) \/ withdrawCollateral(x[1], x[2])
        PROVE  market'.requestLocks = market.requestLocks
    BY <1>1, <1>3, Zenon DEF depositCollateralTo, withdrawCollateral, Commit, MarketType
  <1>4. ASSUME NEW d \in Digests, priceRequest(d)
        PROVE  market'.requestLocks = market.requestLocks
    BY <1>1, <1>4 DEF priceRequest, Commit, MarketType
  <1>5. ASSUME NEW c \in Calls, commitFulfillment(c)
        PROVE  market'.requestLocks = market.requestLocks
    BY <1>1, <1>5 DEF commitFulfillment, Commit, MarketType
  <1>6. ASSUME NEW c \in Calls, NEW w \in BOOLEAN, fulfill(c, w)
        PROVE  market'.requestLocks = market.requestLocks
    BY <1>1, <1>6 DEF fulfill, consumeCommitment, MarketType
  <1>7. CASE bindBatch \/ fulfillReturns
    BY <1>7 DEF bindBatch, fulfillReturns
  <1>8. CASE withdrawProver
    BY <1>1, <1>8 DEF withdrawProver, withdrawn, MarketType
  <1>9. CASE EndTransaction \/ \E s \in BlockTimes : NextBlock(s)
    BY <1>1, <1>9 DEF EndTransaction, NextBlock, dropContexts, MarketType
  <1>10. CASE UNCHANGED vars
    BY <1>10 DEF vars
  <1> QED BY <1>2, <1>3, <1>4, <1>5, <1>6, <1>7, <1>8, <1>9, <1>10 DEF Next

\* What settling one fill does to the lock records.
LEMMA FillLocks ==
    ASSUME timestamp \in Nat, NEW m \in GoodStorage(timestamp), NEW d \in Digests,
           NEW prover \in Accounts, NEW x \in Ids,
           m.requestLocks[x].requestDigest # NoDigest,
           timestamp <= m.requestLocks[x].lockDeadline
    PROVE  LET n == fulfillAndPay(m, d, prover)
               lock == m.requestLocks[x]
           IN  \/ n.requestLocks[x] = lock
               \/ /\ PaysLock(m, n, x)
                  /\ prover = lock.prover
                  /\ d = lock.requestDigest
  <1> DEFINE id == request[d].id
             k == clientAndIndex(id)
             lock == m.requestLocks[id]
             done == setRequestFulfilled(m, id)
             price == m.context[d].price
             l == setProverPaidBeforeLockDeadline(lock)
  <1>1. id \in Ids /\ m \in MarketType /\ lock \in RequestLock /\ k \in Keys
    BY RequestType, LockRecord DEF GoodStorage
  <1>2. done \in MarketType /\ done.requestLocks = m.requestLocks
    BY <1>1, FulfilledStorage DEF GoodStorage
  <1>3. CASE ~m.locked[k]
    <2>1. fulfillAndPayNeverLocked(m, d, price, prover).requestLocks = m.requestLocks
      <3> HIDE DEF done, price
      <3> QED BY <1>1, <1>2 DEF fulfillAndPayNeverLocked, MarketType, done
    <2> QED BY <1>3, <2>1 DEF fulfillAndPay
  <1>4. CASE m.locked[k] /\ lock.lockDeadline >= timestamp
    <2> DEFINE paid == fulfillAndPayLocked(m, d, prover)
    <2>1. \/ paid.requestLocks = m.requestLocks
          \/ /\ paid.requestLocks = [m.requestLocks EXCEPT ![id] = l]
             /\ paid.balance = [m.balance EXCEPT ![prover] = @ + lock.price]
             /\ paid.collateralBalance = [m.collateralBalance EXCEPT ![prover] = @ + lock.collateral]
             /\ eligible(lock, d, prover)
      <3>1. done.balance = m.balance /\ done.collateralBalance = m.collateralBalance
        BY <1>1 DEF setRequestFulfilled, MarketType
      <3> HIDE DEF done, l
      <3> QED BY <1>1, <1>2, <3>1 DEF fulfillAndPayLocked, MarketType, done, l
    <2>2. LET n == fulfillAndPay(m, d, prover)
          IN  /\ n.requestLocks = paid.requestLocks /\ n.balance = paid.balance
              /\ n.collateralBalance = paid.collateralBalance
      <3>1. paid \in MarketType
        BY <1>4, LockedStorage DEF GoodStorage
      <3> HIDE DEF paid
      <3>2. fulfillAndPay(m, d, prover) = [paid EXCEPT !.delivered = @ \cup {id}]
        BY <1>4 DEF fulfillAndPay, paid
      <3> QED BY <3>1, <3>2 DEF MarketType
    <2> HIDE DEF paid, l
    <2>3. CASE paid.requestLocks = m.requestLocks
      BY <2>2, <2>3
    <2>4. CASE /\ paid.requestLocks = [m.requestLocks EXCEPT ![id] = l]
               /\ paid.balance = [m.balance EXCEPT ![prover] = @ + lock.price]
               /\ paid.collateralBalance = [m.collateralBalance EXCEPT ![prover] = @ + lock.collateral]
               /\ eligible(lock, d, prover)
      <3>1. CASE x = id
        <4>1. prover = lock.prover /\ d = lock.requestDigest /\ prover \in Holders
          BY <2>4 DEF eligible, Holders
        <4>2. /\ paid.requestLocks[x] = l
              /\ paid.balance[prover] = m.balance[prover] + lock.price
              /\ paid.collateralBalance[prover] = m.collateralBalance[prover] + lock.collateral
          BY <1>1, <2>4, <3>1, <4>1 DEF MarketType
        <4> QED BY <2>2, <3>1, <4>1, <4>2 DEF PaysLock, l
      <3>2. CASE x # id
        <4>1. paid.requestLocks[x] = m.requestLocks[x]
          BY <1>1, <2>4, <3>2 DEF MarketType
        <4> QED BY <2>2, <4>1
      <3> QED BY <3>1, <3>2
    <2> QED BY <2>1, <2>3, <2>4
  <1>5. CASE m.locked[k] /\ ~(lock.lockDeadline >= timestamp)
    <2> DEFINE paid == fulfillAndPayWasLocked(m, d, price, prover)
    <2>1. x # id
      BY <1>1, <1>5 DEF RequestLock
    <2>2. price \in Nat
      BY <1>1 DEF MarketType, FulfillmentContext
    <2>3. \E z : paid.requestLocks = [m.requestLocks EXCEPT ![id] = z]
      <3>1. CASE isProverPaid(lock)
        <4>1. m.requestLocks = [m.requestLocks EXCEPT ![id] = m.requestLocks[id]]
          BY <1>1 DEF MarketType
        <4> QED BY <3>1, <4>1, Zenon DEF fulfillAndPayWasLocked
      <3>2. CASE ~isProverPaid(lock)
        <4> HIDE DEF done, price
        <4>1. paid.requestLocks = [m.requestLocks EXCEPT ![id] = setProverPaidAfterLockDeadline(lock, prover)]
          BY <1>1, <1>2, <3>2 DEF fulfillAndPayWasLocked, MarketType, done
        <4> QED BY Zenon, <4>1
      <3> QED BY Zenon, <3>1, <3>2
    <2>4. paid.requestLocks[x] = m.requestLocks[x]
      BY <1>1, <2>1, <2>3 DEF MarketType
    <2>5. paid \in MarketType
      BY <1>5, <2>2, WasLockedStorage DEF GoodStorage
    <2> HIDE DEF paid
    <2>6. fulfillAndPay(m, d, prover) = [paid EXCEPT !.delivered = @ \cup {id}]
      BY <1>5, SMTT(30) DEF fulfillAndPay, paid
    <2> QED BY <2>4, <2>5, <2>6 DEF MarketType
  <1> QED BY <1>3, <1>4, <1>5

\* While a lock is live its terms stand: whatever provers, clients and callbacks
\* do, a step leaves it alone, pays its own prover for the locked request, or
\* rolls back a call (_lockRequest, _fulfillAndPayLocked, slash).
THEOREM LiveLocksAreHonoured == Spec => LiveLockHonoured
  <1> DEFINE Honours(id) ==
        LiveLock(market, id) =>
            \/ market'.requestLocks[id] = market.requestLocks[id]
            \/ /\ PaysLock(market, market', id)
               /\ CurrentProver = market.requestLocks[id].prover
               /\ CurrentDigest = market.requestLocks[id].requestDigest
            \/ RevertFrame
  <1>1. IInv /\ [Next]_vars => [\A id \in Ids : Honours(id)]_vars
    <2> SUFFICES ASSUME IInv, [Next]_vars, NEW x \in Ids, LiveLock(market, x)
                 PROVE  Honours(x)
      OBVIOUS
    <2>1. /\ market \in GoodStorage(timestamp) /\ market \in MarketType /\ timestamp \in Nat
          /\ frames \in Seq(GoodFrame(timestamp))
          /\ GoodId(market, x, timestamp)
          /\ market.requestLocks[x].requestDigest # NoDigest
          /\ timestamp <= market.requestLocks[x].lockDeadline
      BY DEF IInv, GoodStorage, LiveLock
    <2>2. ASSUME NEW a \in Accounts, NEW d \in Digests, lockRequest(a, d)
          PROVE  market'.requestLocks[x] = market.requestLocks[x]
      <3> DEFINE id == request[d].id
                 l == newLock(d, a, priceAt(request[d].offer, timestamp))
      <3>1. x # id
        <4>1. ~market.locked[clientAndIndex(id)]
          BY <2>2 DEF lockRequest, lockable
        <4>2. EmptyLock.requestDigest = NoDigest
          BY DEF EmptyLock
        <4> QED BY <2>1, <4>1, <4>2 DEF GoodId, UnlockedIsEmpty
      <3>2. market'.requestLocks = [market.requestLocks EXCEPT ![id] = l]
        <4> HIDE DEF l
        <4> QED BY <2>1, <2>2, Zenon DEF lockRequest, Commit, MarketType, l
      <3> HIDE DEF l
      <3> QED BY <2>1, <3>1, <3>2, RequestType DEF MarketType
    <2>3. ASSUME NEW id \in Ids, slash(id)
          PROVE  market'.requestLocks[x] = market.requestLocks[x]
      <3> DEFINE lock == market.requestLocks[id]
                 l == setSlashed(lock)
      <3>1. x # id
        BY <2>1, <2>3, LockRecord DEF slash, slashable, lockExpiry
      <3>2. market'.requestLocks = [market.requestLocks EXCEPT ![id] = l]
        <4> DEFINE burnValue == (lock.collateral * SLASHING_BURN_BPS) \div 10000
                   t == market.tokens - burnValue
                   r == market.released[id] + lock.collateral
                   c == lock.collateral - burnValue
                   slashed == [market EXCEPT !.requestLocks[id] = l, !.tokens = t, !.released[id] = r]
        <4>1. \/ market' = [slashed EXCEPT !.collateralBalance[lock.prover] = @ + c]
              \/ market' = [slashed EXCEPT !.collateralBalance[Market] = @ + c,
                                           !.balance[id.client] = @ + lock.price,
                                           !.spent[id] = @ - lock.price]
          BY <2>3 DEF slash, Commit
        <4> HIDE DEF l, t, r, c
        <4> QED BY <2>1, <4>1, Zenon DEF MarketType
      <3> HIDE DEF l
      <3> QED BY <2>1, <3>1, <3>2 DEF MarketType
    <2>4. CASE settleFill
      <3>1. /\ frames # <<>> /\ Top.phase = "settle" /\ Top.j <= Len(Top.call) /\ Top.i > 0
            /\ market' \in {market, fulfillAndPay(market, CurrentDigest, CurrentProver)}
        BY <2>4, Zenon DEF settleFill, Running, CurrentDigest, CurrentProver
      <3>2. Top \in GoodFrame(timestamp)
        BY <2>1, <3>1, TopIn
      <3>3. CurrentDigest \in Digests /\ CurrentProver \in Accounts
        BY <2>1, <3>1, <3>2, FrameBatch, Zenon DEF CurrentDigest, CurrentProver
      <3> QED BY <2>1, <3>1, <3>3, FillLocks
    <2>5. CASE RevertFrame
      BY <2>5
    <2> QED BY <2>2, <2>3, <2>4, <2>5, LocksKept
  <1> QED BY <1>1, IInvHolds, PTL DEF Spec, LiveLockHonoured
=============================================================================
