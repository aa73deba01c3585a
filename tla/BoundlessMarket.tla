-------------------------- MODULE BoundlessMarket --------------------------
(***************************************************************************)
(* The market contract, contracts/src/BoundlessMarket.sol with its types   *)
(* RequestLock, RequestId, Account and FulfillmentContext.                 *)
(*                                                                         *)
(* market is the contract's storage (and transient storage): everything an *)
(* EVM revert rolls back.  A call of fulfill is a frame of the call stack  *)
(* `frames' and settles one fill per step, because the callback of a fill  *)
(* and the ETH transfer of a withdrawal run foreign code that may call the *)
(* market again before the next fill.  A frame remembers the storage at    *)
(* its start, which RevertFrame restores.  Every other entry point is one  *)
(* step; an entry point that reverts is no step.                           *)
(*                                                                         *)
(* A request is identified by its EIP-712 digest (hashing is collision     *)
(* free); Digests are the requests some client has signed.                 *)
(***************************************************************************)
EXTENDS Offer, Sequences, FiniteSets

CONSTANTS
    Accounts,     \* addresses that hold balances and call the market
    Market,       \* address(this), the treasury account
    Digests,      \* digests of the signed requests
    request,      \* digest -> [id, offer, callback]
    Ids,          \* the RequestIds considered
    Calls,        \* the FulfillmentBatch[] arguments considered
    EthMoves,     \* the <<account, value>> deposits and withdrawals of ETH considered
    TokenMoves,   \* the same for collateral tokens
    EthSupply,    \* bound: the ETH in existence
    TokenSupply,  \* bound: the collateral tokens in existence
    BlockTimes,   \* seconds from a block to the next
    MaxTime,      \* bound on block.timestamp
    MaxDepth,     \* bound on nested fulfill calls
    MaxCommits,   \* bound on commitments outstanding at a time
    Uint96Max,    \* type(uint96).max, the width of a balance
    NoAddress,    \* address(0)
    NoDigest      \* bytes32(0)

Holders == Accounts \cup {Market}

IdType == [client: Accounts, idx: Nat, smartContractSig: BOOLEAN]

\* A fill carries the journal of its proof or only its claim digest.
FillType == [journal: BOOLEAN]

\* fills[i] answers requests[i].
BatchType == [prover: Accounts, requests: Seq(Digests), fills: Seq(FillType)]

ASSUME MarketAssumption ==
    /\ Market \notin Accounts /\ NoAddress \notin Holders /\ NoDigest \notin Digests
    /\ request \in [Digests -> [id: Ids, offer: OfferType, callback: BOOLEAN]]
    /\ Ids \subseteq IdType
    /\ Calls \subseteq Seq(BatchType)
    /\ EthMoves \cup TokenMoves \subseteq Accounts \X Nat
    /\ BlockTimes \subseteq Nat \ {0}
    /\ {EthSupply, TokenSupply, MaxTime, MaxDepth, MaxCommits, Uint96Max} \subseteq Nat

VARIABLES
    market,       \* storage and transient storage, a MarketType record
    frames,       \* the stack of running fulfill calls, innermost last
    timestamp,    \* block.timestamp
    blockNumber   \* block.number

vars == <<market, frames, timestamp, blockNumber>>

-----------------------------------------------------------------------------
(* RequestId, RequestLock, Account and FulfillmentContext *)

SLASHING_BURN_BPS == 5000
COMMIT_REVEAL_MIN_BLOCKS == 1

\* The flag bit that selects ERC-1271 signatures is not part of the key: two
\* ids may share their request flags.
clientAndIndex(id) == <<id.client, id.idx>>

Keys == {clientAndIndex(id) : id \in Ids}

ProverPaidDuringLock == "PROVER_PAID_DURING_LOCK_FLAG"
ProverPaidAfterLock == "PROVER_PAID_AFTER_LOCK_FLAG"
Slashed == "SLASHED_FLAG"
LockFlags == {ProverPaidDuringLock, ProverPaidAfterLock, Slashed}

RequestLock ==
    [prover: Accounts \cup {NoAddress}, lockDeadline: Nat, deadlineDelta: Nat,
     requestLockFlags: SUBSET LockFlags, price: Nat, collateral: Nat,
     requestDigest: Digests \cup {NoDigest}]

\* A mapping entry that was never written.
EmptyLock ==
    [prover |-> NoAddress, lockDeadline |-> 0, deadlineDelta |-> 0, requestLockFlags |-> {},
     price |-> 0, collateral |-> 0, requestDigest |-> NoDigest]

lockExpiry(lock) == lock.lockDeadline + lock.deadlineDelta

isProverPaidBeforeLockDeadline(lock) == ProverPaidDuringLock \in lock.requestLockFlags
isProverPaidAfterLockDeadline(lock) == ProverPaidAfterLock \in lock.requestLockFlags
isSlashed(lock) == Slashed \in lock.requestLockFlags

\* Mutant: forgets the provers paid after the lock deadline.
isProverPaid_DuringOnly(lock) == isProverPaidBeforeLockDeadline(lock)

isProverPaid(lock) ==
    isProverPaidBeforeLockDeadline(lock) \/ isProverPaidAfterLockDeadline(lock)

clearSlot1(lock) == [lock EXCEPT !.price = 0, !.collateral = 0]

\* Mutants: slot 1 is kept; the digest in slot 2 is cleared too.
setProverPaidBeforeLockDeadline_KeepsSlot1(lock) ==
    [lock EXCEPT !.requestLockFlags = {ProverPaidDuringLock}]
setProverPaidBeforeLockDeadline_ClearsSlot2(lock) ==
    clearSlot1([lock EXCEPT !.requestLockFlags = {ProverPaidDuringLock},
                            !.requestDigest = NoDigest])

setProverPaidBeforeLockDeadline(lock) ==
    clearSlot1([lock EXCEPT !.requestLockFlags = {ProverPaidDuringLock}])

setProverPaidAfterLockDeadline(lock, prover) ==
    [lock EXCEPT !.prover = prover, !.requestLockFlags = @ \cup {ProverPaidAfterLock}]

\* Mutant: slot 1 is kept.
setSlashed_KeepsSlot1(lock) == [lock EXCEPT !.requestLockFlags = @ \cup {Slashed}]

setSlashed(lock) ==
    clearSlot1([lock EXCEPT !.requestLockFlags = @ \cup {Slashed}])

FulfillmentContext == [valid: BOOLEAN, expired: BOOLEAN, price: Nat]

NoContext == [valid |-> FALSE, expired |-> FALSE, price |-> 0]

\* Subtraction in an unchecked block wraps.
uncheckedSub(a, b) == IF a >= b THEN a - b ELSE a - b + Uint96Max + 1

-----------------------------------------------------------------------------
(* Storage *)

\* spent, earned, staked, released and delivered are history: what the client
\* paid for an id net of refunds, what provers were credited for it, the
\* collateral taken for it and given back or burnt, and the ids for which
\* ProofDelivered was emitted.
MarketType ==
    [balance: [Holders -> Nat],
     collateralBalance: [Holders -> Nat],
     locked: [Keys -> BOOLEAN],
     fulfilled: [Keys -> BOOLEAN],
     requestLocks: [Ids -> RequestLock],
     fulfillmentCommitBlock: [Calls -> Nat],
     context: [Digests -> FulfillmentContext],
     eth: Int,
     tokens: Int,
     spent: [Ids -> Int],
     earned: [Ids -> Nat],
     staked: [Ids -> Nat],
     released: [Ids -> Nat],
     delivered: SUBSET Ids]

Init ==
    /\ market = [balance |-> [a \in Holders |-> 0],
                 collateralBalance |-> [a \in Holders |-> 0],
                 locked |-> [k \in Keys |-> FALSE],
                 fulfilled |-> [k \in Keys |-> FALSE],
                 requestLocks |-> [id \in Ids |-> EmptyLock],
                 fulfillmentCommitBlock |-> [c \in Calls |-> 0],
                 context |-> [d \in Digests |-> NoContext],
                 eth |-> 0,
                 tokens |-> 0,
                 spent |-> [id \in Ids |-> 0],
                 earned |-> [id \in Ids |-> 0],
                 staked |-> [id \in Ids |-> 0],
                 released |-> [id \in Ids |-> 0],
                 delivered |-> {}]
    /\ frames = <<>>
    /\ timestamp = 1
    /\ blockNumber = 1

Top == frames[Len(frames)]

Pop(stack) == SubSeq(stack, 1, Len(stack) - 1)

\* Foreign code is running: between transactions, or in the callback or the
\* ETH transfer the innermost fulfill has just made.
Callable == frames # <<>> => Top.calling

\* Checked addition: the call reverts when a credited balance leaves uint96.
Fits(m) ==
    \A a \in Holders : m.balance[a] <= Uint96Max /\ m.collateralBalance[a] <= Uint96Max

\* An entry point that runs to completion in one step.
Commit(m) ==
    /\ Callable
    /\ Fits(m)
    /\ market' = m
    /\ UNCHANGED <<frames, timestamp, blockNumber>>

-----------------------------------------------------------------------------
(* ETH and collateral accounts *)

\* deposit (to = msg.sender), depositTo, and submitRequest with a value: the
\* request itself is only logged.
depositTo(to, value) ==
    /\ market.eth + value <= EthSupply
    /\ Commit([market EXCEPT !.balance[to] = @ + value, !.eth = @ + value])

\* _withdraw with the ETH transfer it ends in.
withdrawn(m, account, value) ==
    [m EXCEPT !.balance[account] = uncheckedSub(@, value), !.eth = @ - value]

withdraw(account, value) ==
    /\ market.balance[account] >= value
    /\ Commit(withdrawn(market, account, value))

\* The four depositCollateral entry points; a permit that fails is ignored.
depositCollateralTo(to, value) ==
    /\ market.tokens + value <= TokenSupply
    /\ Commit([market EXCEPT !.collateralBalance[to] = @ + value, !.tokens = @ + value])

withdrawCollateral(account, value) ==
    /\ market.collateralBalance[account] >= value
    /\ Commit([market EXCEPT !.collateralBalance[account] = uncheckedSub(@, value),
                             !.tokens = @ - value])

-----------------------------------------------------------------------------
(* Locking and pricing *)

\* Mutant: looks for a lock under the id rather than for the flag.
lockable_ById(id) ==
    /\ market.requestLocks[id].requestDigest = NoDigest
    /\ ~market.fulfilled[clientAndIndex(id)]

lockable(id) ==
    /\ ~market.locked[clientAndIndex(id)]
    /\ ~market.fulfilled[clientAndIndex(id)]

\* Mutant: the deadlines are subtracted the wrong way round.
newLock_Swapped(d, prover, price) ==
    [prover |-> prover,
     lockDeadline |-> lockDeadline(request[d].offer),
     deadlineDelta |-> lockDeadline(request[d].offer) - deadline(request[d].offer),
     requestLockFlags |-> {},
     price |-> price,
     collateral |-> request[d].offer.lockCollateral,
     requestDigest |-> d]

newLock(d, prover, price) ==
    [prover |-> prover,
     lockDeadline |-> lockDeadline(request[d].offer),
     deadlineDelta |-> deadline(request[d].offer) - lockDeadline(request[d].offer),
     requestLockFlags |-> {},
     price |-> price,
     collateral |-> request[d].offer.lockCollateral,
     requestDigest |-> d]

\* lockRequest (prover = msg.sender) and lockRequestWithSignature (prover =
\* the recovered signer), with _lockRequest.
lockRequest(prover, d) ==
    LET id    == request[d].id
        offer == request[d].offer
        price == priceAt(offer, timestamp)
    IN  /\ validate(offer)
        /\ lockable(id)
        /\ timestamp <= lockDeadline(offer)
        /\ price <= Uint96Max
        /\ market.balance[id.client] >= price
        /\ market.collateralBalance[prover] >= offer.lockCollateral
        /\ Commit([market EXCEPT
                     !.balance[id.client] = uncheckedSub(@, price),
                     !.collateralBalance[prover] = uncheckedSub(@, offer.lockCollateral),
                     !.requestLocks[id] = newLock(d, prover, price),
                     !.locked[clientAndIndex(id)] = TRUE,
                     !.spent[id] = @ + price,
                     !.staked[id] = @ + offer.lockCollateral])

\* priceRequest, and each request that _priceAll prices: the context lives in
\* transient storage until the transaction ends.
priceRequest(d) ==
    LET offer == request[d].offer
    IN  /\ validate(offer)
        /\ priceAt(offer, timestamp) <= Uint96Max
        /\ Commit([market EXCEPT
                     !.context[d] = [valid |-> TRUE,
                                     expired |-> deadline(offer) < timestamp,
                                     price |-> priceAt(offer, timestamp)]])

-----------------------------------------------------------------------------
(* Slashing *)

\* Mutant: slashes as soon as the lock deadline has passed.
slashable_AtLockDeadline(id) ==
    LET lock == market.requestLocks[id]
    IN  /\ market.locked[clientAndIndex(id)]
        /\ ~isSlashed(lock)
        /\ ~isProverPaidBeforeLockDeadline(lock)
        /\ timestamp > lock.lockDeadline

slashable(id) ==
    LET lock == market.requestLocks[id]
    IN  /\ market.locked[clientAndIndex(id)]
        /\ ~isSlashed(lock)
        /\ ~isProverPaidBeforeLockDeadline(lock)
        /\ timestamp > lockExpiry(lock)

slash(id) ==
    LET lock          == market.requestLocks[id]
        burnValue     == (lock.collateral * SLASHING_BURN_BPS) \div 10000
        transferValue == lock.collateral - burnValue
        slashed       == [market EXCEPT !.requestLocks[id] = setSlashed(lock),
                                        !.tokens = @ - burnValue,
                                        !.released[id] = @ + lock.collateral]
    IN  /\ slashable(id)
        /\ IF isProverPaidAfterLockDeadline(lock)
             THEN Commit([slashed EXCEPT !.collateralBalance[lock.prover] = @ + transferValue])
             ELSE Commit([slashed EXCEPT !.collateralBalance[Market] = @ + transferValue,
                                         !.balance[id.client] = @ + lock.price,
                                         !.spent[id] = @ - lock.price])

-----------------------------------------------------------------------------
(* Fulfilment *)

\* First writer wins the block stamp.
commitFulfillment(call) ==
    /\ market.fulfillmentCommitBlock[call] = 0
    /\ Cardinality({c \in Calls : market.fulfillmentCommitBlock[c] # 0}) < MaxCommits
    /\ Commit([market EXCEPT !.fulfillmentCommitBlock[call] = blockNumber])

\* Mutant: takes the fulfilled requests for settled.
hasOpenPathFill_SkipsFulfilled(call) ==
    \E j \in DOMAIN call : \E i \in DOMAIN call[j].requests :
        LET id == request[call[j].requests[i]].id
        IN  /\ ~market.fulfilled[clientAndIndex(id)]
            /\ \/ ~market.locked[clientAndIndex(id)]
               \/ market.requestLocks[id].lockDeadline < timestamp

\* _hasOpenPathFill: some request of the call, in an empty batch even, has no
\* live lock binding its prover.
hasOpenPathFill(call) ==
    \E j \in DOMAIN call : \E i \in DOMAIN call[j].requests :
        LET id == request[call[j].requests[i]].id
        IN  \/ ~market.locked[clientAndIndex(id)]
            \/ market.requestLocks[id].lockDeadline < timestamp

\* _consumeCommitment: absent or too recent reverts.
commitmentRipe(call) ==
    /\ market.fulfillmentCommitBlock[call] # 0
    /\ market.fulfillmentCommitBlock[call] + COMMIT_REVEAL_MIN_BLOCKS <= blockNumber

\* Mutant: the commitment is left in place.
consumeCommitment_Keeps(m, call) == m

consumeCommitment(m, call) == [m EXCEPT !.fulfillmentCommitBlock[call] = 0]

\* fulfill, and the first half of fulfillAndWithdraw (andWithdraw).  j and i
\* are the code's loop counters; i = 0 before batch j is bound.  committed is
\* the stamp of the commitment this call consumed, 0 if it needed none.
fulfill(call, andWithdraw) ==
    LET open == hasOpenPathFill(call)
    IN  /\ Callable
        /\ Len(frames) < MaxDepth
        /\ open => commitmentRipe(call)
        /\ market' = IF open THEN consumeCommitment(market, call) ELSE market
        /\ frames' = Append(frames,
               [call |-> call, j |-> 1, i |-> 0, calling |-> FALSE, andWithdraw |-> andWithdraw,
                phase |-> "settle", saved |-> market,
                committed |-> IF open THEN market.fulfillmentCommitBlock[call] ELSE 0])
        /\ UNCHANGED <<timestamp, blockNumber>>

Running(phase) ==
    frames # <<>> /\ Top.phase = phase /\ Top.j <= Len(Top.call)

SetTop(f) == [frames EXCEPT ![Len(frames)] = f]

\* _verifyBinding: the digest is the one locked under its id, or was priced in
\* this transaction.
verifyBinding(d) ==
    market.requestLocks[request[d].id].requestDigest = d \/ market.context[d].valid

\* The start of batch j: a batch without fills is skipped, any other has a fill
\* per request, is bound request by request (_bindAndCollectDigests) and
\* verified by the router.
bindBatch ==
    LET batch == Top.call[Top.j]
    IN  /\ Running("settle") /\ Top.i = 0
        /\ batch.fills # <<>> =>
              /\ Len(batch.requests) = Len(batch.fills)
              /\ \A i \in DOMAIN batch.requests : verifyBinding(batch.requests[i])
        /\ frames' = SetTop(IF batch.fills = <<>>
                              THEN [Top EXCEPT !.j = @ + 1, !.calling = FALSE]
                              ELSE [Top EXCEPT !.i = 1, !.calling = FALSE])
        /\ UNCHANGED <<market, timestamp, blockNumber>>

\* Mutant: the flag is not written.
setRequestFulfilled_Forgotten(m, id) == m

setRequestFulfilled(m, id) == [m EXCEPT !.fulfilled[clientAndIndex(id)] = TRUE]

\* Mutant: any prover may be paid from a live lock.
eligible_AnyProver(lock, d, prover) == lock.requestDigest = d

eligible(lock, d, prover) == lock.prover = prover /\ lock.requestDigest = d

\* _fulfillAndPayLocked
fulfillAndPayLocked(m, d, prover) ==
    LET id   == request[d].id
        lock == m.requestLocks[id]
        done == setRequestFulfilled(m, id)
    IN  IF isProverPaid(lock)
          THEN m
        ELSE IF ~eligible(lock, d, prover)
          THEN done
        ELSE [done EXCEPT !.requestLocks[id] = setProverPaidBeforeLockDeadline(lock),
                          !.balance[prover] = @ + lock.price,
                          !.collateralBalance[prover] = @ + lock.collateral,
                          !.earned[id] = @ + lock.price,
                          !.released[id] = @ + lock.collateral]

\* Mutant: forgets that the lock price is already paid.
amountDue_Full(lock, price) == price

amountDue(lock, price) == price - lock.price

\* _fulfillAndPayWasLocked: the client already paid lock.price into escrow, so
\* it is charged the difference, up to what it has, or refunded it (owes < 0).
fulfillAndPayWasLocked(m, d, price, prover) ==
    LET id   == request[d].id
        lock == m.requestLocks[id]
        due  == amountDue(lock, price)
        owes == IF due > m.balance[id.client] THEN m.balance[id.client] ELSE due
        charged == [setRequestFulfilled(m, id) EXCEPT
                      !.balance[id.client] = uncheckedSub(@, owes),
                      !.spent[id] = @ + owes]
    IN  IF isProverPaid(lock)
          THEN m
          ELSE [charged EXCEPT !.requestLocks[id] = setProverPaidAfterLockDeadline(lock, prover),
                               !.balance[prover] = @ + (lock.price + owes),
                               !.earned[id] = @ + (lock.price + owes)]

\* _fulfillAndPayNeverLocked: a client that cannot pay is never charged later.
fulfillAndPayNeverLocked(m, d, price, prover) ==
    LET id == request[d].id
    IN  IF m.fulfilled[clientAndIndex(id)]
          THEN m
        ELSE IF m.balance[id.client] < price
          THEN setRequestFulfilled(m, id)
        ELSE LET charged == [setRequestFulfilled(m, id) EXCEPT
                               !.balance[id.client] = uncheckedSub(@, price)]
             IN  [charged EXCEPT !.balance[prover] = @ + price,
                                 !.spent[id] = @ + price,
                                 !.earned[id] = @ + price]

\* Mutant: the lock is read when the call starts, not when the fill is settled.
fulfillAndPay_EarlyRead(m, d, prover) ==
    LET id    == request[d].id
        price == m.context[d].price
        early == [m EXCEPT !.requestLocks[id] = Top.saved.requestLocks[id]]
        paid  == IF ~m.locked[clientAndIndex(id)]
                   THEN fulfillAndPayNeverLocked(m, d, price, prover)
                 ELSE IF early.requestLocks[id].lockDeadline >= timestamp
                   THEN fulfillAndPayLocked(early, d, prover)
                 ELSE fulfillAndPayWasLocked(early, d, price, prover)
    IN  [paid EXCEPT !.delivered = @ \cup {id}]

\* _fulfillAndPay past its checks.
fulfillAndPay(m, d, prover) ==
    LET id    == request[d].id
        price == m.context[d].price
        paid  == IF ~m.locked[clientAndIndex(id)]
                   THEN fulfillAndPayNeverLocked(m, d, price, prover)
                 ELSE IF m.requestLocks[id].lockDeadline >= timestamp
                   THEN fulfillAndPayLocked(m, d, prover)
                 ELSE fulfillAndPayWasLocked(m, d, price, prover)
    IN  [paid EXCEPT !.delivered = @ \cup {id}]

\* The expiry _fulfillAndPay reads: from the context, else from the lock.
requestExpired(m, d) ==
    IF m.context[d].valid
      THEN m.context[d].expired
      ELSE lockExpiry(m.requestLocks[request[d].id]) < timestamp

\* The check of _fulfillAndPay that the request is authentic.
requestAuthentic(m, d) ==
    \/ m.context[d].valid
    \/ /\ m.locked[clientAndIndex(request[d].id)]
       /\ m.requestLocks[request[d].id].requestDigest = d

AfterFill(f) ==
    IF f.i < Len(f.call[f.j].fills) THEN [f EXCEPT !.i = @ + 1] ELSE [f EXCEPT !.j = @ + 1, !.i = 0]

\* _executeCallback: the request's callback, if it has one, runs next.  A callback
\* that fails is caught: what it did is undone and the fill stands.
executeCallback(f, d) == [f EXCEPT !.calling = request[d].callback]

\* One iteration of _settleBatch.  An expired fill has no effect.  A callback
\* is called after the payment, and only if the fill carries the journal.
settleFill ==
    LET batch == Top.call[Top.j]
        d     == batch.requests[Top.i]
        m     == fulfillAndPay(market, d, batch.prover)
    IN  /\ Running("settle") /\ Top.i > 0
        /\ requestAuthentic(market, d)
        /\ IF requestExpired(market, d)
             THEN /\ frames' = SetTop([AfterFill(Top) EXCEPT !.calling = FALSE])
                  /\ UNCHANGED market
             ELSE /\ request[d].callback => batch.fills[Top.i].journal
                  /\ Fits(m)
                  /\ market' = m
                  /\ frames' = SetTop(executeCallback(AfterFill(Top), d))
        /\ UNCHANGED <<timestamp, blockNumber>>

\* Every batch is settled: fulfillAndWithdraw starts over at the first batch to
\* pay out the provers, fulfill returns.
fulfillReturns ==
    /\ frames # <<>> /\ Top.j > Len(Top.call)
    /\ frames' = IF Top.phase = "settle" /\ Top.andWithdraw
                   THEN SetTop([Top EXCEPT !.phase = "withdraw", !.j = 1, !.calling = FALSE])
                   ELSE Pop(frames)
    /\ UNCHANGED <<market, timestamp, blockNumber>>

\* One iteration of the withdrawal loop of fulfillAndWithdraw.
withdrawProver ==
    LET prover == Top.call[Top.j].prover
    IN  /\ Running("withdraw")
        /\ market' = withdrawn(market, prover, market.balance[prover])
        /\ frames' = SetTop([Top EXCEPT !.j = @ + 1, !.calling = market.balance[prover] > 0])
        /\ UNCHANGED <<timestamp, blockNumber>>

\* The innermost fulfill reverts: an unbound or unverified batch, a callback
\* without a journal, an overflow, a failed transfer, or too little gas.
RevertFrame ==
    /\ frames # <<>>
    /\ market' = Top.saved
    /\ frames' = Pop(frames)
    /\ UNCHANGED <<timestamp, blockNumber>>

-----------------------------------------------------------------------------
(* The chain *)

dropContexts(m) == [m EXCEPT !.context = [d \in Digests |-> NoContext]]

\* Transient storage does not outlive the transaction.
EndTransaction ==
    /\ frames = <<>>
    /\ \E d \in Digests : market.context[d].valid
    /\ market' = dropContexts(market)
    /\ UNCHANGED <<frames, timestamp, blockNumber>>

NextBlock(seconds) ==
    /\ frames = <<>>
    /\ timestamp + seconds <= MaxTime
    /\ market' = dropContexts(market)
    /\ timestamp' = timestamp + seconds
    /\ blockNumber' = blockNumber + 1
    /\ UNCHANGED frames

Next ==
    \/ \E x \in EthMoves : depositTo(x[1], x[2])
    \/ \E x \in EthMoves : withdraw(x[1], x[2])
    \/ \E x \in TokenMoves : depositCollateralTo(x[1], x[2])
    \/ \E x \in TokenMoves : withdrawCollateral(x[1], x[2])
    \/ \E a \in Accounts, d \in Digests : lockRequest(a, d)
    \/ \E d \in Digests : priceRequest(d)
    \/ \E id \in Ids : slash(id)
    \/ \E c \in Calls : commitFulfillment(c)
    \/ \E c \in Calls, w \in BOOLEAN : fulfill(c, w)
    \/ bindBatch
    \/ settleFill
    \/ fulfillReturns
    \/ withdrawProver
    \/ RevertFrame
    \/ EndTransaction
    \/ \E s \in BlockTimes : NextBlock(s)

Spec == Init /\ [][Next]_vars
-----------------------------------------------------------------------------
(* Properties *)

FrameType ==
    [call: Calls, j: Nat \ {0}, i: Nat, calling: BOOLEAN, andWithdraw: BOOLEAN,
     phase: {"settle", "withdraw"}, saved: MarketType, committed: Nat]

\* The storage, the saved storage of every running fulfill and its loop
\* counters have their types.
TypeOK ==
    /\ market \in MarketType
    /\ frames \in Seq(FrameType)
    /\ timestamp \in Nat
    /\ blockNumber \in Nat \ {0}

\* Lock live in storage m: taken, and its lock deadline has not passed.
LiveLock(m, id) ==
    m.requestLocks[id].requestDigest # NoDigest /\ timestamp <= m.requestLocks[id].lockDeadline

\* The fill the innermost fulfill settles next, and the prover of its batch.
CurrentDigest == Top.call[Top.j].requests[Top.i]
CurrentProver == Top.call[Top.j].prover

Escrowed(lock) == IF isProverPaidAfterLockDeadline(lock) THEN 0 ELSE lock.price

\* What an id holds in escrow is what its client paid for it and no prover has
\* earned, and the collateral on its lock is what was staked for it and not yet
\* returned or burnt: lock, the three fulfilment paths and slash move each
\* request's money exactly once (_lockRequest, _fulfillAndPay*, slash).
EscrowMatchesLock ==
    \A id \in Ids :
        /\ market.spent[id] - market.earned[id] = Escrowed(market.requestLocks[id])
        /\ market.staked[id] - market.released[id] = market.requestLocks[id].collateral

\* The flag `locked' of a (client, index) says that exactly one of the ids that
\* share it holds a lock record, whatever fulfilments and slashes followed.
OneLockPerIndex ==
    \A k \in Keys :
        LET owners == {id \in Ids : /\ clientAndIndex(id) = k
                                    /\ market.requestLocks[id].requestDigest # NoDigest}
        IN  Cardinality(owners) = IF market.locked[k] THEN 1 ELSE 0

\* A client never pays more for an id than the maximum price of some request it
\* signed under that id, even when one request is locked and another, priced
\* higher or lower, is fulfilled (_fulfillAndPayWasLocked).
NeverOvercharged ==
    \A id \in Ids :
        /\ market.spent[id] >= 0
        /\ market.spent[id] > 0 =>
              \E d \in Digests : /\ request[d].id = id
                                 /\ market.spent[id] <= request[d].offer.maxPrice

\* A delivered proof, and a paid prover, imply the fulfilled flag (the NOTE in
\* _fulfillAndPay, IBoundlessMarket.sol:46-47).
DeliveredIsFulfilled ==
    \A id \in Ids :
        (id \in market.delivered \/ isProverPaid(market.requestLocks[id])) =>
            market.fulfilled[clientAndIndex(id)]

\* A slashed lock is past its full deadline and its prover was not paid during
\* the lock: the same collateral is never both returned and slashed.
SlashedOnlyAfterExpiry ==
    \A id \in Ids :
        LET lock == market.requestLocks[id]
        IN  isSlashed(lock) => /\ timestamp > lockExpiry(lock)
                               /\ ~isProverPaidBeforeLockDeadline(lock)

\* The bindings a batch was checked against when it started still hold for the
\* fills not yet settled, whatever the callbacks in between did: fulfill cannot
\* fail half way on an unauthenticated request (_verifyBinding, _fulfillAndPay).
BindingsSurviveCallbacks ==
    \A n \in DOMAIN frames :
        LET f == frames[n]
        IN  (f.phase = "settle" /\ f.i > 0) =>
                \A i \in f.i..Len(f.call[f.j].fills) :
                    requestAuthentic(market, f.call[f.j].requests[i])

\* Two running reveals of the same batches never share a commitment
\* (_consumeCommitment, "One-shot").
OneRevealPerCommitment ==
    \A n, k \in DOMAIN frames :
        (n # k /\ frames[n].call = frames[k].call) =>
            (frames[n].committed = 0 \/ frames[k].committed = 0)

\* A prover is credited for an id at most once.
PaidAtMostOnce ==
    [][\A id \in Ids :
           market'.earned[id] > market.earned[id] =>
               market.earned[id] = 0]_vars

\* A client's money moves to a prover only for the request being settled, while
\* that request is within its own lock deadline, and up to its maximum price:
\* proofs delivered later are free (Offer.sol:30-33).
PaymentsMatchOffer ==
    [][\A id \in Ids :
           market'.earned[id] > market.earned[id] =>
               LET offer == request[CurrentDigest].offer
               IN  /\ request[CurrentDigest].id = id
                   /\ timestamp <= lockDeadline(offer)
                   /\ market'.earned[id] <= offer.maxPrice]_vars

\* From storage m to n the lock of id is paid out to its own prover.
PaysLock(m, n, id) ==
    LET lock == m.requestLocks[id]
    IN  /\ n.requestLocks[id] = setProverPaidBeforeLockDeadline(lock)
        /\ n.balance[lock.prover] = m.balance[lock.prover] + lock.price
        /\ n.collateralBalance[lock.prover] = m.collateralBalance[lock.prover] + lock.collateral

\* While a lock is live its terms stand: a step leaves it alone, or pays its
\* price and collateral to its own prover for the very request that was locked
\* (_fulfillAndPayLocked), or rolls back the call that took it.
LiveLockHonoured ==
    [][\A id \in Ids :
           LiveLock(market, id) =>
               \/ market'.requestLocks[id] = market.requestLocks[id]
               \/ /\ PaysLock(market, market', id)
                  /\ CurrentProver = market.requestLocks[id].prover
                  /\ CurrentDigest = market.requestLocks[id].requestDigest
               \/ RevertFrame]_vars

\* Every fill settled without a live lock binding its prover, the first of its
\* id or a later one, belongs to a call that was committed to in an earlier block,
\* whatever the callbacks of earlier fills of the call have done since the check
\* (fulfill, IBoundlessMarket.sol:301-306).
OpenPathIsCommitted ==
    [][settleFill =>
           \/ LiveLock(market, request[CurrentDigest].id)
           \/ Top.committed \in 1..(blockNumber - COMMIT_REVEAL_MIN_BLOCKS)]_vars

\* The comment on the index of a request id: "Each index can correspond to a
\* single fulfilled request. If multiple requests have the same address and
\* index, only one can ever be fulfilled" (boundless-market contracts/mod.rs:211-212),
\* i.e. a client pays for at most one of the ids that share an index.
OnePaidIdPerIndex ==
    \A id, other \in Ids :
        (clientAndIndex(id) = clientAndIndex(other) /\ id # other) =>
            (market.earned[id] = 0 \/ market.earned[other] = 0)

\* The comment on requestIsLocked: "When a request is locked, only the prover it
\* is locked to can be paid to fulfill the job" (IBoundlessMarket.sol:196).
LockedPaysOnlyLocker ==
    [][\A id \in Ids :
           (market.locked[clientAndIndex(id)] /\ market'.earned[id] > market.earned[id]) =>
               CurrentProver = market.requestLocks[id].prover]_vars
=============================================================================
