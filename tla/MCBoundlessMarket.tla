------------------------- MODULE MCBoundlessMarket -------------------------
(***************************************************************************)
(* BoundlessMarket on small instances.  Prices, collateral and times are a *)
(* few units; the offers are chosen so that the price ramps, so that a     *)
(* request locked under an id and another request with the same id differ  *)
(* in price and deadline, and so that the collateral does not split evenly.*)
(***************************************************************************)
EXTENDS BoundlessMarket, Functions, FiniteSetsExt

CONSTANTS client, p1, p2

TheId == [client |-> client, idx |-> 0, smartContractSig |-> FALSE]
AliasId == [TheId EXCEPT !.smartContractSig = TRUE]
OtherId == [TheId EXCEPT !.idx = 1]

\* Locked at 1 or 2, lock deadline 2, deadline 3.
ShortOffer ==
    [minPrice |-> 1, maxPrice |-> 2, rampUpStart |-> 1, rampUpPeriod |-> 1, lockTimeout |-> 1,
     timeout |-> 2, lockCollateral |-> 3]

\* Dearer and longer: price 3 up to 4, deadline 5.
LongOffer ==
    [minPrice |-> 3, maxPrice |-> 3, rampUpStart |-> 1, rampUpPeriod |-> 0, lockTimeout |-> 3,
     timeout |-> 4, lockCollateral |-> 1]

Req(theId, offer, callback) == [id |-> theId, offer |-> offer, callback |-> callback]

Batch(prover, digests) ==
    [prover |-> prover, requests |-> digests, fills |-> [n \in DOMAIN digests |-> [journal |-> TRUE]]]

\* Two requests signed under one id.
TwoDigests == {"short", "long"}
TwoRequests == [short |-> Req(TheId, ShortOffer, FALSE), long |-> Req(TheId, LongOffer, FALSE)]
LifecycleAccounts == {client, p1, p2}
ClientMoves == {<<client, 1>>, <<client, 2>>}
LockerMoves == {<<p1, 3>>}
OneId == {TheId}
LifecycleCalls ==
    {<<Batch(p1, <<"short">>)>>, <<Batch(p2, <<"short">>)>>, <<Batch(p2, <<"long">>)>>}

\* A request with a callback, and one under another id that follows it in a
\* batch or in a call: the callback may lock, price, commit to or fulfil either.
\* In the second block, the first that can reveal, a lock of the first is live and
\* a lock of the second has lapsed.
UnitOffer ==
    [minPrice |-> 1, maxPrice |-> 1, rampUpStart |-> 1, rampUpPeriod |-> 0, lockTimeout |-> 1,
     timeout |-> 2, lockCollateral |-> 1]
LiveOffer == [UnitOffer EXCEPT !.lockCollateral = 0, !.timeout = 1]
LapsingOffer == [LiveOffer EXCEPT !.lockTimeout = 0]
CallbackDigests == {"first", "second"}
CallbackRequests ==
    [first |-> Req(TheId, LiveOffer, TRUE), second |-> Req(OtherId, LapsingOffer, FALSE)]
TwoIds == {TheId, OtherId}
CallbackAccounts == {client, p1}
CallbackCalls ==
    {<<Batch(p1, <<"first", "second">>)>>,
     <<Batch(p1, <<"first">>), [Batch(p1, <<>>) EXCEPT !.requests = <<"second">>],
       Batch(p1, <<"second">>)>>}
CallbackEthMoves == {<<client, 2>>}
CallbackTokenMoves == {}

\* A third request, signed under the id of the second, with an earlier deadline:
\* in the second block the callback of the first can slash a lock of the third
\* before the batch settles the second, which is still worth its price.
BriefOffer == [LapsingOffer EXCEPT !.timeout = 0, !.lockCollateral = 3]
SlashDigests == {"first", "second", "third"}
SlashRequests ==
    [first |-> Req(TheId, LiveOffer, TRUE), second |-> Req(OtherId, LiveOffer, FALSE),
     third |-> Req(OtherId, BriefOffer, FALSE)]
SlashCalls == {<<Batch(p1, <<"first", "second">>)>>}
SlashTokenMoves == {<<p1, 3>>}

\* Two ids that differ in the signature flag only, and so share their flags; the
\* client, an account with code and a key, has signed under both.  The second has
\* a callback, for which one of the calls has no journal.
AliasDigests == {"plain", "alias"}
AliasRequests == [plain |-> Req(TheId, UnitOffer, FALSE), alias |-> Req(AliasId, UnitOffer, TRUE)]
AliasIds == {TheId, AliasId}
AliasCalls ==
    {<<Batch(p1, <<"plain">>)>>, <<Batch(p2, <<"alias">>)>>,
     <<[Batch(p2, <<"alias">>) EXCEPT !.fills = <<[journal |-> FALSE]>>]>>}
AliasEthMoves == {<<client, 2>>}
AliasTokenMoves == {<<p1, 1>>}

-----------------------------------------------------------------------------

\* The contract holds exactly the ETH it owes: the balances of all accounts and
\* the escrow of the locks not yet paid or slashed (BoundlessMarket.sol:63-65).
EthSolvent ==
    market.eth = SumFunction(market.balance)
                   + MapThenSumSet(LAMBDA id : Escrowed(market.requestLocks[id]), Ids)

\* The contract holds exactly the collateral tokens it owes: the accounts and
\* the collateral of the locks neither returned nor slashed.
TokensSolvent ==
    market.tokens = SumFunction(market.collateralBalance)
                      + MapThenSumSet(LAMBDA id : market.requestLocks[id].collateral, Ids)
=============================================================================
