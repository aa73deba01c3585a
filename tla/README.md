# Boundless: a TLA+ verification project

Boundless is a marketplace for zero-knowledge proofs. A client signs a proof
request; its price rises in a reverse Dutch auction; a prover may lock it, putting
up collateral, and has until the lock deadline to deliver; after that anybody may
deliver until the request expires; a lock that was not honoured is slashed. The
contract under `contracts/src/` holds all the money and decides who is paid; the
Rust services under `crates/`, `bento/` and `prover/` watch the chain, price and
prove requests, and slash expired locks.

This directory holds TLA+ modules translated from that source, TLC
configurations that check them on small instances, and TLAPS proofs. Paths below
are relative to the repository root.

## 1. Inventory

| part | state | operations | what is hard |
|---|---|---|---|
| Market contract `contracts/src/BoundlessMarket.sol`, `types/*` | accounts (ETH and collateral balances, request flags), `requestLocks`, `fulfillmentCommitBlock`, transient `FulfillmentContext` | deposit/withdraw (ETH and collateral), `submitRequest`, `lockRequest`, `lockRequestWithSignature`, `priceRequest`, `commitFulfillment`, `fulfill`, `priceAndFulfill`, `fulfillAndWithdraw`, `submitRoot*`, `slash` | callbacks re-enter the market between two fills of a batch; reverts of nested calls; three payment paths over one lock record; two requests under one id; ids sharing flags |
| Auction `types/Offer.sol` | none | `validate`, `priceAt`, `timeAtPrice`, deadlines | boundaries of the ramp, rounding |
| Router `router/BoundlessRouter.sol` and adapters | class and entry tables, tombstones | `addClass`, `removeClass`, `instantiate`, `removeEntry`, `verifyBatch` | selectors must never be reused; classes removed while entries exist; mixed batches |
| PoVW `povw/PovwAccounting.sol`, `povw/PovwMint.sol` | pending epoch, work log commits, last commit minted | `finalizeEpoch`, `updateWorkLog`, `mint` | work finalised across an epoch boundary, mint chains out of order |
| Legacy market `legacy/BoundlessMarketLegacy.sol` | the market's storage, by delegatecall | the pre-router ABI | two code bases over one storage |
| Slasher `crates/slasher` | Postgres table of orders, last block processed | event scan, slash expired, retry | crash between steps, RPC races, events applied by kind rather than in chain order |
| Task database `prover/crates/taskdb` (Redis), `bento/crates/taskdb` (Postgres) | jobs, tasks, dependency counts, ready queues, counters | `create_job`, `create_task`, `request_work`, `update_task_{done,failed,retry,progress}`, requeue, delete | late answers from workers that timed out, dependency counts, job completion |
| Workers `prover/crates/workflow`, `bento/crates/workflow` | none but the task in hand | poll, execute, report | crash with a task in hand |
| Broker `crates/broker` | SQLite orders and batches, in-memory queues, channels | market monitors, evaluator, pricer, committer, locker, processor, batcher, submitter, reaper, chain monitor | peek-then-claim races, restart recovery, capacity accounting, lost broadcast messages |
| Order stream `crates/order-stream` | Postgres orders, websocket connections | submit, broadcast, heartbeat | slow consumers, connection limits |
| Distributor, order generator, indexer, rewards, requestor lists, CLI, SDK | derived or none | polling loops, views | little protocol state |
| HitPoints, VersionRegistry, verifier routers | allow-lists, versions, verifier table | owner-set entries | little |

Interactions: clients and provers call the market; the market calls the router
(which calls verifier and assessor adapters), the callback contracts of requests,
and accounts it pays; the slasher and the broker read its events and call `slash`,
`lockRequest` and `fulfill`; the broker hands proving jobs to bento, whose workers
share the task database; PoVW accounting receives work logs proved off chain, and
the mint reads its events.

The properties that make it correct: the market never owes more than it holds and
each request's money moves once; a lock's terms are honoured while it is live; the
client pays at most what it signed; delivery and the fulfilled flag agree; an
unhonoured lock can be, and by the slasher eventually is, slashed; a selector always
means the verifier it was introduced for; work is minted once; a task runs when and
only when its prerequisites are done and every job ends; an order claimed by the
broker ends as done or failed.

## 2. Modules

| module | models |
|---|---|
| `Offer` | `types/Offer.sol`: the auction as pure operators |
| `MCOffer` | an observer clock over small offers |
| `BoundlessMarket` | the market contract with locks, flags, contexts, commitments and call frames |
| `MCBoundlessMarket` | four instances of it, and the solvency sums |
| `BoundlessMarketProofs` | the inductive invariant and the theorems |
| `BoundlessRouter` | the router's registry and `verifyBatch` |
| `MCBoundlessRouter` | a registry instance and a dispatch instance |
| `BoundlessRouterProofs` | the registry's inductive invariant and theorems |

### The market

`market` is one record holding the contract's storage and transient storage, that
is, exactly what an EVM revert rolls back. Its first fields keep the source's
names: `balance` and `collateralBalance` (the fields of `accounts`), the request
flags `locked` and `fulfilled` per (client, index), `requestLocks` per id,
`fulfillmentCommitBlock`, `context`. `eth` and `tokens` are what the contract holds.
`spent`, `earned`, `staked`, `released` and `delivered` are history variables that
the actions update where the code moves money or emits an event and never read.

Every entry point is one action, with two exceptions. `fulfill` and
`fulfillAndWithdraw` run foreign code in the middle: the callback of a fill
(`_executeCallback`) and the ETH transfer of a withdrawal (`_withdraw`). They are
frames on the stack `frames`, with the code's loop counters `j` and `i`, and take one
step per batch bound (`bindBatch`), fill settled (`settleFill`) and prover paid out
(`withdrawProver`). While the top frame is `calling`, or between transactions, any
entry point may run: this is every re-entrance, up to `MaxDepth`. A frame saves the
storage at its start and `RevertFrame` restores it, as the EVM does: the model lets a
frame revert at any point, for any reason. A fill that is not expired and whose request
has a callback starts the callback if the fill carries a journal (`executeCallback`);
without one `settleFill` is not enabled and the frame can only revert
(`UnfulfillableCallback`). A single-step entry point that reverts is no step.
`priceAndFulfill` is the steps of `priceRequest` followed by `fulfill` in one
transaction. `NextBlock` and `EndTransaction` drop the transient contexts.

Abstractions. A request is its digest; `Digests` are the requests clients signed, so
signature checks always succeed for them. `ROUTER.verifyBatch` succeeds or, as a
`RevertFrame`, fails. A batch has a sequence of requests and one of fills, as in the
code: `_hasOpenPathFill` reads the requests of every batch, `fulfill` then skips a batch
without fills and reverts on any other whose two lengths differ. A fill is whether it
carries a journal. `submitRequest` moves money only through `deposit`. Amounts are numbers; the `uint96` width is kept where the
code leaves checked arithmetic (`uncheckedSub`) and where it relies on it (`Fits`).
`withdraw` and `withdrawCollateral` are one step: the transfer they end in runs
foreign code when everything is already written, which is the same as that code
running next.

### The router

The variables are the contract's mappings: `entries`, `classes`, `tombstoned` (as the
set of values mapped to true), `defaultClassId`, `entriesPerClass`. `origin` and
`curated` are history: what a bytes4 was first registered as, and which entries an
admin added. `addClass`, `removeClass`, `instantiate` and `removeEntry` are one action
each, with the code's reverts as guards. `isAdmin` says whether the caller of
`instantiate` holds `ADMIN_ROLE`; the other three are admin calls. `verifyBatch` is a
view and so an operator. A seal is its leading selector, or is too short to have one;
the verdict of an adapter is part of the fill (`accepted`). The schema artifact, its URL
and the label of a class are left out, as is the gas an adapter may burn. Which of its
errors a rejected lookup reverts with is not distinguished.

## 3. Runs

| run | instance | shows |
|---|---|---|
| `offer_ramp` | every valid offer with fields up to small bounds, positive timeouts and a ramp of at least a second; every second to its deadline | the price stays within the offer and never falls before the lock deadline; `timeAtPrice` is the earliest time worth the price |
| `offer_no_ramp` (violation) | the same, ramps of 0 seconds allowed | at the time `timeAtPrice` returns the offer is not yet worth the price when `rampUpPeriod = 0` |
| `market_lifecycle` | one id, two signed requests (cheap and short, dear and long), two provers, all three fulfilment paths, slashing | escrow, solvency, flags, slashing, overcharging, payments |
| `market_callbacks` | two ids, a batch and a three-batch call (one without fills) whose first fill has a callback, nesting depth 2 | bindings, commitments and payments survive re-entrance; every fill settled on an open path was committed to |
| `market_callback_slash` | three requests; the first fill's callback may slash the expired lock of the second one's id before that fill is settled | price and collateral leave a lock once, whichever comes first |
| `market_alias` | two ids sharing their flags, a fill with a callback and no journal | one lock per (client, index), and the escrow of each id matches its lock |
| `market_alias_comment` (violation) | as `market_alias` | both requests of one (client, index) paid |
| `market_locked_comment` (violation) | as `market_lifecycle` | a prover other than the locker paid while `requestIsLocked` |
| `router_registry` | four bytes4 values and the sentinel, any of them class, entry or tombstone in any order | no reuse, exact entry counts, one default class, open entries confined |
| `router_dispatch` | a verifier, a joint and an assessor class, entries of two adapters; all batches of up to two fills, and three that switch selectors (A-B-A, A-B-B) | `verifyBatch` with its cached entry accepts exactly what its reference accepts |
| `router_required_assessor` (violation) | as `router_registry` | a required assessor class can be removed |

Bounds. `ShortOffer` has lock deadline 2 and deadline 3, `LongOffer` a higher price and
deadline 5, and `MaxTime` is 6, so in `market_lifecycle` each lock is seen live, past its
lock deadline, and expired; the ETH supply of 4 and
deposits of 1 or 2 let the client hold more or less than either price, so full and
partial payments happen. Depth 2 is the
smallest that nests; a callback that itself has a callback adds no new relation between
two frames. No lock expires within the `MaxTime` of `market_callbacks`, which keeps two
nested calls affordable; slashing from a callback has the instance of its own, with a
lock that expires early, at depth 1. `MaxCommits` bounds commitments outstanding. The market configurations set
`CHECK_DEADLOCK FALSE`: with the clock at `MaxTime` and the supply spent the instance
may stop; the contract itself never promises a step. Four bytes4 values let an assessor
class, a verifier class that requires it, an open class and an entry of it coexist, and
each be removed and asked for again; two fills are the fewest that exercise the cached
entry, three the fewest that hit or miss it after a refresh. The router configurations set `CHECK_DEADLOCK FALSE` too: once every value is
tombstoned no call succeeds, which is what tombstones are for.

Fairness. All properties so far are safety properties and no specification has
fairness: the contracts act only when called.

### Divergences from the documentation

* `Offer.sol:76` promises the earliest time at which the offer is worth at least the
  price; with a ramp of zero seconds `timeAtPrice` returns `rampUpStart`, where the
  price is still `minPrice`.
* `crates/boundless-market/src/contracts/mod.rs:211` says that of several requests with the
  same address and index only one can ever be fulfilled. The ids of two such requests may
  differ in the signature bit; then they share flags but not a lock record, the
  was-locked path (`BoundlessMarket.sol:611`) looks for an earlier payment in the record
  of its own id only, and the client pays for both. This needs a client whose one address
  authorises both with a key and with ERC-1271, and that signed both requests.
* `IBoundlessMarket.sol:196` says only the locker can be paid while a request is locked;
  `requestIsLocked` stays true after the lock deadline, when anybody can be paid.
* `BoundlessRouter.sol:85` says the required assessor class of a verifier class must be a
  registered assessor class; `removeClass` checks only for live entries, so it can be
  removed while required, after which no batch of that verifier class verifies.

## 4. Proofs

`BoundlessMarketProofs` proves, for every set of accounts, requests, ids, batches, block
times and every bound, under `WidthAssumption` and `MarketAssumption` (constants have
their types, the treasury and the null values are distinct from accounts and digests):

| theorem | states |
|---|---|
| `TypeCorrect` | `Spec => []TypeOK` |
| `EscrowIsConserved` | `Spec => []EscrowMatchesLock` |
| `DeliveryIsRecorded` | `Spec => []DeliveredIsFulfilled` |
| `SlashIsLate` | `Spec => []SlashedOnlyAfterExpiry` |
| `LiveLocksAreHonoured` | `Spec => LiveLockHonoured` |

The inductive invariant `IInv` says that the current storage and the saved storage of
every frame are *good*, and that each frame's counters point into its call, whose batch
in hand has as many requests as fills. Saved
storages are part of it because `RevertFrame` installs one. A storage is good
(`GoodStorage`) when it has its type and each id is (`GoodId`): escrow equals what was
paid minus what was earned (`Balanced`); an id without a lock record has an empty one
(`UnlockedIsEmpty`, needed because a flag may be shared with another id and the
was-locked path then reads an empty record); deliveries and payments have set the flag;
a slashed lock is expired and unpaid; earnings are marked on the lock or by the flag;
and a lock paid late names a real prover (`PaidAfterHasProver`, which `slash` credits).
There is one lemma per change the code makes to a storage (lock, each fulfilment path,
slash, withdraw, stamp, drop) saying that it maps good storages to good ones, and one
per action lifting it to frames.

`BoundlessRouterProofs` proves, for every finite set of bytes4 values and every set of
adapters and calls (`RouterAssumption`), that each property of `router_registry` always
holds: `RouterTypeCorrect`, `RouterNamespaces`, `RouterEntriesBelong`, `RouterDefault`,
`RouterNeverRepoints`, `RouterConfines`. Their common inductive invariant adds that
unregistered slots are blank (`BlankSlots`), that a value neither live nor tombstoned was
never registered (`KnownIsKept`, which with the tombstones gives `NeverRepointed`), that
assessor classes are curated and a required class is an assessor or tombstoned
(`ClassesWellFormed`), and that entries without an admin are in open classes
(`OpenEntries`). Confinement follows: an open class is live, hence not tombstoned, and is
not an assessor class. The counts use the cardinality theorems for finite sets.

`LiveLockHonoured` is an action property: a step that changes a live lock's record either
is a revert or credits the lock's price and collateral to its prover, settling the
digest that was locked (`PaysLock`).

Model-checked only: `VerifyBatchIsExact`; the market's `EthSolvent` and `TokensSolvent` (sums over a function's domain,
which need induction over data), `PaidAtMostOnce`, `PaymentsMatchOffer`,
`NeverOvercharged`, `OneLockPerIndex`, `BindingsSurviveCallbacks`,
`OneRevealPerCommitment` and `OpenPathIsCommitted` so far. Out of this prover's reach and
left to TLC altogether: liveness under fairness and `ENABLED`; induction over data, so
what a recursive definition computes for every input; anything that mentions a
`RECURSIVE` operator.

## 5. Not modelled

Proxy upgrades, roles and pausing; hashing, signatures and verification of proofs;
`submitRoot*`, which forwards to a verifier and then calls a modelled entry point;
`_applyMarketFee`, dead while `MARKET_FEE_BPS` is 0; gas, except as a reason to revert;
the parts `PROJECT.json` lists as `not_modelled`, with the reason.

## 6. Plan

1. PoVW accounting and mint, composed: work minted once, epochs never overlap.
2. The bit packing of request flags against the sets of indices the market uses.
3. An abstract request lifecycle (open, locked, paid, expired, slashed) that the market
   refines, per id.
4. Slasher with crash and restart against an abstract market chain; under fairness,
   every unhonoured lock is slashed.
5. Task database: dependency counts, retries, late answers; every job ends.
6. Broker: order status machine, batcher claim against reaper, restart recovery, and
   the capacity the committer accounts for.
7. Order stream: broadcast and connection limits.
8. More proofs: paid at most once (the saved storages along the stack are ordered),
   payments match the offer, commitments; task database invariants; `verifyBatch`
   against its reference, from the registry's invariant.
