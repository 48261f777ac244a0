# Dambi / Pasu: TLA+ models, checks and proofs

Dambi (repository `pasu`) is a browser extension that stands between a web page and
a wallet. A page's request (a transaction, a signature, or an order posted to a
trading venue) is decoded, judged by the wallet owner's Cedar policies and, when a
policy warns, put before the user. Only then does it reach the wallet. Behind the
extension stands a server that keeps each wallet's state in sync with chains and venues
and predicts what a request would do to it. This directory models the decision path, the
policy store it reads and the state the server answers from, checks them with TLC and
proves their main safety properties with TLAPS.

Paths below are relative to `browser-extension/` or `crates/` of the repository.

## 1. Inventory

### 1.1 The parts

| part | state it keeps | operations | talks to |
|---|---|---|---|
| provider proxy, fetch hook (`backend/injected`) | none of its own | wrap provider methods, recognise venue orders | page request transport |
| page request transport (`backend/lib/messages.ts`, `backend/content-scripts/window-ethereum-messages.ts`) | one promise and timer per call in the page, one port and timer per call in the content script | send, awaiting-user, answer, time out | stream per frame, port per call |
| bypass observer (`content-scripts/bypass-check.ts`) | none | forward a sighting of a call that went around the proxy | the worker, without listening to the answer |
| decision gate (`service-worker/index.ts`, `orchestrator.ts`) | `actorChain` in memory, `requests:pending-decisions` in storage.session | lock per wallet, time out the lifecycle, branch on the verdict, ask the user | transport, lifecycle, confirm window, logs |
| confirm window (`frontend/confirm/index.ts`) | the pressed button | reply on two channels, write "no" on unload | storage.session, runtime messages |
| verdict lifecycle (`orchestrator.ts`: `runLifecycle`, `typedSignatureLifecycle`, `venueOrderLifecycle`, `evaluateBodyTree`) | none between requests | route, resolve, plan, dispatch, evaluate, aggregate | decoder, policy store, policy server, engine |
| engine boundary (`policy-engine-wasm`, `policy-engine/src/policy_rpc`) | none (stateless v2) | plan calls, materialise answers, evaluate bundles | lifecycle |
| decoder (`policy-engine-wasm/src/declarative_exports.rs`) | installed bundles | build an action body from calldata or typed data | adapter loader |
| decision logs (`storage.ts`, `verdict-storage.ts`, `state-delta-storage.ts`) | four lists or maps in storage.local | get, edit, set | gate, lifecycle, dashboard |
| policy store (`service-worker/policy-store`) | definitions, bindings, wallets, `rev` | mutate in a serial queue, seed, resolve | dashboard, lifecycle |
| account session (`dambi-auth`) | access and refresh token | refresh on 401 | policy server |
| adapter loader, registry client, wasm bridge | caches, one load in flight | fetch, install, load | decoder, engine |
| venue enrichment (`service-worker/venue`) | caches with a time to live | look up symbol, leverage, master | lifecycle |
| dashboard, popup, badge, notifications | views | display, edit policies and rows | the worker's messages |
| sync worker (`policy-server/server/src/bin/sync_worker.rs`, `coordination.rs`, `sync/src/runtime/scheduler.rs`) | a Redis key per user with a time to live | lock, tick over the user's wallets, release | wallet rows, orchestrator |
| wallet state writers (`server/src/write_handlers.rs`, `db/src/stores/postgres.rs`) | tables `wallets` and `wallet_states` | load a row, work on the copy, save the row; archive | sync worker, discovery, orchestrator |
| intent venues and permits (`sync/src/runtime/orchestrator.rs`, `sync/src/sources/fetchers/venue`) | none between syncs | list orders, prune and upsert; retire expired and used permits | venues, chains |
| Hyperliquid account (`asset-model/state/src/position/hyperliquid.rs`, fetcher, `server/src/methods.rs`) | equity, flow, ledger cursor, day baseline, high-water mark | poll the account, roll the anchors, fold the ledger, serve the drawdown | sync worker, policies |
| asset model reducer (`asset-model/transition`, `server/src/handler.rs`) | the running state of one request | reduce an action to a delta, apply it, merge those of a multicall | policies, the extension |
| other parts of the server | accounts, market, events | HTTP handlers | the extension, dashboard |
| registry (`registryV2`, `registry-api`) | decode bundles | serve files | adapter loader |

`PROJECT.json` lists each part with its sources and says whether it is modelled.

### 1.2 What is hard about it

* Four actors (page, content script, worker, window) run concurrently. They share a
  map in storage.session that each updates by a `get` and a later `set` of the whole map.
* Every hop has its own timer: PHASE1 / PHASE2 in page and relay, HARD_TIMEOUT around
  the lifecycle, a deadline and a 250 ms poll around the user. Each races an answer.
* A request id is a hash of the payload. It is therefore not unique per call.
* The browser may end the worker at any await. Memory and detached promises are lost,
  storage and windows stay.
* A storage call, `windows.create`, the WASM engine, the policy server or the decoder
  may fail on its own, in the middle of a decision or of a batch.
* Log rows and simulation deltas are written by promises nobody waits for.
* The policy store is two documents that every operation reads, edits and writes back;
  the first requests after a start race to seed it.
* On the server, a wallet's row is loaded, worked on for seconds and saved as a whole by
  five kinds of writers, of which two take a lock, and that lock can run out.
* A venue's answer may be missing, partial or stale, and equity and the transfers that
  explain it come from two polls.
* A multicall's deltas are computed against a copy and applied a second time elsewhere.

The `hazards` of `PROJECT.json` place each of these at a line of the code.

### 1.3 What makes it correct

* Gate: a request is forwarded only after a pass or a Trust (fail closed). Decisions
  of one wallet do not overlap. Every decision ends.
* Lifecycle: no failure of a part turns into a pass. A deny is not demoted. Orders
  that cannot be judged are blocked.
* Logs: the audit log is the tail of what was decided, a decision is audited once,
  races may lose rows but not duplicate or reorder them.
* Policy store: no update is lost, no operation leaves documents that can no longer be
  written, built-in policies are there before anything is decided and stay until the user
  takes them away.
* Wallet rows: lockers take turns; a sync drops only what is dead (or what a fetcher could
  not decode); permits and deletes are
  undone only by a writer that overlapped them; what is dead is eventually retired.
* Equity: transfers are netted once, a trusted baseline is its day's opening, the drawdown is
  real where the polls saw all of the account and its transfers.
* Reducer: answered deltas explain the predicted state; tokens are neither made nor, but in
  three places, lost.

## 2. Modules

| module | models | checked by |
|---|---|---|
| `ApprovalGate` | abstract: what the extension promises a page | refined by `VerdictGate` |
| `VerdictGate` | transport, relay, worker's decision handler, confirm window | `gate_*` |
| `VerdictPipeline` | one lifecycle from routing to verdict | `pipe_*` |
| `DecisionLogs` | the four logs and all their writers | `logs_*` |
| `PolicyOps` | the policy store's documents and every operation on them | through `PolicyStore` |
| `SerialStore` | abstract: documents that change by one whole operation at a time | refined by `PolicyStore` (proved) |
| `PolicyStore` | seeding, the `mutate` queue, requests, worker deaths | `store_queue` |
| `WalletSync` | wallet rows, their five writers, the lock, venues and permits | `sync_*` |
| `HlEquity` | the Hyperliquid account's equity, flow and anchors | `hl_*` |
| `AssetReducer` | reducers, deltas, multicalls, the loop of `evaluate` | `reduce_fold` |
| `MC...` | the constants of the runs | |
| `Folding` | what `FoldLeft` computes, for any operator: theorems for the proofs | `tlapm` |
| `...Proofs` | theorems and their proofs | `tlapm` |

The modules of the decision path meet at three points. `VerdictGate` takes any verdict that
`VerdictPipeline` can end with (`Outcomes`, and `Throws` for an error that leaves the
lifecycle). `DecisionLogs` follows the same order of awaits as `VerdictGate`'s
decisions, at the granularity of the logs. In the other direction the logs act on an
answer only by failing, and such a failure is `Throws` or `Rejects` of `VerdictGate`.
`VerdictPipeline` resolves any set of policies, and `Evaluated` of `PolicyOps` says which
sets the store can yield. On the server, a tick of `WalletSync` runs the polls of
`HlEquity` between `NextWallet` and `SyncSave`; `HlEquity` looks at the account of one wallet
and has the tick and one request at a time as its writers. `AssetReducer` starts from a row as `WalletSync` keeps it, and its permit
signatures are what `IngestLoad` records.

A definition such as `RelayTimeoutOpen`, put before `RelayTimeout`, is a plausible
slip. It belongs to no specification. `PROJECT.json` pairs every property with one
such slip that breaks it.

### 2.1 VerdictGate

A member of `Req` is one call of `sendToStreamAndAwaitResponse`, or one bypassed
sighting. `IdOf` is the payload hash, `ActorOf` the result of `inferActor` (none for
`personal_sign` and for venue orders), `FrameOf` the frame whose stream carries it.

| state | code |
|---|---|
| `page`, `stream` | the proxy's promise with its armed timer; the post-message stream of a frame |
| `relay`, `port` | the content script's port and its timer |
| `pc`, `verdict`, `ok` | the await `decideInner` is at, its locals |
| `chain` | the unsettled promises of `actorChain`, the running one first |
| `session`, `snap`, `csnap` | `requests:pending-decisions`; the copies the worker and a window hold between `get` and `set` |
| `win`, `choice` | the confirm window of a request |
| `approved` | history: passed, or Trust pressed in the request's own window |

Each await is a step boundary, so every interleaving of the code's asynchronous steps
is a behaviour of the model. `Settle` is called by the poll, the deadline, the runtime
message (for all listeners of that id) and `windows.onRemoved`; the first call wins.
Reading the map in the poll and acting on it is one step: `settle` only touches
the handler's own state, so the two commute with everything in between.
A lifecycle that loses against `withTimeout` runs on, but nothing of it reaches
the gate; what it may still record is `Simulate` of `DecisionLogs`.
Durations are left out. A timer may fire at any time while it is armed, which
includes every order the real durations allow.

### 2.2 VerdictPipeline

A decoded action is the sequence of the positions of its body tree in the order in
which `evaluateBodyTree` visits them. A request is a sequence of such actions. The
policies that match and fire, the calls that are answered and every failure are free
choices; Cedar and the calldata decoder are behind them. `own` is the list local to
`evaluateBodyTree`, `verdicts` the list of the caller: a throw loses the first and
keeps the second. Three facts of the code are easy to miss. Planning
does not look at a trigger's scope, so a policy that will not apply at a position can
still make its required call fail the position. `dispatchCallsV2` does not throw:
what it could not get is absent. And a wallet without policies falls through to
the fail-closed tail for a transaction, but passes for a signature or an order.

### 2.3 DecisionLogs

Each log is modelled with its real discipline: `get` into a copy, edit, `set`.
`Turn` is what `withActorLock` gives the writers of pending and audit. The rows
(`appendVerdictsForMessage`) and the deltas (`recordSimulationOnServer`, for the decisions in
`Simulated`: signatures and orders post nothing) are started
with `void` and outlive the decision, but not the worker. The dashboard's
`setVerdictDecision`, `clearVerdicts` and `clearStateDeltas` run among them. The
model folds the data of a row to its decision and its number.

### 2.4 PolicyOps, PolicyStore and SerialStore

`PolicyOps` holds the documents as one record: definitions (source, on for new wallets,
blank or not, home wallet or public, package), library packages, the registered wallets
(`known`), and per wallet a bag of bindings, its packages and the switched-off ones; a wallet
that is not registered reads as a new one, which is what `walletAt` makes of it. An operation is a record of the set
`Commands`, and `Mutated(s, c)` is `mutate`'s whole body for it: normalise (migration of
old documents), change, `validate`, count `rev`; `Err` where the code throws.
`PolicyStore` adds the requests. Each passes `ensureSeeded` (check, fetch and convert,
queue a seeding) and then queues its own operation or, for a decision, reads. `chain` is
the promise chain, `draft` what the running `mutate` is about to write, `seeded` is
`seededUids`. A worker death empties memory and keeps the documents. `owed`, `gone` and
`sown` are history for the properties. Left out: template folders, names, time stamps,
the Cedar text of a binding. The set `Stores` of initial documents has an empty store and
one written before wallets had packages.

### 2.5 WalletSync

A process is a worker replica or one HTTP request. `pc` is the await it is at, `snap` its
copy of the row, `base` (history) the row as it read it. The code's awaits inside one sync
step (one venue after the other, one permit after the other) are one action that chooses
which of them answered, since they work on the process's own copy; the load and the save are
steps of their own. `lock` is the Redis key: `SET NX PX`, release by compare-and-delete,
and `LockExpires` at any time. With `Redis = FALSE` it is the coordinator that never
contends. A tick takes all wallets (the code: the first 100 by address).
A venue in `Complete` answers Ok with all its open orders but those its fetcher could not
decode: the 1inch fetchers skip such elements and still answer Ok. `skipped` (history)
remembers which orders a sync lost that way, and `SyncDropsOnlyDead` names them.

### 2.6 HlEquity

`time`, `raw` and `ledger` are the venue, which moves between any two steps of the tick.
`Roll` is `roll_equity_anchors`, `Longtail` is `parse_ledger_net_flow` followed by
`merge_longtail`. `Request`, `Replace`, `RequestSave` are the other writers of the row: `POST
/permits` saves back what it loaded, `POST /wallets` and `POST /sync` replace the account by
a polled one; the first two take no lock, so a request may save at any time between the steps
of a tick, with an older copy. `seen`, `look` and `glance` (history) say what the saved
account, the tick's copy and the request's copy were computed from; "first observation" is
thus relative to the lineage of the row, not to all polls ever made.

`CorePartial` is the poll in which `perp_dexs` or a builder dex fails: the clearinghouse is
fresh all the same, with a part of the equity (`Sides`) missing. The calls to the dexes
are one step, and one builder dex stands for all. Ledger entries may share a millisecond, of
which the strict cursor may pass some by, and an amount that cannot be parsed counts as zero;
it reads as profit or loss, so the history variable `pnl` takes it up.
Amounts are integers where the code adds `f64`s: rounding is not modelled.

### 2.7 AssetReducer

Each reducer is an operator that yields the set of its possible outcomes: a delta or an
error, and (history) what counterparties give or take and, kept apart from it, what the
reducer itself drops (`lost`). What prices, curves, caps and health
factors decide is a free choice of amounts and of `Rejected`. `ApplyDelta`, `MergeDelta`,
`Envelope`, `BeginMulticall`, `Child` and `EndMulticall` are `helpers/delta.rs`, the loop of
`evaluate` and `apply_multicall`. Things the model shows and a reader may not expect:

* an approval through Permit2 is kept in the ERC-20 map, and a Permit2 lockdown does not
  clear it there; the delta of an ERC-721 transfer can never be applied, so it ends the
  simulation; so does cancelling an order the state does not know;
* three reducers lose tokens, which `Conserved` counts: closing a perp position returns its
  first collateral token only, disabling a collateral drops the deposit's entry, and a first
  supply of an asset that is not eligible as collateral is recorded nowhere;
* a delegation of the native coin is queued and can never be applied; a vesting sale credits
  its whole allocation at the claim and again as it vests; a repeated airdrop claim opens a second position with the same id
  (`OnePerId` excepts it);
* yield, staking, restaking, governance and marketplace actions change nothing.

## 3. Runs

All runs but `sync_rows` and `sync_live` set `CHECK_DEADLOCK FALSE`: the system rests once
every request is answered. The sync worker never rests. The type invariants of
`VerdictGate`, `VerdictPipeline`, `WalletSync` and `HlEquity` and `TrustIsOwn` are proved for
all constants and left out of the runs.

| run | instance | result |
|---|---|---|
| `gate_own` | a venue order from a page and a `personal_sign` sighting, own ids, no lock, one with rejecting browser calls | holds: `ForwardedIsOwn`, `DenyBlocks`, refinement of `ApprovalGate` |
| `gate_lock` | a page's transaction and a bypassed sighting of it: one wallet, one id, rejecting calls, one worker death, fairness | holds: `OneDecisionPerActor`, `ForwardedIsGranted`, `DecisionEnds` |
| `pipe_verdict` | all kinds of request; plain, undecoded, batched, empty and mixed decodes; policies of both scopes and severities with required and optional calls | holds: `PassIsEarned`, `ActionDenyStands`, `VenueWarnIsPolicy` |
| `logs_audit` | three decisions of one wallet, a signature with two matched policies and two transactions of one payload, logs of two entries, rejecting calls, dashboard, a death | holds: `TypeOK`, `AuditIsRecent`, `PendingCoversRunning`, `AuditedOnce`, `RowsNewestFirst`, `DeltaPerId` |
| `store_queue` | two edits and a decision, one built-in and one other definition, two wallets, every operation, a failure or a death | holds: `TypeOK`, `QueueServes`, `DraftIsCurrent`, `SeededFirst`, `ProtectionKept`, `DeletedStayGone`, `FilledWhenBound`, `NeverWedged` |
| `sync_rows` | tick, `POST /sync`, `POST /permits` and a delete on one wallet, an EIP-2612 permit, a venue with a listing of one, a lapse of the lock, a failure or a death | holds: `LockHeld`, `LostOnlyByOverlap`, `NoLateRevival` |
| `sync_live` | tick, `POST /wallets` and `POST /permits`, a complete venue, a failure, an undecodable order or a death, fairness | holds: `SyncDropsOnlyDead`, `ExpiredRetired`, `ClosedOrderRetired` |
| `hl_anchors` | two trades or transfers, three days, a request that saves an older or a polled account, a lost tick, polls that fail or miss a dex | holds: `FlowIsLedger`, `TrustedIsDayOpen`, `DrawdownIsReal` |
| `reduce_fold` | requests of three actions, an empty wallet and one with a loan and a Hyperliquid account | holds: `TypeOK`, `MergedIsSequential`, `DeltasExplainState`, `ReducedApplies`, `Conserved`, `OnePerId` |
| `gate_shared`, `pipe_sibling`, `hl_deposit` | see findings | violated |

`NeverWedged` tries, in every state in which no request is under way, every operation on the stored
documents, and finds that `validate` refuses only a bind or a change of package that names
something that is not there. It is about what deletions, copies, provisionings and
migrations leave behind: one dangling reference would make `validate` refuse every later
write.

### 3.1 Bounds

* Requests: two in the gate runs. The interactions are between two
  decisions (a shared id, a shared lock, a shared map). The proofs have no bound.
* `MaxDeaths`: one. After a death all memory is initial again, so a second death
  repeats the first on another request. The proofs allow any number.
* `Faulty`: the requests whose browser calls may reject, to keep the state space small.
* Logs: caps of two with three decisions, of which one writes two rows: the audit log and the
  rows go past their cap, a lost entry or a changed order shows in what is left.
  `MaxMarks` bounds the dashboard's operations. The two transactions are interchangeable, which
  the symmetry set uses.
* Decodes: up to three actions, batches of up to three positions below the batch, one
  batch nested in another. Each pair of outcomes (pass, warn, fail, throw, undecoded) thus
  occurs among neighbours in one tree and in two trees; the proofs range over all decodes.
* Policy store: `MaxBindings` (bindings per wallet) is two, so that a wallet can hold a
  definition twice or two definitions; two edits give every pair of operations in both
  orders after every seeding; `MaxFaults` is one.
* Wallet rows: one wallet (wallets share only the lock and the tick's list), one permit, one
  order, time 0 and 1 with a deadline of 0. `MaxLapses`, `MaxFaults` and `MaxDeletes` are
  one each: enough for two processes in their critical sections at once, a release by the
  one that lost the lock, and a delete below a running sync.
* Equity: `MaxTime = 4` covers three UTC days of two time stamps, of which the second of two
  per clock second is cut off by the tick's clock. `MaxMoves`, trades and transfers together,
  is two: a gain and a loss, a trade and a transfer, or two transfers, which may share a
  millisecond. `MaxPosts` is one request, `MaxFaults` one (lost ticks, core polls that fail or
  miss a dex, failing requests, illegible amounts; failed ledger polls are not bounded).
* Reducer: `MaxActions = 3` counts a multicall and its children: a multicall of two
  children, or an action before or after a multicall of one. Amounts of 1 in a wallet of 1
  (loans of 2) reach every underflow.

### 3.2 Fairness

`gate_lock` uses `FairSpec` of `VerdictGate`: weak fairness of each
request's worker steps and of the window's `ReplyWrite` and `ReplySend`. The worker's
steps are awaits of browser calls and of timers armed by the code (`withTimeout`,
`pollDeadline`), which settle by themselves. The window's two steps follow a pressed
button without further input. Nothing is assumed of the user, the page, or death.
The lifecycle of `VerdictPipeline` has no fairness and no liveness property: its fetches of
the registry and of policy-rpc have no time limit of their own, and what ends a decision is
`withTimeout` around them, which is in `VerdictGate`.
`sync_live` uses `FairSpec` of `WalletSync`: each process is scheduled (the worker loops for
ever and is restarted when it exits), and an orphaned lock expires, which its time to live
guarantees. Nothing is assumed of the clock, the venues or the chains, and failures are
bounded by `MaxFaults`: an outage ends. That the tick can always take the lock again needs no
strong fairness here, since the only other locker is a request that ends.

## 4. Findings

Each is a run that TLC refutes, and a line of the repository that says otherwise. The
quotations are in `PROJECT.json`.

1. `gate_shared`: a bypassed sighting has the id of the page's own request. A Trust
   pressed in the sighting's window settles the page's request, although such rows
   are called observe-only.
2. `pipe_sibling`: a throw at a later position of a batch discards the deny that an earlier
   position (the batch's own, or an earlier child's) had computed.
3. `hl_deposit`: a tick rolls the anchors before it folds the ledger, so a deposit made
   since the last tick lifts the high-water mark for good, although flows are said not to
   read as profit.

The modules keep further definitions that the code does not satisfy. They are in no
configuration; added to one, TLC refutes them.

* `DecisionSurvivesRestart` (`VerdictGate`): after a worker death nobody reads the persisted
  decision; `orchestrator.ts:1789` says it survives a restart.
* `AwaitingTurnsYesByReply` (`VerdictGate`, three requests): a write of the decision map from
  an old copy brings back an earlier Trust, and the poll of the repeated request takes it
  for the user's choice.
* `EmptyBatchNeverPasses` (`VerdictPipeline`): an empty batch passes on the typed-data
  route, whose counterpart for calldata is called the single chokepoint.
* `IngestPersists` (`WalletSync`): a permit answered with OK is wiped out by a sync that had
  loaded the row before; the handler's comment says "this DOES persist".
* `SnapshotIsComplete` (`WalletSync`, constants of `sync_live`): a 1inch fetcher leaves out
  an order it cannot decode (`one_inch_lop.rs:267`, `one_inch_fusion_plus.rs:132`) and answers
  Ok, so the sync prunes a live order; `venue/mod.rs:52` says that a fetcher with a complete
  listing must return `Err` on any incompleteness.
* `FailedPollIsNoLoss` (`HlEquity`, no transfers): a builder dex that does not answer makes
  the equity smaller, and the missing part is served as a drawdown;
  `position/hyperliquid.rs:231` says a stale or failed poll must not move the anchors.
* `DepositKept` and `MarginReturns` (`AssetReducer`): disabling a collateral removes the
  deposit (`set_collateral.rs:70`; line 16 says the action only flips a flag), and closing a
  perp returns only the first of its collateral tokens (`close.rs:87`; line 12 says the
  released collateral is credited back).
* `BakedApply` (`PolicyStore`): a wallet registered by another operation before it is
  provisioned, or provisioned after a seeding of which conversions failed, never gets the
  built-in policies; `dashboard/current-user.ts` says they keep applying regardless.

Others follow from reading the code and are not stated:

* The comment on `actorChain` speaks of serialised lifecycles, but `withTimeout` does not
  cancel the one it gives up, so it overlaps the next.
* The rows of two successive decisions of a wallet can overwrite each other, since the lock is
  released before they are written: `RowsNewestFirst` forbids duplicates and disorder, not loss.
* `decisionId` is called a UUID of the decision in `state-delta-storage.ts`, but is the
  payload hash, so a second decision on a payload replaces the first one's delta.
* `POST /sync` and `POST /wallets` replace the Hyperliquid account and with it the anchors, and
  `POST /permits` may save an older account over a newer one, although `equity_hwm` is
  documented as a mark across all syncs.
* The worker makes a new scheduler for every tick (`sync_worker.rs:71`), so its tick index is
  always 0 and `hl_longtail_every` ("once every N ticks") has no effect there.
* An order that turns terminal after 20 newer ones were placed at UniswapX stays in the row;
  a user's wallets after the first 100 by address are not reached by any tick.

## 5. Proofs

All theorems hold for arbitrary constants that satisfy the `ASSUME` of their module
(types of the constant functions; audit and row caps are positive; only a batch has
children; the special values `None` and `Err` are none of the values they stand beside; the
bound on bindings leaves room for the built-in policies). TLC evaluates these assumptions in
the runs. Every safety invariant that a passing run checks is also a theorem, three of the
gate's for unique ids and two of the logs' for decisions of one wallet, as in the runs.

**Gate** (`VerdictGateProofs`). `Inv` = `TypeOK` /\ `LockInv` /\ `AnswerInv` /\ `GrantInv`.

* `LockInv`: a live decision stands in its wallet's chain, a running one at its head.
  It is needed because `Unlock` drops the head, which must be the caller. Gives `ActorMutex`.
* `AnswerInv`: each positive message on a port or stream, and each forwarded request,
  goes back to a decision with that id that ended in "allow".
* `GrantInv`: each positive value of `ok`, of the shared map and of every copy of it goes
  back to a pass or a Trust for that id. The copies have to be included, since a stale
  copy may be written back at any time. Together: `FailClosed`, `GateRefinement`.
* Under the extra hypothesis that ids are unique, the same invariant gives
  `UniqueIdsOwnApproval`, `UniqueIdsOwnTrust` and `UniqueIdsDenyBlocks`. Shared ids are thus the only
  cause of finding 1.

**Pipeline** (`VerdictPipelineProofs`). `PipelineInv` joins the type invariant, the
cursor's position in the tree (`CursorInv`), what holds before the first position
(`StartInv`), what the two lists remember of the positions passed (`ListInv`), and the
properties. `PassEarned` needs `ListInv`: every hit left a verdict other than pass in a
list, or `threw` is set. `VenueFaultsFail` says that the user is asked about an
order only because a policy warned (`VenueWarnIsPolicy`); it needs from `StartInv` that
an order is one plain action and nothing is remembered of it before its end.

**Logs** (`DecisionLogsProofs`). `LogsInv` proves `SingleAudit`, and, if all decisions
share a wallet, `TurnsProtectAudit` and `TurnsProtectPending`: nobody writes between
the `get` and the `set` of `auditAppend`, so the copy is fresh (`FreshCopy`); the lemma `LastAppend` says that
cutting after each append equals cutting once. `RowOrder` rests on `RowInv`:
every stored or copied list of rows is ordered and older than what its decision
writes next, so whichever copy wins is still ordered. `OneDelta` rests on `DeltaInv`, which
says of the stored deltas and of every copy held between a `get` and a `set` that no id
occurs twice: the filter drops the id before it is put in front, and cutting a list adds
nothing. `LogsTypes` adds the types and caps that the other invariants do not need
(`RestTypes`).

**Wallet rows** (`WalletSyncProofs`). `SyncMutex` needs that a process outside its critical
section is neither holder nor lapsed, so that a release of a lapsed process finds a
foreign token and leaves it. `DropsAreDead` needs that the time a sync started at is
not in the future and that nonces, bits and closed orders never go back; what a sync drops
besides the dead is what its venue's answer skipped. `LossNeedsOverlap`
relates each copy to the row it was read from: what a save drops was dropped from the
copy (dead) or not in `base` (`overwritten`). `DeletesHold` needs that a process that is
at an archived wallet was at it when it was deleted (`grace`).

**Equity** (`HlEquityProofs`). `EquityInv` = `TypeOK` /\ `VenueInv` /\ `FlowInv` /\ `PeakInv`
/\ `DayInv`, each of the last three for the saved account, the tick's copy and the request's. `VenueInv`
orders the ledger by time and ties `raw` to start, trades and transfers; `FlowInv` is
`FlowIsLedger` for all three; `PeakInv` says that a clean history's high-water mark is the
best trading equity; `DayInv` that the baseline is in the set of first observations. The sum
over a set of ledger entries is a recursive function over the ledger's length; its lemmas
(union of disjoint sets, an appended entry) use induction in the form of a set of naturals
that contains 0 and is closed under successor. `DrawdownServed` is stated for histories in which
every roll saw all dexes and found the transfers folded; `FailedPollIsNoLoss` and finding 3 show
that it fails without either condition. That the high-water mark never falls is not claimed:
a request may save an older one.

**Policy store** (`PolicyStoreProofs`). `StoreInv` = `Frame` (shapes of the memory) /\
`QueueServes` /\ `Drafts` (only the head of the queue has a draft, made from the stored
documents by an operation that was on offer) /\ `Sowing` /\ `Documents` (a written store is
`Valid`) /\ `Deleted`. `Drafts` gives `NoLostUpdate` and `StoreRefinement`: a commit is an
operation on exactly the documents before it, every other step stutters.

What the documents say is a second invariant, `Safe`: the stored documents are `Sound` (typed,
every binding has its definition, every fresh binding fills its blank) and fit the bound, and
every policy that is `owed` to a wallet has a binding there that is evaluated (`Serves`).
It is stronger than `ProtectionKept` and `FilledWhenBound`: bindings have to be linked, or a
duplicate or a seeding could bring a definition with a blank under a binding made without one,
and an unregistered wallet must have no switched-off package, or provisioning it could add
policies that are off at once. The argument goes through the relation `Alike(s, t, c)`: the definitions that
command `c` does not edit keep their holes or lose them, new bindings are filled, and bindings
it is not about stay where they are, in packages that are no more off than before. A handful of lemmas
shows `Alike` for the ways in which documents change (packages, definitions, one wallet, new
rows, changed bags), one lemma per operation composes them, and `MutatedSound` draws the
conclusion for `mutate`, whose `validate` supplies the links. This gives `StoreTypes`,
`HolesFilled` and `ProtectionHolds`.

`StoreNeverWedged` goes the other way: it shows of each operation but `bind` and
`patchPackage`, from its cascade and without the guard, that documents which are `Valid` and
`Sound` become documents that are `Valid` (`FnValid`), and of the migration at each read that
it keeps them so (`ReadValid`). The proof does not need the rest that `NeverWedged` asks for, which
only saves TLC work: every document that is ever stored is still there at some rest.

**Reducer** (`AssetReducerProofs`, `Folding`). `ApplyDelta` folds three lists of changes, so
the proofs need to know what a fold computes. The induction theorems of the library take an
operator as a parameter and cannot be used; `Folding` replaces them by the least
counterexample in a set of naturals (`LeastNat`, `Upto`) and shows, for any operator, the fold of an
appended element and of a concatenation, that a closed set is not left (`FoldType`) and that
what commutes with the operator commutes with the fold (`FoldCommute`).
`ReducerInv`, the conjunction of the run's properties with `OneEach` of a multicall's copy, is
inductive.

* `MergeIsSequential`: merging the deltas of two children puts the second's token changes
  before the first's position and pending changes. Changes of different kinds commute where
  both can be applied (they touch different parts of the wallet), and a failure of either is a failure of
  both orders; `FoldCommute` carries this from single changes to lists.
* `DeltasApply`, `WorthConserved`, `PositionsOnce`: `Moves` describes what the helpers queue
  for tokens (each debit is covered by the balance left after what is queued already, `Effective`),
  `Good` what an outcome means for the wallet: its worth moves by `flow` less `lost`. There is one lemma per reducer, and
  for pools and margins one about sums over all coins and over a list's entries.
* `DeltasExplain` is `FoldAppend` at each step of `evaluate`; `ReducerTypes` says also that
  amounts never go below zero and that positions keep the shape that the next reducer relies on.

Only model-checked: `DecisionEnds`, `ExpiredRetired` and `ClosedOrderRetired`, since liveness under fairness is out of the prover's reach.

## 6. Not modelled, and why

* Cedar, the lowering of actions, the calldata and typed-data decoders: data
  transformation; the models quantify over their results. They and the per-protocol
  mappers are most of the repository's lines.
* Prices, curves and risk parameters of the reducers, discovery of tokens, live fields,
  parsing of venue answers: values, which the models choose freely.
* Durations: see 2.1. That HARD_TIMEOUT is shorter than PHASE1 is meant to leave time for
  an answer; whether it does with a queue on the lock needs a timed model.
* Best-effort side tables (diagnosis contexts, execution reports, badge, advisory toast):
  they never read back into a decision.
* Dashboard, popup, server accounts, market and event bus, registry: outside the decision
  path; see the plan.

## 7. Plan

Done: the gate, the pipeline, the logs, the policy store, the wallet rows and their lock, the
Hyperliquid account and the reducer, with the proofs of section 5. Next:

1. `AuthTokens` (`dambi-auth`): refresh on 401 by several requests at once.
2. `PhaseTimers`: bounded clocks for HARD_TIMEOUT, PHASE1 and the wait for the lock.
3. `DecoderRegistry` (`declarative_exports.rs` install and route tables, adapter
   loader): concurrent installs, wildcard and exact keys.
4. The event bus, and the registry proxy's single-flight fetches, cache and rate limiter.
5. More proofs: the safety half of the liveness properties (a decision's place in its chain
   and a request's place in the store's queue only move forward), and that every verdict
   `VerdictPipeline` ends with is one that `VerdictGate` takes.
