---------------------------- MODULE WalletSync ----------------------------
(***************************************************************************)
(* One user's wallet rows on the policy server and everybody who writes    *)
(* them: the sync worker's tick, POST /sync, POST /wallets, DELETE         *)
(* /wallets and POST /permits.  A writer loads the whole row, talks to     *)
(* chains and venues for seconds, and saves the whole row back.  The tick  *)
(* and POST /sync take turns with a Redis lock that has a time to live;    *)
(* the other handlers take no lock.                                        *)
(*                                                                         *)
(* A row holds the signed permits and the venue orders it tracks as        *)
(* pending, and how much of the wallet's tokens discovery found.  Balances *)
(* and prices are left out; the Hyperliquid account is module HlEquity.    *)
(***************************************************************************)
EXTENDS Naturals, Sequences, FiniteSets

CONSTANTS Wallets,
          Known,              \* wallets tracked, with their tokens found, when we start to look
          Workers,            \* sync worker replicas
          Syncs, Adds, Ingests, \* requests: POST /sync, POST /wallets, POST /permits
          WalletOf,           \* the wallet a request names
          PermitOf,           \* the permit an ingest request records
          Permits, KindOf, NonceOf, ValidUntil,
          Orders, VenueOf,
          Complete,           \* venues with an authoritative_prefix
          Window,             \* newest orders a listing shows (limit=20 of UniswapX)
          Free, Orphan,       \* no lock; a lock whose holder is gone
          Redis,              \* FALSE: NoopCoordinator
          MaxNow, MaxNonce, MaxDeletes, MaxLapses, MaxFaults \* bounds

Requests == Syncs \cup Adds \cup Ingests
Lockers  == Workers \cup Syncs
Procs    == Workers \cup Requests
Venues   == {VenueOf[o] : o \in Orders}

ASSUME SyncAssumption ==
  /\ Workers \cap Requests = {} /\ Syncs \cap (Adds \cup Ingests) = {} /\ Adds \cap Ingests = {}
  /\ Free \notin Procs /\ Orphan \notin Procs /\ Free # Orphan
  /\ WalletOf \in [Requests -> Wallets]
  /\ PermitOf \in [Ingests -> Permits]
  /\ KindOf \in [Permits -> {"eip2612", "permit2", "transfer"}]
  /\ NonceOf \in [Permits -> Nat] /\ ValidUntil \in [Permits -> Nat]
  /\ Window \in Nat \ {0} /\ Redis \in BOOLEAN
  /\ MaxNow \in Nat /\ MaxNonce \in Nat /\ MaxDeletes \in Nat /\ MaxLapses \in Nat /\ MaxFaults \in Nat

VARIABLES
  row,         \* the wallets table: none, tracked or archived
  stored,      \* the wallet_states table
  lock,        \* the Redis key sync:user:<id>
  pc,
  todo,        \* wallets of the running tick still to sync
  cur,         \* the wallet a process is at
  snap,        \* its copy of the row
  at,          \* the time its sync started
  now, nonce, spent,   \* clock, EIP-2612 nonce of the owner, set bits of the Permit2 bitmap
  book, open,  \* orders placed at the venues, newest first; the ones not yet terminal
  deletes, lapses, faults,  \* bounded counters
  lapsed,      \* history: processes whose lock ran out under them
  base,        \* history: the row as the process read it
  skipped,     \* history: open orders a complete venue's answer left out in its sync
  ingested,    \* history: permits whose POST was answered with OK
  overwritten, \* history: permits a save wiped out because it had read the row before them
  grace,       \* history: processes that were at the wallet when it was deleted
  revived      \* history: deleted wallets brought back by a later sync or ingest

tables  == <<row, stored>>
local   == <<todo, cur, snap, at>>
world   == <<now, nonce, spent, book, open>>
bounds  == <<deletes, lapses, faults>>
history == <<lapsed, base, skipped, ingested, overwritten, grace, revived>>
vars    == <<tables, lock, pc, local, world, bounds, history>>

State == [tokens : BOOLEAN, permits : SUBSET Permits, orders : SUBSET Orders]
\* WalletState::new: what load returns for a wallet without a row.
Fresh == [tokens |-> FALSE, permits |-> {}, orders |-> {}]

PcStates == {"idle", "listing", "next", "preloading", "seeding", "loading", "orders", "permits",
             "saving", "releasing", "emptying", "adding", "labelling",
             "listed", "recording", "done"}

TypeOK ==
  /\ row \in [Wallets -> {"none", "tracked", "archived"}] /\ stored \in [Wallets -> State]
  /\ lock \in Procs \cup {Free, Orphan}
  /\ pc \in [Procs -> PcStates]
  /\ todo \in [Workers -> SUBSET Wallets] /\ cur \in [Procs -> Wallets]
  /\ snap \in [Procs -> State] /\ at \in [Procs -> Nat]
  /\ now \in Nat /\ nonce \in Nat /\ spent \subseteq Permits
  /\ book \in Seq(Orders) /\ open \subseteq Orders
  /\ deletes \in Nat /\ lapses \in Nat /\ faults \in Nat
  /\ lapsed \subseteq Procs /\ base \in [Procs -> State] /\ skipped \in [Procs -> SUBSET Orders]
  /\ ingested \in [Wallets -> SUBSET Permits] /\ overwritten \in [Wallets -> SUBSET Permits]
  /\ grace \in [Wallets -> SUBSET Procs] /\ revived \subseteq Wallets

Init ==
  /\ row = [w \in Wallets |-> IF w \in Known THEN "tracked" ELSE "none"]
  /\ stored = [w \in Wallets |-> [Fresh EXCEPT !.tokens = w \in Known]]
  /\ lock = Free /\ pc = [p \in Procs |-> "idle"]
  /\ todo = [p \in Workers |-> {}]
  /\ cur \in [Procs -> Wallets] /\ \A p \in Requests : cur[p] = WalletOf[p]
  /\ snap = [p \in Procs |-> Fresh] /\ at = [p \in Procs |-> 0]
  /\ now = 0 /\ nonce = 0 /\ spent = {} /\ book = <<>> /\ open = {}
  /\ deletes = 0 /\ lapses = 0 /\ faults = 0
  /\ lapsed = {} /\ base = [p \in Procs |-> Fresh] /\ skipped = [p \in Procs |-> {}]
  /\ ingested = [w \in Wallets |-> {}] /\ overwritten = [w \in Wallets |-> {}]
  /\ grace = [w \in Wallets |-> {}] /\ revived = {}

Go(p, s) == pc' = [pc EXCEPT ![p] = s]
\* A process leaves the wallet: its copy of the row is gone.
Leave(p, s) == /\ Go(p, s)
               /\ snap' = [snap EXCEPT ![p] = Fresh]
               /\ base' = [base EXCEPT ![p] = Fresh]
               /\ skipped' = [skipped EXCEPT ![p] = {}]
\* One more storage or network call fails.
Fault == faults < MaxFaults /\ faults' = faults + 1

-----------------------------------------------------------------------------
(* The store: load has no archived filter, save upserts both tables          *)

Load(p, w) == /\ snap' = [snap EXCEPT ![p] = stored[w]]
              /\ base' = [base EXCEPT ![p] = stored[w]]

\* save: ON CONFLICT ... SET archived = FALSE.
RowAfterSave(w) == "tracked"

Save(p, s) == LET w == cur[p] IN
  /\ stored' = [stored EXCEPT ![w] = s]
  /\ row' = [row EXCEPT ![w] = RowAfterSave(w)]
  /\ overwritten' = [overwritten EXCEPT ![w] =
       (@ \cup (stored[w].permits \ base[p].permits)) \ s.permits]
  /\ revived' = IF row[w] = "archived" /\ p \notin Adds /\ p \notin grace[w]
                THEN revived \cup {w} ELSE revived

\* list_wallets without its filter on archived.
AllRows == {w \in Wallets : row[w] # "none"}
ListWallets == {w \in Wallets : row[w] = "tracked"}

-----------------------------------------------------------------------------
(* The lock: SET NX PX with a fresh token, released by compare-and-delete    *)

TryLock(p) ==
  /\ p \in Lockers /\ pc[p] = "idle"
  /\ Redis => lock = Free
  /\ lock' = IF Redis THEN p ELSE lock
  /\ Go(p, "listing")
  /\ UNCHANGED <<tables, local, world, bounds, history>>

\* POST /sync answers 409.  The worker goes on to its next user.
Contended(p) ==
  /\ p \in Syncs /\ pc[p] = "idle" /\ Redis /\ lock # Free
  /\ Go(p, "done")
  /\ UNCHANGED <<tables, lock, local, world, bounds, history>>

\* A release that deletes the key whoever set it.
DeleteKey(p) == IF Redis THEN Free ELSE lock
CompareAndDelete(p) == IF lock = p THEN Free ELSE lock

\* Where a process goes when it has let go of the lock: the worker loops (or
\* exits on an error and is restarted), the request is answered.
AfterRelease(p) == IF p \in Workers THEN "idle" ELSE "done"

Release(p) ==
  /\ p \in Lockers /\ pc[p] = "releasing"
  /\ lock' = CompareAndDelete(p)
  /\ lapsed' = lapsed \ {p}
  /\ Go(p, AfterRelease(p))
  /\ UNCHANGED <<tables, local, world, bounds, base, skipped, ingested, overwritten, grace, revived>>

Abandon(p) == /\ lock' = IF lock = p THEN Orphan ELSE lock
              /\ lapsed' = lapsed \ {p}
              /\ Leave(p, AfterRelease(p))

\* Redis cannot be reached: the key stays until its time is up.
ReleaseFails(p) ==
  /\ p \in Lockers /\ pc[p] = "releasing" /\ Redis /\ Fault
  /\ Abandon(p)
  /\ UNCHANGED <<tables, todo, cur, at, world, deletes, lapses, ingested, overwritten, grace, revived>>

\* The process dies anywhere.
Crash(p) ==
  /\ pc[p] \notin {"idle", "done"} /\ Fault
  /\ Abandon(p)
  /\ UNCHANGED <<tables, todo, cur, at, world, deletes, lapses, ingested, overwritten, grace, revived>>

\* The key's time is up, its holder gone or still at work.
LockExpires ==
  /\ lock # Free
  /\ lock # Orphan => lapses < MaxLapses
  /\ lapses' = IF lock = Orphan THEN lapses ELSE lapses + 1
  /\ lapsed' = lapsed \cup ({lock} \cap Procs)
  /\ lock' = Free
  /\ UNCHANGED <<tables, pc, local, world, deletes, faults, base, skipped, ingested, overwritten, grace, revived>>

-----------------------------------------------------------------------------
(* tick_once: list the wallets, then load, sync and save each                *)

ListTick(p) ==
  /\ p \in Workers /\ pc[p] = "listing"
  /\ todo' = [todo EXCEPT ![p] = ListWallets]
  /\ at' = [at EXCEPT ![p] = now]
  /\ Go(p, "next")
  /\ UNCHANGED <<tables, lock, cur, snap, world, bounds, history>>

NextWallet(p) ==
  /\ p \in Workers /\ pc[p] = "next"
  /\ \E w \in todo[p] :
       /\ todo' = [todo EXCEPT ![p] = @ \ {w}]
       /\ cur' = [cur EXCEPT ![p] = w]
       /\ Load(p, w)
  /\ Go(p, "orders")
  /\ UNCHANGED <<tables, lock, at, world, bounds, lapsed, skipped, ingested, overwritten, grace, revived>>

TickEnds(p) ==
  /\ p \in Workers /\ pc[p] = "next" /\ todo[p] = {}
  /\ Go(p, "releasing")
  /\ UNCHANGED <<tables, lock, local, world, bounds, history>>

-----------------------------------------------------------------------------
(* POST /sync: 404 unless listed; discovery on a copy of its own; run_sync   *)

ListOne(p) ==
  /\ p \in Syncs /\ pc[p] = "listing"
  /\ Go(p, IF WalletOf[p] \in ListWallets THEN "preloading" ELSE "releasing")
  /\ UNCHANGED <<tables, lock, local, world, bounds, history>>

\* Token or approval discovery: it may find more tokens, and the row is saved
\* when it succeeded (tokens) or found something (approvals).
Preload(p) == LET w == cur[p] IN
  /\ p \in Syncs /\ pc[p] = "preloading"
  /\ base' = [base EXCEPT ![p] = stored[w]]
  /\ \E found \in BOOLEAN : snap' = [snap EXCEPT ![p] = [stored[w] EXCEPT !.tokens = @ \/ found]]
  /\ \E s \in {"seeding", "loading"} : Go(p, s)
  /\ UNCHANGED <<tables, lock, todo, cur, at, world, bounds, lapsed, skipped, ingested, overwritten, grace, revived>>

SeedSave(p) ==
  /\ p \in Syncs /\ pc[p] = "seeding"
  /\ Save(p, snap[p])
  /\ Leave(p, "loading")
  /\ UNCHANGED <<lock, todo, cur, at, world, bounds, lapsed, ingested, grace>>

\* run_sync loads the row again.
SyncLoad(p) ==
  /\ p \in Syncs \cup Adds /\ pc[p] = "loading"
  /\ Load(p, cur[p])
  /\ at' = [at EXCEPT ![p] = now]
  /\ Go(p, "orders")
  /\ UNCHANGED <<tables, lock, todo, cur, world, bounds, lapsed, skipped, ingested, overwritten, grace, revived>>

-----------------------------------------------------------------------------
(* The steps the tick and run_sync share                                     *)

At(v)    == {o \in Orders : VenueOf[o] = v}
Placed   == {book[i] : i \in DOMAIN book}
\* The newest Window orders of a venue, terminal ones included.
Newest(v) == {book[i] : i \in {j \in DOMAIN book : /\ VenueOf[book[j]] = v
                 /\ Cardinality({k \in 1 .. j : VenueOf[book[k]] = v}) <= Window}}
\* An order that turns terminal leaves the listing of a complete venue.
Listing(v) == IF v \in Complete THEN At(v) \cap open ELSE Newest(v)

\* fetch_orders: the items that could be read and decoded.  Every fetcher drops
\* an item it cannot decode and goes on; the ones of the other venues also go on
\* without a chain or a page that failed.
Fetches == SUBSET UNION {Listing(v) : v \in Venues}

\* The open orders that complete venues left out of an answer that succeeded.
Missing(got, failed) == {o \in open \ got : VenueOf[o] \in Complete \ failed}

\* Upserts alone, without the snapshot prune.
UpsertOnly(os, got, failed) == (os \cup (got \cap open)) \ (got \ open)
\* A snapshot prune that does not ask whether the fetch succeeded.
PruneAlways(os, got, failed) == (os \cup (got \cap open)) \ ((got \ open) \cup UNION {At(v) \ got : v \in Complete})
\* apply_intent_orders: terminal orders are pruned, others upserted, and what a
\* complete venue no longer lists is pruned.
ApplyOrders(os, got, failed) ==
  (os \cup (got \cap open)) \ ((got \ open) \cup UNION {At(v) \ got : v \in Complete \ failed})

\* run_intent_sync: a venue that fails contributes nothing.
SyncOrders(p) ==
  /\ pc[p] = "orders"
  /\ \E got \in Fetches, failed \in SUBSET Venues :
       LET seen == got \ UNION {At(v) : v \in failed}
           left == Missing(got, failed)
       IN  /\ failed \cup left # {} => faults < MaxFaults
           /\ faults' = IF failed \cup left = {} THEN faults ELSE faults + 1
           /\ snap' = [snap EXCEPT ![p].orders = ApplyOrders(@, seen, failed)]
           /\ skipped' = [skipped EXCEPT ![p] = left]
  /\ Go(p, "permits")
  /\ UNCHANGED <<tables, lock, todo, cur, at, world, deletes, lapses, lapsed, base, ingested, overwritten, grace, revived>>

\* A deadline that never ends.
NeverExpired(q, t) == FALSE
Expired(q, t) == ValidUntil[q] < t
\* A nonce check that takes the next nonce for a used one.
NonceReached(q) == KindOf[q] = "eip2612" /\ nonce >= NonceOf[q]
NonceUsed(q) == KindOf[q] = "eip2612" /\ nonce > NonceOf[q]
BitSet(q)    == KindOf[q] = "transfer" /\ q \in spent
Consumed(q)  == NonceUsed(q) \/ BitSet(q)

\* reconcile_permits: read is the set of permits whose chain answered.
SyncPermits(p) ==
  /\ pc[p] = "permits"
  /\ \E read \in SUBSET snap[p].permits :
       snap' = [snap EXCEPT ![p].permits =
                  {q \in @ : ~Expired(q, at[p]) /\ ~(q \in read /\ Consumed(q))}]
  /\ Go(p, "saving")
  /\ UNCHANGED <<tables, lock, todo, cur, at, world, bounds, history>>

\* Where a process goes after syncing a wallet, saved or not.
AfterSync(p) == IF p \in Workers THEN "next" ELSE IF p \in Syncs THEN "releasing" ELSE "done"

SyncSave(p) ==
  /\ pc[p] = "saving"
  /\ Save(p, snap[p])
  /\ Leave(p, AfterSync(p))
  /\ UNCHANGED <<lock, todo, cur, at, world, bounds, lapsed, ingested, grace>>

\* A storage call fails, or a step of run_sync does: nothing more is written.
Fails(p) ==
  /\ pc[p] \in {"listing", "preloading", "seeding", "loading", "orders", "permits", "saving",
               "emptying", "adding", "listed", "recording"}
  /\ p \in Workers => pc[p] \in {"listing", "saving"}
  /\ Fault
  /\ Leave(p, IF pc[p] = "listing" /\ p \in Workers THEN "releasing" ELSE AfterSync(p))
  /\ UNCHANGED <<tables, lock, todo, cur, at, world, deletes, lapses, lapsed, ingested, overwritten, grace, revived>>

\* The tick skips a wallet it cannot load.
LoadFails(p) ==
  /\ p \in Workers /\ pc[p] = "next" /\ Fault
  /\ \E w \in todo[p] : todo' = [todo EXCEPT ![p] = @ \ {w}]
  /\ UNCHANGED <<tables, lock, pc, cur, snap, at, world, deletes, lapses, history>>

-----------------------------------------------------------------------------
(* POST /wallets, POST /permits, DELETE /wallets: no lock                    *)

\* A brand-new wallet is seeded by discovery.  When discovery fails, the empty
\* row is saved first and then what was found until then.
AddLoad(p) == LET w == cur[p] IN
  /\ p \in Adds /\ pc[p] = "idle"
  /\ base' = [base EXCEPT ![p] = stored[w]]
  /\ \E found \in BOOLEAN :
       /\ found => stored[w] = Fresh
       /\ snap' = [snap EXCEPT ![p] = [stored[w] EXCEPT !.tokens = @ \/ found]]
  /\ \E s \in {"emptying", "adding"} : (s = "emptying" => stored[w] = Fresh) /\ Go(p, s)
  /\ UNCHANGED <<tables, lock, todo, cur, at, world, bounds, lapsed, skipped, ingested, overwritten, grace, revived>>

AddSaveEmpty(p) ==
  /\ p \in Adds /\ pc[p] = "emptying"
  /\ Save(p, Fresh)
  /\ Go(p, "adding")
  /\ UNCHANGED <<lock, local, world, bounds, lapsed, base, skipped, ingested, grace>>

AddSave(p) ==
  /\ p \in Adds /\ pc[p] = "adding"
  /\ Save(p, snap[p])
  /\ Leave(p, "labelling")
  /\ UNCHANGED <<lock, todo, cur, at, world, bounds, lapsed, ingested, grace>>

\* update_wallet_metadata finds no row when the wallet was deleted since, and
\* the request ends; a request without a label skips it.
AddLabel(p) ==
  /\ p \in Adds /\ pc[p] = "labelling"
  /\ \E labelled \in BOOLEAN :
       Go(p, IF labelled /\ row[cur[p]] # "tracked" THEN "done" ELSE "loading")
  /\ UNCHANGED <<tables, lock, local, world, bounds, history>>

IngestList(p) ==
  /\ p \in Ingests /\ pc[p] = "idle"
  /\ Go(p, IF WalletOf[p] \in ListWallets THEN "listed" ELSE "done")
  /\ UNCHANGED <<tables, lock, local, world, bounds, history>>

IngestLoad(p) == LET w == cur[p] IN
  /\ p \in Ingests /\ pc[p] = "listed"
  /\ base' = [base EXCEPT ![p] = stored[w]]
  /\ snap' = [snap EXCEPT ![p] = [stored[w] EXCEPT !.permits = @ \cup {PermitOf[p]}]]
  /\ Go(p, "recording")
  /\ UNCHANGED <<tables, lock, todo, cur, at, world, bounds, lapsed, skipped, ingested, overwritten, grace, revived>>

IngestSave(p) ==
  /\ p \in Ingests /\ pc[p] = "recording"
  /\ Save(p, snap[p])
  /\ ingested' = [ingested EXCEPT ![cur[p]] = @ \cup {PermitOf[p]}]
  /\ Leave(p, "done")
  /\ UNCHANGED <<lock, todo, cur, at, world, bounds, lapsed, grace>>

\* Processes that found the wallet listed (or add it) and have not ended.
Busy(w) == {p \in Procs :
  \/ p \in Workers /\ w \in todo[p] /\ pc[p] \notin {"idle", "listing", "releasing"}
  \/ cur[p] = w /\ pc[p] \notin {"idle", "listing", "next", "releasing", "done"}}

Delete(w) ==
  /\ row[w] = "tracked" /\ deletes < MaxDeletes
  /\ row' = [row EXCEPT ![w] = "archived"]
  /\ deletes' = deletes + 1
  /\ grace' = [grace EXCEPT ![w] = Busy(w)]
  /\ UNCHANGED <<stored, lock, pc, local, world, lapses, faults, lapsed, base, skipped, ingested, overwritten, revived>>

-----------------------------------------------------------------------------
(* The world: time passes, permits are used, orders are placed and end       *)

Clock ==
  /\ now < MaxNow /\ now' = now + 1
  /\ UNCHANGED <<tables, lock, pc, local, nonce, spent, book, open, bounds, history>>

UseNonce ==
  /\ nonce < MaxNonce /\ nonce' = nonce + 1
  /\ UNCHANGED <<tables, lock, pc, local, now, spent, book, open, bounds, history>>

UseTransfer(q) ==
  /\ KindOf[q] = "transfer" /\ q \notin spent
  /\ spent' = spent \cup {q}
  /\ UNCHANGED <<tables, lock, pc, local, now, nonce, book, open, bounds, history>>

Place(o) ==
  /\ o \notin Placed
  /\ book' = <<o>> \o book /\ open' = open \cup {o}
  /\ UNCHANGED <<tables, lock, pc, local, now, nonce, spent, bounds, history>>

Close(o) ==
  /\ o \in open /\ open' = open \ {o}
  /\ UNCHANGED <<tables, lock, pc, local, now, nonce, spent, book, bounds, history>>

Step(p) ==
  \/ TryLock(p) \/ Contended(p) \/ Release(p)
  \/ ListTick(p) \/ NextWallet(p) \/ TickEnds(p)
  \/ ListOne(p) \/ Preload(p) \/ SeedSave(p) \/ SyncLoad(p)
  \/ SyncOrders(p) \/ SyncPermits(p) \/ SyncSave(p)
  \/ AddLoad(p) \/ AddSaveEmpty(p) \/ AddSave(p) \/ AddLabel(p)
  \/ IngestList(p) \/ IngestLoad(p) \/ IngestSave(p)

Environment ==
  \/ \E w \in Wallets : Delete(w)
  \/ Clock \/ UseNonce
  \/ \E q \in Permits : UseTransfer(q)
  \/ \E o \in Orders : Place(o) \/ Close(o)

Next ==
  \/ \E p \in Procs : Step(p) \/ ReleaseFails(p) \/ Crash(p) \/ Fails(p) \/ LoadFails(p)
  \/ LockExpires
  \/ Environment

Spec == Init /\ [][Next]_vars

-----------------------------------------------------------------------------
(* Properties                                                                *)

Critical == {p \in Lockers : pc[p] \notin {"idle", "done"}}

\* sync_wallet and the worker "take turns": as long as the lock has not run
\* out under a process, that process holds it, whatever the others release.
LockHeld == Redis => \A p \in Critical \ lapsed : lock = p

\* On chain: past its deadline, its nonce used, or its bit set.
Dead(q) ==
  \/ ValidUntil[q] < now
  \/ KindOf[q] = "eip2612" /\ nonce > NonceOf[q]
  \/ KindOf[q] = "transfer" /\ q \in spent

\* reconcile_permits and apply_intent_orders: what a sync drops from its copy of
\* the row could no longer be used or filled, whichever calls failed; the one
\* exception is an order that a complete venue's fetcher could not decode.
SyncDropsOnlyDead ==
  \A p \in Procs : pc[p] \in {"permits", "saving"} =>
    /\ \A q \in base[p].permits \ snap[p].permits : Dead(q)
    /\ base[p].orders \ snap[p].orders \subseteq (Placed \ open) \cup skipped[p]

\* authoritative_prefix: a fetcher with a complete snapshot "MUST return `Err` on
\* any incompleteness", so that no sync prunes a live order.
SnapshotIsComplete ==
  \A p \in Procs : pc[p] \in {"permits", "saving"} =>
    base[p].orders \ snap[p].orders \subseteq Placed \ open

\* ingest_permit: a permit answered with OK that is missing from the row is
\* dead, or a writer that had read the row earlier saved it later.
LostOnlyByOverlap ==
  \A w \in Wallets : \A q \in ingested[w] \ stored[w].permits : Dead(q) \/ q \in overwritten[w]

\* delete_wallet: only a writer that was already at the wallet, or the user's
\* own POST /wallets, brings a deleted wallet back.
NoLateRevival == revived = {}

\* ingest_permit: "this DOES persist": a permit answered with OK is listed as
\* long as it can be used.
IngestPersists == \A w \in Wallets : \A q \in ingested[w] \ stored[w].permits : Dead(q)

\* Every process is scheduled, and the time to live of an orphaned lock ends.
FairSpec == /\ Spec
            /\ \A p \in Procs : WF_vars(Step(p))
            /\ WF_vars(lock = Orphan /\ LockExpires)

\* The tick keeps coming: an expired permit of a tracked wallet is retired.
ExpiredRetired ==
  \A w \in Wallets, q \in Permits :
    (q \in stored[w].permits /\ ValidUntil[q] < now) ~> (q \notin stored[w].permits \/ row[w] # "tracked")

\* An order that is terminal at a complete venue leaves the row.
ClosedOrderRetired ==
  \A w \in Wallets, o \in Orders :
    (VenueOf[o] \in Complete /\ o \in stored[w].orders /\ o \notin open)
      ~> (o \notin stored[w].orders \/ row[w] # "tracked")
=============================================================================
