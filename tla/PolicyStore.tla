---------------------------- MODULE PolicyStore ----------------------------
(***************************************************************************)
(* The policy store of one account in the service worker: requests (ps2:*  *)
(* messages, wallet syncs, decisions) first make sure the built-in         *)
(* policies are there, and changes go through mutate(), a queue of         *)
(* read, change, validate and write.  A worker that dies loses the queue   *)
(* and its memory of having seeded; a storage call may reject.             *)
(*                                                                         *)
(* Which operation a request carries is looked at only at its turn.        *)
(***************************************************************************)
EXTENDS PolicyOps, Sequences

CONSTANTS Edits,      \* requests that change the store
          Decisions,  \* requests that resolve the policies of a wallet
          MaxFaults   \* bound: rejecting calls and deaths of the worker

Requests == Edits \cup Decisions

ASSUME RequestAssumption == Edits \cap Decisions = {} /\ MaxFaults \in Nat

VARIABLES
  store,           \* chrome.storage.local
  pc, got,         \* requests; the baked policies a seeding converted
  chain,           \* the serial queue
  draft,           \* what the running mutate is about to write
  seeded,          \* seededUids
  faults,          \* bounded counter
  sown,            \* history: a seeding was committed
  owed,            \* history: built-in policies provisioned to a wallet and not touched since
  gone             \* history: built-in policies deleted, with no seeding under way

memory  == <<pc, got, chain, draft, seeded>>
history == <<sown, owed, gone>>
vars    == <<store, memory, faults, history>>

PcStates == {"idle", "checking", "fetching", "seeding", "ready", "queued", "done"}

IsWallet(e) == /\ BagToSet(e.bindings) \subseteq Binding /\ IsABag(e.bindings)
               /\ e.pkgs \subseteq Pkgs /\ e.off \subseteq Pkgs
IsStore(s) == /\ s.defs \in [DefIds -> Def \cup {None}]
              /\ s.pkgs \subseteq Pkgs /\ s.rev \in Nat /\ s.known \subseteq Wallets
              /\ \A w \in Wallets : IsWallet(s.wallets[w]) /\ (~Registered(s, w) => Bound(s, w) = {})
              /\ Fits(s)

TypeOK ==
  /\ IsStore(store) /\ \A r \in Requests : draft[r] # None => IsStore(draft[r].doc)
  /\ pc \in [Requests -> PcStates] /\ got \in [Requests -> SUBSET Baked]
  /\ chain \in Seq(Requests) /\ seeded \in BOOLEAN
  /\ faults \in 0 .. MaxFaults
  /\ sown \in BOOLEAN /\ owed \in [Wallets -> SUBSET Baked] /\ gone \subseteq Baked

Init ==
  /\ store \in Stores
  /\ pc = [r \in Requests |-> "idle"] /\ got = [r \in Requests |-> {}]
  /\ chain = <<>> /\ draft = [r \in Requests |-> None] /\ seeded = FALSE
  /\ faults = 0
  /\ sown = (store # EmptyStore)
  /\ owed = [w \in Wallets |-> IF Registered(store, w) THEN Baked ELSE {}]
  /\ gone = {}

Go(r, s) == pc' = [pc EXCEPT ![r] = s]
Fault == faults < MaxFaults /\ faults' = faults + 1

-----------------------------------------------------------------------------
(* ensureSeeded                                                              *)

\* A start that does not remember the seeding.
ArriveForgetful(r) ==
  /\ pc[r] = "idle" /\ Go(r, "checking")
  /\ UNCHANGED <<store, got, chain, draft, seeded, faults, history>>
Arrive(r) ==
  /\ pc[r] = "idle"
  /\ Go(r, IF seeded THEN "ready" ELSE "checking")
  /\ UNCHANGED <<store, got, chain, draft, seeded, faults, history>>

HasBuiltin(s) == \E d \in Library(s) : s.defs[d].source = "builtin"

Check(r) ==
  /\ pc[r] = "checking"
  /\ seeded' = (seeded \/ HasBuiltin(store))
  /\ Go(r, IF HasBuiltin(store) THEN "ready" ELSE "fetching")
  /\ UNCHANGED <<store, got, chain, draft, faults, history>>

\* A seeding remembered before it is written.
FetchRemembered(r) ==
  /\ pc[r] = "fetching" /\ Go(r, "seeding")
  /\ \E g \in SUBSET Baked : got' = [got EXCEPT ![r] = g]
  /\ chain' = Append(chain, r) /\ seeded' = TRUE
  /\ UNCHANGED <<store, draft, faults, history>>
\* The baked set is fetched and converted; an entry that fails is skipped.
Fetch(r) ==
  /\ pc[r] = "fetching" /\ Go(r, "seeding")
  /\ \E g \in SUBSET Baked : got' = [got EXCEPT ![r] = g]
  /\ chain' = Append(chain, r)
  /\ UNCHANGED <<store, draft, seeded, faults, history>>

FetchFails(r) ==
  /\ pc[r] = "fetching" /\ Go(r, "done") /\ Fault
  /\ UNCHANGED <<store, got, chain, draft, seeded, history>>

-----------------------------------------------------------------------------
(* handlePs2Request, provisionFromWalletSync, resolveBundlesForWallet        *)

Submit(r) ==
  /\ r \in Edits /\ pc[r] = "ready" /\ Go(r, "queued")
  /\ chain' = Append(chain, r)
  /\ UNCHANGED <<store, got, draft, seeded, faults, history>>

\* A decision reads the store; a message that only reads does the same.
Resolve(r) ==
  /\ r \in Decisions /\ pc[r] = "ready" /\ Go(r, "done")
  /\ UNCHANGED <<store, got, chain, draft, seeded, faults, history>>

-----------------------------------------------------------------------------
(* mutate                                                                    *)

\* A queue that lets everyone in at once.
NoTurn(r) == \E i \in DOMAIN chain : chain[i] = r
Turn(r) == chain # <<>> /\ Head(chain) = r

Forget(r) == draft' = [draft EXCEPT ![r] = None] /\ got' = [got EXCEPT ![r] = {}]
\* A rejection that leaves the queue waiting.
RejectStuck(r) == Go(r, "done") /\ Forget(r) /\ UNCHANGED chain
\* The promise rejects, the queue goes on (run.catch).
Reject(r) == Go(r, "done") /\ Forget(r) /\ chain' = Tail(chain)

Work(r) == IF pc[r] = "seeding" THEN {[op |-> "seed", got |-> got[r]]} ELSE Commands(Normal(store))

Begin(r) ==
  /\ pc[r] \in {"seeding", "queued"} /\ Turn(r) /\ draft[r] = None
  /\ \E c \in Work(r) :
       IF Mutated(store, c) = Err THEN Reject(r)
       ELSE draft' = [draft EXCEPT ![r] = [by |-> c, doc |-> Mutated(store, c)]] /\ UNCHANGED <<pc, got, chain>>
  /\ UNCHANGED <<store, seeded, faults, history>>

\* Definitions the user edits by command c, or takes from wallet w of the documents s.
Edited(c) == IF c.op \in {"putDef", "deleteDef", "installMarket"} THEN {c.d}
             ELSE IF c.op = "duplicateDef" THEN {c.new} ELSE {}
Taken(s, c, w) ==
  IF c.op \in {"removeBinding", "toggleBinding", "patchParams", "patchPackage"} /\ c.w = w THEN {c.b.def}
  ELSE IF c.op \in {"removePackageFromWallet", "setPackageEnabled"} /\ c.w = w
       THEN {b.def : b \in {x \in Bound(s, w) : x.pkg = c.p}}
  ELSE {}
OwedAfter(c, doc) == [w \in Wallets |->
  IF ~Registered(doc, w) THEN {}
  ELSE IF Registered(store, w) THEN owed[w] \ (Edited(c) \cup Taken(store, c, w))
  ELSE IF c.op = "provisionWallets" THEN Defaults(doc) \cap Baked ELSE {}]

SeedingUnderWay == \E r \in Requests : pc[r] \in {"checking", "fetching", "seeding"}
GoneAfter(c) == IF c.op = "deleteDef" /\ ~SeedingUnderWay THEN gone \cup ({c.d} \cap Baked) ELSE gone \ Edited(c)

Commit(r) == LET d == draft[r] IN
  /\ d # None
  /\ store' = d.doc
  /\ owed' = OwedAfter(d.by, d.doc) /\ gone' = GoneAfter(d.by)
  /\ sown' = (sown \/ d.by.op = "seed") /\ seeded' = (seeded \/ d.by.op = "seed")
  /\ Go(r, IF d.by.op = "seed" THEN "ready" ELSE "done")
  /\ Forget(r) /\ chain' = Tail(chain)
  /\ UNCHANGED faults

\* storage.local.set rejects.
CommitFails(r) ==
  /\ draft[r] # None /\ Fault
  /\ Reject(r)
  /\ UNCHANGED <<store, seeded, history>>

\* The worker is terminated: requests that were under way are not answered.
Die ==
  /\ Fault
  /\ pc' = [r \in Requests |-> IF pc[r] = "idle" THEN "idle" ELSE "done"]
  /\ chain' = <<>> /\ draft' = [r \in Requests |-> None] /\ got' = [r \in Requests |-> {}]
  /\ seeded' = FALSE /\ gone' = {}
  /\ UNCHANGED <<store, sown, owed>>

Step(r) == \/ Arrive(r) \/ Check(r) \/ Fetch(r) \/ Submit(r) \/ Resolve(r)
           \/ Begin(r) \/ Commit(r)

Next == \/ \E r \in Requests : Step(r) \/ FetchFails(r) \/ CommitFails(r)
        \/ Die

Spec == Init /\ [][Next]_vars

-----------------------------------------------------------------------------
(* Properties                                                                *)

\* mutate reads inside the queue: what is about to be written was made from the
\* documents as they are stored now, so no write undoes another.
DraftIsCurrent == \A r \in Requests : draft[r] # None => draft[r].doc = Mutated(store, draft[r].by)

Offered(s) == Commands(Normal(s)) \cup Seedings
Serial == INSTANCE SerialStore WITH Operations <- Offered, Result <- Mutated
\* mutate: every write is one whole operation on the documents the previous
\* write left, whatever rejects and wherever the worker dies.
RefinesSerialStore == Serial!Spec

AtRest == \A r \in Requests : pc[r] \in {"idle", "done"}
\* validate: of all that may be asked of the documents while nobody is at
\* them, it turns down only a row whose definition or package was never there.  What a
\* deletion leaves, a provisioning or a copy brings and a reading normalizes
\* always passes, so no sequence of operations ends in documents that can no
\* longer be written.
NeverWedged == AtRest =>
  \A c \in Offered(store) : LET s == Fn(Normal(store), c)
    IN  c.op \in {"bind", "patchPackage"} \/ s = Err \/ Valid(s)

\* handlePs2Request and resolveBundlesForWallet: nobody reads or changes the
\* store before a seeding was written, also when several requests race to seed.
SeededFirst == \A r \in Requests : pc[r] \in {"ready", "queued"} => sown

\* provisionWallets and resolve: the built-in policies a wallet was provisioned
\* with are evaluated until the user takes them from that wallet or edits them.
ProtectionKept == \A w \in Wallets : Registered(store, w) => owed[w] \subseteq Evaluated(store, w)

\* ensureSeeded seeds an account once per worker: a built-in policy the user
\* deleted while nobody was seeding does not come back by itself.
DeletedStayGone == gone \cap Library(store) = {}

\* assertHolesFilled: a binding whose definition was not replaced since is never
\* skipped for a blank, whichever operation made it.
FilledWhenBound ==
  \A w \in Wallets : \A b \in Bound(store, w) : b.fresh => ~Missing(store.defs[b.def], b.filled)

\* mutate's queue: who waits is in it once, and nobody waits behind a request
\* that has ended ("the queue goes on" after a failure).
QueueServes ==
  /\ \A i, j \in DOMAIN chain : chain[i] = chain[j] => i = j
  /\ \A r \in Requests : pc[r] \in {"seeding", "queued"} <=> \E i \in DOMAIN chain : chain[i] = r

\* "Baked default policies keep applying regardless": while the user has not
\* touched a built-in policy, every wallet has it evaluated.
BakedApply == \A w \in Wallets : sown => Library(store) \cap Baked \subseteq Evaluated(store, w)
=============================================================================
