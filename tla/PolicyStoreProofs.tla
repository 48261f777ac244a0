------------------------ MODULE PolicyStoreProofs ------------------------
(***************************************************************************)
(* What the queue and the seeding guarantee for any number of requests,    *)
(* definitions, packages and wallets, and for any faults.                  *)
(*                                                                         *)
(* StoreInv is about the queue, the seeding and what has been validated.   *)
(* The second half is about the documents themselves: Alike says what an   *)
(* operation keeps of them (the bindings it is not about, and the holes of *)
(* the definitions it does not edit), one lemma per operation shows it,    *)
(* and Safe, which says that the documents are Sound and serve what is     *)
(* owed, follows for every write.  The last part shows that operations     *)
(* leave documents which validate accepts.                                 *)
(***************************************************************************)
EXTENDS PolicyStore, SequenceTheorems, TLAPS

\* The parts of the worker's memory have their shape.
Frame ==
  /\ pc \in [Requests -> PcStates] /\ got \in [Requests -> SUBSET Baked]
  /\ chain \in Seq(Requests) /\ DOMAIN draft = Requests
  /\ seeded \in BOOLEAN /\ sown \in BOOLEAN

\* Only the head of the queue has a draft, made from what is stored.
Drafts ==
  \A r \in Requests : draft[r] # None =>
    /\ Turn(r)
    /\ draft[r].doc = Mutated(store, draft[r].by) /\ draft[r].doc # Err
    /\ \/ pc[r] = "queued" /\ draft[r].by \in Commands(Normal(store))
       \/ pc[r] = "seeding" /\ draft[r].by \in Seedings

\* A worker that remembers a seeding is right, and nobody passes before it.
Sowing ==
  /\ seeded => sown
  /\ ~sown => store = EmptyStore
  /\ \A r \in Requests : pc[r] \in {"ready", "queued"} => seeded

Parts == {"defs", "pkgs", "known", "wallets", "rev"}
IsDoc(s) == DOMAIN s = Parts /\ DOMAIN s.defs = DefIds

\* What was written by this version has passed validation.
Documents == IsDoc(store) /\ (store \in Stores \/ Valid(store))

\* Deleted built-in policies are missing, and no seeding is left or can begin.
Deleted ==
  /\ gone \subseteq Baked /\ gone \cap Library(store) = {}
  /\ gone # {} => seeded /\ ~SeedingUnderWay

StoreInv == Frame /\ QueueServes /\ Drafts /\ Sowing /\ Documents /\ Deleted

\* The queue grows at its end and shrinks at its head.
LEMMA QueueFacts ==
  ASSUME NEW s \in Seq(Requests), NEW r \in Requests
  PROVE  /\ Append(s, r) \in Seq(Requests) /\ Append(s, r) # <<>>
         /\ s # <<>> => Head(Append(s, r)) = Head(s) /\ Tail(s) \in Seq(Requests)
<1>1. Append(s, r) \in Seq(Requests) /\ Append(s, r) # <<>>  BY AppendProperties
<1>2. s # <<>> => Head(Append(s, r)) = Head(s)  BY AppendProperties, <1>1
<1>3. s # <<>> => Tail(s) \in Seq(Requests)  BY HeadTailProperties
<1>. QED  BY <1>1, <1>2, <1>3

LEMMA NothingBuiltin == ~HasBuiltin(EmptyStore)
BY DEF HasBuiltin, Library, EmptyStore

\* A request's command is not a seeding.
LEMMA CommandIsNoSeeding ==
  ASSUME NEW s, NEW c \in Commands(s)
  PROVE  c.op # "seed"
<1>1. CASE c \in LibraryCommands(s)  BY <1>1 DEF LibraryCommands
<1>2. CASE c \in WalletCommands  BY <1>2 DEF WalletCommands
<1>3. CASE \E w \in Wallets : c \in RowCommands(s, w)  BY <1>3 DEF RowCommands
<1>. QED  BY <1>1, <1>2, <1>3 DEF Commands

-----------------------------------------------------------------------------
(* What an operation does to the library                                     *)

\* s became t without a new definition, but for those of E.
NoneNew(s, t, E) == \A d \in DefIds : t.defs[d] # None => s.defs[d] # None \/ d \in E

LEMMA ExceptParts ==
  ASSUME NEW s, DOMAIN s = Parts, NEW x
  PROVE  /\ DOMAIN [s EXCEPT !.wallets = x] = Parts /\ [s EXCEPT !.wallets = x].defs = s.defs
         /\ DOMAIN [s EXCEPT !.pkgs = x] = Parts /\ [s EXCEPT !.pkgs = x].defs = s.defs
         /\ DOMAIN [s EXCEPT !.defs = x] = Parts /\ [s EXCEPT !.defs = x].defs = x
         /\ DOMAIN [s EXCEPT !.rev = x] = Parts /\ [s EXCEPT !.rev = x].defs = s.defs
         /\ [s EXCEPT !.rev = x].wallets = s.wallets /\ [s EXCEPT !.rev = x].pkgs = s.pkgs
BY DEF Parts

LEMMA NormalDoc ==
  ASSUME NEW s, IsDoc(s)
  PROVE  IsDoc(Normal(s)) /\ NoneNew(s, Normal(s), {})
BY DEF IsDoc, Parts, Normal, NoneNew

LEMMA ReboundDoc ==
  ASSUME NEW s, IsDoc(s), NEW rows
  PROVE  IsDoc(Rebound(s, rows)) /\ Rebound(s, rows).defs = s.defs
BY ExceptParts DEF IsDoc, Rebound

LEMMA OutdatedDoc ==
  ASSUME NEW s, IsDoc(s), NEW d
  PROVE  /\ IsDoc(Outdated(s, d)) /\ Outdated(s, d).defs = s.defs
         /\ IsDoc(Cleared(s, d)) /\ Cleared(s, d).defs = s.defs
BY ReboundDoc DEF Outdated, Cleared

LEMMA PrunedDoc ==
  ASSUME NEW s, IsDoc(s)
  PROVE  IsDoc(Pruned(s)) /\ NoneNew(s, Pruned(s), {})
BY DEF IsDoc, Parts, Pruned, NoneNew

LEMMA RowsDoc ==
  ASSUME NEW s, DOMAIN s = Parts, NEW ws, NEW rows
  PROVE  DOMAIN WithRows(s, ws, rows) = Parts /\ WithRows(s, ws, rows).defs = s.defs
BY DEF WithRows, Parts

LEMMA LibraryFn ==
  ASSUME NEW s, IsDoc(s), NEW n, NEW c \in LibraryCommands(n), Fn(s, c) # Err
  PROVE  IsDoc(Fn(s, c)) /\ NoneNew(s, Fn(s, c), Edited(c)) /\ (c.op = "deleteDef" => Fn(s, c).defs[c.d] = None)
<1>1. CASE c \in [op : {"putDef"}, d : DefIds, def : Designs]
  <2>1. Fn(s, c) = PutDef(s, c.d, c.def) /\ Edited(c) = {c.d} /\ c.op # "deleteDef"  BY <1>1 DEF Fn, Edited
  <2>. QED  BY <2>1, OutdatedDoc DEF PutDef, IsDoc, Parts, NoneNew
<1>2. CASE c \in [op : {"deleteDef"}, d : DefIds]
  <2>1. Fn(s, c) = DeleteDef(s, c.d) /\ Edited(c) = {c.d} /\ c.d \in DefIds  BY <1>2 DEF Fn, Edited
  <2> DEFINE t == Rebound(s, [w \in Wallets |-> Dropping(s.wallets[w].bindings, {b \in Bound(s, w) : b.def = c.d})])
  <2>2. IsDoc(t) /\ t.defs = s.defs  BY ReboundDoc
  <2>3. Fn(s, c) = [t EXCEPT !.defs[c.d] = None]  BY <2>1 DEF DeleteDef
  <2> HIDE DEF t
  <2>. QED  BY <2>1, <2>2, <2>3 DEF IsDoc, Parts, NoneNew
<1>3. CASE c \in [op : {"duplicateDef"}, d : DefIds, new : Others \ Library(n)]
  <2>1. Fn(s, c) = DuplicateDef(s, c.d, c.new) /\ Edited(c) = {c.new} /\ c.op # "deleteDef"  BY <1>3 DEF Fn, Edited
  <2>. QED  BY <2>1 DEF DuplicateDef, IsDoc, Parts, NoneNew
<1>4. CASE c \in [op : {"putPackage", "deletePackage"}, p : Pkgs]
  <2>1. Edited(c) = {} /\ c.op # "deleteDef"  BY <1>4 DEF Edited
  <2>2. CASE c.op = "putPackage"
    <3>1. Fn(s, c) = PutPackage(s, c.p)  BY <2>2 DEF Fn
    <3>. QED  BY <2>1, <3>1 DEF PutPackage, IsDoc, Parts, NoneNew
  <2>3. CASE c.op = "deletePackage"
    <3>1. Fn(s, c) = DeletePackage(s, c.p)  BY <2>3 DEF Fn
    <3>. QED  BY <2>1, <3>1 DEF DeletePackage, IsDoc, Parts, NoneNew
  <2>. QED  BY <1>4, <2>2, <2>3
<1>5. CASE c \in [op : {"installMarket"}, d : Others, def : Designs, p : Pkgs, ws : SUBSET Wallets, filled : BOOLEAN]
  <2>1. Fn(s, c) = InstallMarket(s, c.d, c.def, c.p, c.ws, c.filled) /\ Edited(c) = {c.d} /\ c.op # "deleteDef"
    BY <1>5 DEF Fn, Edited
  <2> DEFINE lib  == IF c.p = Uncat THEN s ELSE PutPackage(s, c.p)
             kept == IF s.defs[c.d] = None THEN lib
                     ELSE IF c.def.hole = "none" THEN Cleared(Outdated(lib, c.d), c.d) ELSE Outdated(lib, c.d)
             new  == [kept EXCEPT !.defs[c.d] = [c.def EXCEPT !.source = "market"]]
  <2>2. IsDoc(lib) /\ lib.defs = s.defs  BY DEF PutPackage, IsDoc, Parts
  <2>3. IsDoc(kept) /\ kept.defs = s.defs  BY <2>2, OutdatedDoc
  <2> HIDE DEF lib, kept
  <2>4. IsDoc(new) /\ NoneNew(s, new, {c.d})  BY <2>3 DEF IsDoc, Parts, NoneNew
  <2> HIDE DEF new
  <2>5. Fn(s, c) \in {new, WithRows(new, c.ws, {Row(c.d, IF c.def.pkg = Blank THEN c.p ELSE c.def.pkg, TRUE, c.filled)})}
    BY <2>1 DEF InstallMarket, new, kept, lib
  <2>. QED  BY <2>1, <2>4, <2>5, RowsDoc DEF IsDoc, NoneNew
<1>. QED  BY <1>1, <1>2, <1>3, <1>4, <1>5 DEF LibraryCommands

LEMMA WalletFn ==
  ASSUME NEW s, IsDoc(s), NEW c \in WalletCommands, Fn(s, c) # Err
  PROVE  IsDoc(Fn(s, c)) /\ NoneNew(s, Fn(s, c), {})
<1>1. ASSUME NEW t, DOMAIN t = Parts, t.defs = s.defs  PROVE IsDoc(t) /\ NoneNew(s, t, {})
  BY <1>1 DEF IsDoc, NoneNew
<1>2. CASE c.op = "putWalletFolder"
  <2>1. Fn(s, c) = PutWalletFolder(s, c.w)  BY <1>2 DEF Fn
  <2>. QED  BY <1>1, <2>1 DEF PutWalletFolder, IsDoc, Parts
<1>3. CASE c.op = "putWalletPackage"
  <2>1. Fn(s, c) = PutWalletPackage(s, c.w, c.p)  BY <1>3 DEF Fn
  <2>. QED  BY <1>1, <2>1 DEF PutWalletPackage, IsDoc, Parts
<1>4. CASE c.op = "removePackageFromWallet"
  <2>1. Fn(s, c) = RemovePackage(s, c.w, c.p)  BY <1>4 DEF Fn
  <2> DEFINE t == [s EXCEPT !.wallets[c.w] = [bindings |-> Dropping(@.bindings, {b \in Bound(s, c.w) : b.pkg = c.p}),
                                        pkgs |-> @.pkgs \ {c.p}, off |-> @.off \ {c.p}]]
  <2>2. Fn(s, c) = s \/ Fn(s, c) = Pruned(t)  BY <2>1 DEF RemovePackage
  <2>3. DOMAIN t = Parts /\ t.defs = s.defs  BY DEF IsDoc, Parts
  <2> HIDE DEF t
  <2>. QED  BY <1>1, <2>2, <2>3, PrunedDoc DEF IsDoc, NoneNew
<1>5. CASE c.op = "setPackageEnabled"
  <2>1. Fn(s, c) = SetPackageEnabled(s, c.w, c.p, c.on)  BY <1>5 DEF Fn
  <2>. QED  BY <1>1, <2>1 DEF SetPackageEnabled, IsDoc, Parts
<1>6. CASE c.op = "provisionWallets"
  <2>1. Fn(s, c) = Provision(s, c.ws)  BY <1>6 DEF Fn
  <2>. QED  BY <1>1, <2>1, RowsDoc DEF Provision, IsDoc
<1>7. CASE c.op = "bind"
  <2>1. Fn(s, c) = Bind(s, c.ws, c.d, c.p, c.filled, c.on)  BY <1>7 DEF Fn
  <2>. QED  BY <1>1, <2>1, RowsDoc DEF Bind, IsDoc
<1>. QED  BY <1>2, <1>3, <1>4, <1>5, <1>6, <1>7 DEF WalletCommands

LEMMA RowFn ==
  ASSUME NEW s, IsDoc(s), NEW n, NEW w \in Wallets, NEW c \in RowCommands(n, w), Fn(s, c) # Err
  PROVE  IsDoc(Fn(s, c)) /\ NoneNew(s, Fn(s, c), {})
<1>1. ASSUME NEW t, DOMAIN t = Parts, t.defs = s.defs  PROVE IsDoc(t) /\ NoneNew(s, t, {})
  BY <1>1 DEF IsDoc, NoneNew
<1>2. ASSUME NEW v, NEW b, NEW e  PROVE DOMAIN Patched(s, v, b, e) = Parts /\ Patched(s, v, b, e).defs = s.defs
  BY DEF Patched, IsDoc, Parts
<1>3. CASE c.op = "removeBinding"
  <2>1. Fn(s, c) = RemoveBinding(s, c.w, c.b)  BY <1>3 DEF Fn
  <2> DEFINE t == [s EXCEPT !.wallets[c.w].bindings = OneLess(@, c.b)]
  <2>2. DOMAIN t = Parts /\ t.defs = s.defs  BY DEF IsDoc, Parts
  <2>3. Fn(s, c) = Pruned(t)  BY <2>1 DEF RemoveBinding
  <2> HIDE DEF t
  <2>. QED  BY <1>1, <2>2, <2>3, PrunedDoc DEF IsDoc, NoneNew
<1>4. CASE c.op = "toggleBinding"
  <2>1. Fn(s, c) = Patched(s, c.w, c.b, [c.b EXCEPT !.on = ~@])  BY <1>4 DEF Fn
  <2>. QED  BY <1>1, <1>2, <2>1
<1>5. CASE c.op = "patchParams"
  <2>1. Fn(s, c) = PatchParams(s, c.w, c.b, c.filled)  BY <1>5 DEF Fn
  <2>. QED  BY <1>1, <1>2, <2>1 DEF PatchParams
<1>6. CASE c.op = "patchPackage"
  <2>1. Fn(s, c) = Patched(s, c.w, c.b, [c.b EXCEPT !.pkg = c.p])  BY <1>6 DEF Fn
  <2>. QED  BY <1>1, <1>2, <2>1
<1>7. CASE c.op = "copyBindings"
  <2>1. Fn(s, c) = WithRows(s, {c.to}, c.rows)  BY <1>7 DEF Fn
  <2>. QED  BY <1>1, <2>1, RowsDoc DEF IsDoc
<1>. QED  BY <1>3, <1>4, <1>5, <1>6, <1>7 DEF RowCommands

LEMMA SeedFn ==
  ASSUME NEW s, IsDoc(s), NEW c \in Seedings
  PROVE  IsDoc(Fn(s, c))
<1>1. Fn(s, c) = Seed(s, c.got)  BY DEF Fn, Seedings
<1>. QED  BY <1>1 DEF Seed, IsDoc, Parts

\* Validation looks at everything but the revision.
LEMMA ValidParts ==
  ASSUME NEW s, NEW t, Valid(s), t.defs = s.defs, t.wallets = s.wallets, t.pkgs = s.pkgs
  PROVE  Valid(t)
<1>1. \A w \in Wallets : Bound(t, w) = Bound(s, w)  BY DEF Bound
<1>. QED  BY <1>1 DEF Valid

\* A whole mutate: what its result is and what it adds to the library.
LEMMA MutatedDoc ==
  ASSUME NEW s, IsDoc(s), NEW c \in Commands(Normal(s)) \cup Seedings, Mutated(s, c) # Err
  PROVE  /\ IsDoc(Mutated(s, c)) /\ Valid(Mutated(s, c))
         /\ c \notin Seedings => NoneNew(s, Mutated(s, c), Edited(c))
         /\ c \notin Seedings /\ c.op = "deleteDef" => Mutated(s, c).defs[c.d] = None
<1> DEFINE n == Normal(s)
           t == Fn(n, c)
<1>1. t # Err /\ Valid(t) /\ Mutated(s, c) = [t EXCEPT !.rev = @ + 1]  BY DEF Mutated
<1>2. IsDoc(n) /\ NoneNew(s, n, {})  BY NormalDoc
<1>3. /\ IsDoc(t)
      /\ c \notin Seedings => NoneNew(n, t, Edited(c))
      /\ c \notin Seedings /\ c.op = "deleteDef" => t.defs[c.d] = None
  <2> HIDE DEF n
  <2>1. CASE c \in LibraryCommands(n)  BY <1>1, <1>2, <2>1, LibraryFn
  <2>2. CASE c \in WalletCommands
    <3>1. c.op # "deleteDef" /\ Edited(c) = {}  BY <2>2 DEF WalletCommands, Edited
    <3>. QED  BY <1>1, <1>2, <2>2, <3>1, WalletFn
  <2>3. CASE \E w \in Wallets : c \in RowCommands(n, w)
    <3>1. c.op # "deleteDef" /\ Edited(c) = {}  BY <2>3 DEF RowCommands, Edited
    <3>. QED  BY <1>1, <1>2, <2>3, <3>1, RowFn
  <2>4. CASE c \in Seedings  BY <1>2, <2>4, SeedFn
  <2>5. c \in Commands(n) \cup Seedings  BY DEF n
  <2>. QED  BY <2>1, <2>2, <2>3, <2>4, <2>5 DEF Commands
<1> HIDE DEF n, t
<1> DEFINE m == [t EXCEPT !.rev = @ + 1]
<1>4. DOMAIN m = Parts /\ m.defs = t.defs /\ m.wallets = t.wallets /\ m.pkgs = t.pkgs
  BY <1>3 DEF IsDoc, Parts
<1>5. Mutated(s, c) = m  BY <1>1
<1> HIDE DEF m
<1>6. IsDoc(m) /\ Valid(m)  BY <1>1, <1>3, <1>4, ValidParts DEF IsDoc
<1>7. c \notin Seedings => NoneNew(s, m, Edited(c))  BY <1>2, <1>3, <1>4 DEF NoneNew
<1>. QED  BY <1>3, <1>4, <1>5, <1>6, <1>7

-----------------------------------------------------------------------------
(* The invariant                                                             *)

LEMMA StoreInit == ASSUME Init PROVE StoreInv
<1>1. Frame
  <2>1. sown \in BOOLEAN  BY Zenon DEF Init
  <2>2. pc \in [Requests -> PcStates] /\ got \in [Requests -> SUBSET Baked]  BY DEF Init, PcStates
  <2>3. chain = <<>> /\ seeded = FALSE /\ draft = [r \in Requests |-> None]  BY Zenon DEF Init
  <2>4. <<>> \in Seq(Requests)  OBVIOUS
  <2>5. DOMAIN draft = Requests  BY <2>3
  <2>. QED  BY <2>1, <2>2, <2>3, <2>4, <2>5 DEF Frame
<1>2. Drafts  BY DEF Init, Drafts
<1>3. Sowing
  <2>1. \A r \in Requests : pc[r] = "idle"  BY DEF Init
  <2>2. (~sown => store = EmptyStore) /\ ~seeded  BY Zenon DEF Init
  <2>. QED  BY <2>1, <2>2 DEF Sowing
<1>4. Documents
  <2>1. store \in {EmptyStore, OldStore}  BY Zenon DEF Init, Stores
  <2>2. IsDoc(EmptyStore)  BY DEF EmptyStore, IsDoc, Parts
  <2>3. IsDoc(OldStore)  BY <2>2 DEF OldStore, IsDoc, Parts
  <2>. QED  BY <2>1, <2>2, <2>3 DEF Documents, Stores
<1>5. Deleted
  <2>1. gone = {}  BY Zenon DEF Init
  <2>. QED  BY <2>1 DEF Deleted
<1>6. QueueServes
  <2>1. chain = <<>> /\ pc = [r \in Requests |-> "idle"]  BY Zenon DEF Init
  <2>2. DOMAIN <<>> = {}  OBVIOUS
  <2>. QED  BY <2>1, <2>2 DEF QueueServes
<1>. QED  BY <1>1, <1>2, <1>3, <1>4, <1>5, <1>6 DEF StoreInv

LEMMA FrameStep == ASSUME StoreInv, [Next]_vars PROVE Frame'
<1> USE DEF StoreInv, Frame, PcStates, Go, Forget, Reject, memory, history
<1>1. ASSUME NEW r \in Requests, Arrive(r) \/ Check(r) \/ FetchFails(r) \/ Resolve(r)  PROVE Frame'
  BY <1>1 DEF Arrive, Check, FetchFails, Resolve
<1>2. ASSUME NEW r \in Requests, Fetch(r) \/ Submit(r)  PROVE Frame'
  <2>1. Append(chain, r) \in Seq(Requests)  BY QueueFacts
  <2>. QED  BY <1>2, <2>1 DEF Fetch, Submit
<1>3. ASSUME NEW r \in Requests, Begin(r)  PROVE Frame'
  <2>1. chain # <<>> /\ Tail(chain) \in Seq(Requests)  BY <1>3, QueueFacts DEF Begin, Turn
  <2>. QED  BY <1>3, <2>1 DEF Begin
<1>4. ASSUME NEW r \in Requests, Commit(r) \/ CommitFails(r)  PROVE Frame'
  <2>1. chain # <<>> /\ Tail(chain) \in Seq(Requests)  BY <1>4, QueueFacts DEF Commit, CommitFails, Drafts, Turn
  <2>2. CASE Commit(r)  BY <2>1, <2>2 DEF Commit
  <2>3. CASE CommitFails(r)  BY <2>1, <2>3 DEF CommitFails
  <2>. QED  BY <1>4, <2>2, <2>3
<1>5. CASE Die
  <2>1. pc' \in [Requests -> PcStates] /\ got' \in [Requests -> SUBSET Baked]  BY ONLY StoreInv, <1>5 DEF Die, StoreInv, Frame, PcStates
  <2>2. chain' \in Seq(Requests)  BY <1>5 DEF Die
  <2>3. DOMAIN draft' = Requests /\ seeded' \in BOOLEAN /\ sown' \in BOOLEAN  BY ONLY StoreInv, <1>5 DEF Die, StoreInv, Frame
  <2>. QED  BY <2>1, <2>2, <2>3
<1>6. CASE UNCHANGED vars  BY <1>6 DEF vars
<1>. QED  BY <1>1, <1>2, <1>3, <1>4, <1>5, <1>6 DEF Next, Step

\* A request that is not waiting joins at the end.
LEMMA Joins ==
  ASSUME Frame, QueueServes, NEW r \in Requests, NEW s \in {"seeding", "queued"},
         pc[r] \notin {"seeding", "queued"}, Go(r, s), chain' = Append(chain, r)
  PROVE  QueueServes'
<1>1. /\ Len(chain') = Len(chain) + 1 /\ chain' \in Seq(Requests) /\ chain \in Seq(Requests) /\ Len(chain) \in Nat
      /\ \A i \in 1 .. Len(chain) : chain'[i] = chain[i]
      /\ chain'[Len(chain) + 1] = r
  BY AppendProperties DEF Frame
<1>2. DOMAIN chain = 1 .. Len(chain) /\ DOMAIN chain' = 1 .. Len(chain) + 1  BY <1>1
<1>3. \A i \in 1 .. Len(chain) : chain[i] # r  BY <1>2 DEF QueueServes
<1>4. \A i, j \in DOMAIN chain' : chain'[i] = chain'[j] => i = j
  BY <1>1, <1>2, <1>3 DEF QueueServes
<1>5. \A q \in Requests : (\E i \in DOMAIN chain' : chain'[i] = q) <=> (q = r \/ \E i \in DOMAIN chain : chain[i] = q)
  BY <1>1, <1>2
<1>6. \A q \in Requests : pc'[q] \in {"seeding", "queued"} <=> (q = r \/ pc[q] \in {"seeding", "queued"})
  BY DEF Go, Frame
<1>. QED  BY <1>4, <1>5, <1>6 DEF QueueServes

\* The head leaves, and with it its place.
LEMMA Leaves ==
  ASSUME Frame, QueueServes, NEW r \in Requests, Turn(r), NEW s \in {"ready", "done"},
         Go(r, s), chain' = Tail(chain)
  PROVE  QueueServes'
<1>1. /\ Len(chain') = Len(chain) - 1 /\ chain' \in Seq(Requests) /\ chain \in Seq(Requests) /\ Len(chain) \in Nat \ {0}
      /\ \A i \in 1 .. Len(chain) - 1 : chain'[i] = chain[i + 1]
      /\ chain[1] = r
  BY HeadTailProperties, EmptySeq DEF Frame, Turn
<1>2. DOMAIN chain = 1 .. Len(chain) /\ DOMAIN chain' = 1 .. Len(chain) - 1  BY <1>1
<1>3. \A i, j \in DOMAIN chain' : chain'[i] = chain'[j] => i = j
  BY <1>1, <1>2 DEF QueueServes
<1>4. \A q \in Requests : (\E i \in DOMAIN chain' : chain'[i] = q) <=> (q # r /\ \E i \in DOMAIN chain : chain[i] = q)
  <2>1. ASSUME NEW q \in Requests, NEW i \in DOMAIN chain', chain'[i] = q
        PROVE  q # r /\ \E k \in DOMAIN chain : chain[k] = q
    <3>1. i + 1 \in DOMAIN chain /\ chain[i + 1] = q /\ 1 \in DOMAIN chain /\ i + 1 # 1  BY <1>1, <1>2, <2>1
    <3>. QED  BY <1>1, <3>1 DEF QueueServes
  <2>2. ASSUME NEW q \in Requests, q # r, NEW i \in DOMAIN chain, chain[i] = q
        PROVE  \E k \in DOMAIN chain' : chain'[k] = q
    <3>1. i - 1 \in DOMAIN chain' /\ chain'[i - 1] = q  BY <1>1, <1>2, <2>2
    <3>. QED  BY <3>1
  <2>. QED  BY <2>1, <2>2
<1>5. \A q \in Requests : pc'[q] \in {"seeding", "queued"} <=> (q # r /\ pc[q] \in {"seeding", "queued"})
  BY DEF Go, Frame
<1>. QED  BY <1>3, <1>4, <1>5 DEF QueueServes

LEMMA QueueStep == ASSUME StoreInv, [Next]_vars PROVE QueueServes'
<1> USE DEF StoreInv, memory, history
<1>1. ASSUME NEW r \in Requests, Arrive(r) \/ Check(r) \/ FetchFails(r) \/ Resolve(r)  PROVE QueueServes'
  <2>1. chain' = chain /\ \A q \in Requests : pc'[q] \in {"seeding", "queued"} <=> pc[q] \in {"seeding", "queued"}
    BY <1>1 DEF Arrive, Check, FetchFails, Resolve, Go, Frame, PcStates
  <2>. QED  BY <2>1 DEF QueueServes
<1>2. ASSUME NEW r \in Requests, Fetch(r) \/ Submit(r)  PROVE QueueServes'
  BY <1>2, Joins DEF Fetch, Submit
<1>3. ASSUME NEW r \in Requests, Begin(r)  PROVE QueueServes'
  <2>1. Turn(r) /\ (Reject(r) \/ UNCHANGED <<pc, got, chain>>)  BY <1>3 DEF Begin
  <2>2. CASE Reject(r)  BY <2>1, <2>2, Leaves DEF Reject
  <2>3. CASE UNCHANGED <<pc, got, chain>>  BY <2>3 DEF QueueServes
  <2>. QED  BY <2>1, <2>2, <2>3
<1>4. ASSUME NEW r \in Requests, Commit(r) \/ CommitFails(r)  PROVE QueueServes'
  <2>1. Turn(r) /\ chain' = Tail(chain)  BY <1>4 DEF Commit, CommitFails, Reject, Drafts
  <2>2. Go(r, "ready") \/ Go(r, "done")  BY <1>4 DEF Commit, CommitFails, Reject
  <2>. QED  BY <2>1, <2>2, Leaves
<1>5. CASE Die
  <2>1. chain' = <<>> /\ \A q \in Requests : pc'[q] \notin {"seeding", "queued"}  BY <1>5 DEF Die
  <2>2. DOMAIN <<>> = {}  OBVIOUS
  <2>. QED  BY <2>1, <2>2 DEF QueueServes
<1>6. CASE UNCHANGED vars  BY <1>6 DEF vars, QueueServes
<1>. QED  BY <1>1, <1>2, <1>3, <1>4, <1>5, <1>6 DEF Next, Step

LEMMA DraftStep == ASSUME StoreInv, [Next]_vars PROVE Drafts'
<1>1. SUFFICES ASSUME NEW q \in Requests, draft'[q] # None
       PROVE /\ Turn(q)'
             /\ draft'[q].doc = Mutated(store', draft'[q].by) /\ draft'[q].doc # Err
             /\ \/ pc'[q] = "queued" /\ draft'[q].by \in Commands(Normal(store'))
                \/ pc'[q] = "seeding" /\ draft'[q].by \in Seedings
  BY DEF Drafts
<1> USE DEF StoreInv, Frame, PcStates, memory, history
<1> DEFINE Kept == /\ draft'[q] = draft[q] /\ store' = store /\ pc'[q] = pc[q]
                   /\ chain # <<>> => chain' # <<>> /\ Head(chain') = Head(chain)
<1>0. ASSUME Kept PROVE /\ Turn(q)'
             /\ draft'[q].doc = Mutated(store', draft'[q].by) /\ draft'[q].doc # Err
             /\ \/ pc'[q] = "queued" /\ draft'[q].by \in Commands(Normal(store'))
                \/ pc'[q] = "seeding" /\ draft'[q].by \in Seedings
  BY <1>0, <1>1 DEF Drafts, Turn
<1>2. ASSUME NEW r \in Requests, Arrive(r) \/ Check(r) \/ FetchFails(r) \/ Resolve(r)  PROVE Kept
  <2>1. pc[r] \notin {"queued", "seeding"} /\ draft' = draft /\ Go(r, pc'[r]) /\ store' = store /\ chain' = chain
    BY <1>2 DEF Arrive, Check, FetchFails, Resolve, Go
  <2>2. q # r  BY <1>1, <2>1 DEF Drafts
  <2>. QED  BY <2>1, <2>2 DEF Go
<1>3. ASSUME NEW r \in Requests, Fetch(r) \/ Submit(r)  PROVE Kept
  <2>1. pc[r] \notin {"queued", "seeding"} /\ draft' = draft /\ Go(r, pc'[r]) /\ store' = store /\ chain' = Append(chain, r)
    BY <1>3 DEF Fetch, Submit, Go
  <2>2. q # r  BY <1>1, <2>1 DEF Drafts
  <2>. QED  BY <2>1, <2>2, QueueFacts DEF Go
<1>4. ASSUME NEW r \in Requests, Begin(r)  PROVE Drafts'
  <2>1. PICK c \in Work(r) :
          IF Mutated(store, c) = Err THEN Reject(r)
          ELSE draft' = [draft EXCEPT ![r] = [by |-> c, doc |-> Mutated(store, c)]] /\ UNCHANGED <<pc, got, chain>>
    BY <1>4 DEF Begin
  <2>2. Turn(r) /\ draft[r] = None /\ store' = store /\ pc[r] \in {"seeding", "queued"}  BY <1>4 DEF Begin
  <2>3. \A p \in Requests : draft[p] = None  BY <2>2 DEF Drafts, Turn
  <2>4. CASE Mutated(store, c) = Err  BY <2>1, <2>3, <2>4 DEF Reject, Forget, Drafts
  <2>5. CASE Mutated(store, c) # Err
    <3>1. draft' = [draft EXCEPT ![r] = [by |-> c, doc |-> Mutated(store, c)]] /\ pc' = pc /\ chain' = chain
      BY <2>1, <2>5
    <3>2. draft'[r].doc = Mutated(store, c) /\ draft'[r].by = c  BY <3>1
    <3>3. pc[r] = "seeding" => c \in Seedings  BY <2>1 DEF Work, Seedings
    <3>4. pc[r] = "queued" => c \in Commands(Normal(store))  BY <2>1 DEF Work
    <3>. QED  BY <2>2, <2>3, <2>5, <3>1, <3>2, <3>3, <3>4 DEF Drafts, Turn
  <2>. QED  BY <2>4, <2>5
<1>5. ASSUME NEW r \in Requests, Commit(r) \/ CommitFails(r)  PROVE FALSE
  <2>1. draft[r] # None /\ draft' = [draft EXCEPT ![r] = None]
    BY <1>5 DEF Commit, CommitFails, Reject, Forget
  <2>2. q # r /\ draft[q] # None  BY <1>1, <2>1
  <2>. QED  BY <2>1, <2>2 DEF Drafts, Turn
<1>6. CASE Die  BY <1>1, <1>6 DEF Die
<1>7. CASE UNCHANGED vars  BY <1>0, <1>7 DEF vars
<1>8. ASSUME NEW r \in Requests, Begin(r) 
      PROVE /\ Turn(q)'
             /\ draft'[q].doc = Mutated(store', draft'[q].by) /\ draft'[q].doc # Err
             /\ \/ pc'[q] = "queued" /\ draft'[q].by \in Commands(Normal(store'))
                \/ pc'[q] = "seeding" /\ draft'[q].by \in Seedings
  BY <1>1, <1>4, <1>8 DEF Drafts
<1>. QED  BY <1>0, <1>2, <1>3, <1>8, <1>5, <1>6, <1>7 DEF Next, Step

LEMMA SowStep == ASSUME StoreInv, [Next]_vars PROVE Sowing'
<1> USE DEF StoreInv, Frame, PcStates, Go, Forget, Reject, memory, history, Sowing
<1>1. ASSUME NEW r \in Requests, Arrive(r) \/ FetchFails(r) \/ Resolve(r) \/ Fetch(r) \/ Submit(r)  PROVE Sowing'
  BY <1>1 DEF Arrive, FetchFails, Resolve, Fetch, Submit
<1>2. ASSUME NEW r \in Requests, Check(r)  PROVE Sowing'
  <2>1. HasBuiltin(store) => sown  BY NothingBuiltin
  <2>. QED  BY <1>2, <2>1 DEF Check
<1>3. ASSUME NEW r \in Requests, Begin(r)  PROVE Sowing'
  BY <1>3 DEF Begin
<1>4. ASSUME NEW r \in Requests, CommitFails(r)  PROVE Sowing'
  BY <1>4 DEF CommitFails
<1>5. ASSUME NEW r \in Requests, Commit(r)  PROVE Sowing'
  <2>1. draft[r] # None  BY <1>5 DEF Commit
  <2>2. CASE draft[r].by.op = "seed"  BY <1>5, <2>2 DEF Commit
  <2>3. CASE draft[r].by.op # "seed"
    <3>1. pc[r] = "queued"  BY <2>1, <2>3 DEF Drafts, Seedings
    <3>. QED  BY <1>5, <2>3, <3>1 DEF Commit
  <2>. QED  BY <2>2, <2>3
<1>6. CASE Die  BY <1>6 DEF Die
<1>7. CASE UNCHANGED vars  BY <1>7 DEF vars
<1>. QED  BY <1>1, <1>2, <1>3, <1>4, <1>5, <1>6, <1>7 DEF Next, Step

\* The documents change by commits only.
LEMMA OnlyCommitsWrite ==
  ASSUME [Next]_vars, store' # store
  PROVE  \E r \in Requests : Commit(r)
BY DEF Next, Step, Arrive, Check, Fetch, FetchFails, Submit, Resolve, Begin, CommitFails, Die, vars, history

LEMMA DocumentStep == ASSUME StoreInv, [Next]_vars PROVE Documents'
<1>1. CASE store' = store  BY <1>1 DEF StoreInv, Documents, Valid, IsDoc, Bound, Registered
<1>2. CASE store' # store
  <2>1. PICK r \in Requests : Commit(r)  BY <1>2, OnlyCommitsWrite
  <2>2. draft[r] # None /\ store' = draft[r].doc  BY <2>1 DEF Commit
  <2>3. /\ draft[r].by \in Commands(Normal(store)) \cup Seedings
        /\ Mutated(store, draft[r].by) # Err /\ store' = Mutated(store, draft[r].by)
    BY <2>2 DEF StoreInv, Drafts
  <2>4. IsDoc(store') /\ Valid(store')  BY <2>3, MutatedDoc DEF StoreInv, Documents
  <2>. QED  BY <2>4 DEF Documents, Valid, IsDoc, Bound, Registered
<1>. QED  BY <1>1, <1>2

LEMMA DeletedStep == ASSUME StoreInv, [Next]_vars PROVE Deleted'
<1> USE DEF StoreInv, Frame, PcStates, Go, Forget, Reject, memory, history
<1>1. ASSUME NEW r \in Requests, Check(r) \/ Fetch(r) \/ FetchFails(r)  PROVE Deleted'
  <2>1. SeedingUnderWay  BY <1>1 DEF Check, Fetch, FetchFails, SeedingUnderWay
  <2>2. gone' = gone /\ gone = {}  BY <1>1, <2>1 DEF Check, Fetch, FetchFails, Deleted
  <2>. QED  BY <2>2 DEF Deleted
<1>2. ASSUME NEW r \in Requests, Arrive(r) \/ Submit(r) \/ Resolve(r) \/ CommitFails(r) \/ Begin(r)  PROVE Deleted'
  <2>1. store' = store /\ gone' = gone /\ seeded' = seeded
    BY <1>2 DEF Arrive, Submit, Resolve, CommitFails, Begin
  <2>2. seeded => \A q \in Requests : pc'[q] \in {"checking", "fetching", "seeding"} => pc'[q] = pc[q]
    BY <1>2 DEF Arrive, Submit, Resolve, CommitFails, Begin
  <2>3. seeded /\ SeedingUnderWay' => SeedingUnderWay  BY <2>2 DEF SeedingUnderWay
  <2>4. Library(store') = Library(store)  BY <2>1
  <2>. QED  BY <2>1, <2>3, <2>4 DEF Deleted, Library
<1>3. ASSUME NEW r \in Requests, Commit(r)  PROVE Deleted'
  <2> DEFINE c == draft[r].by
  <2>1. draft[r] # None /\ gone' = GoneAfter(c) /\ store' = Mutated(store, c) /\ Mutated(store, c) # Err
    BY <1>3 DEF Commit, Drafts
  <2>2. CASE c.op = "seed"
    <3>1. pc[r] = "seeding"  BY <2>1, <2>2, CommandIsNoSeeding DEF Drafts
    <3>2. gone = {}  BY <3>1 DEF Deleted, SeedingUnderWay
    <3>3. gone' = {}  BY <2>1, <2>2, <3>2 DEF GoneAfter
    <3>. QED  BY <3>3 DEF Deleted
  <2>3. CASE c.op # "seed"
    <3>1. pc[r] = "queued" /\ c \in Commands(Normal(store)) /\ c \notin Seedings
      BY <2>1, <2>3 DEF Drafts, Seedings
    <3>2. seeded /\ seeded'  BY <1>3, <3>1 DEF Sowing, Commit
    <3>3. \A q \in Requests : pc'[q] \in {"checking", "fetching", "seeding"} => pc'[q] = pc[q]
      BY <1>3, <2>3 DEF Commit
    <3>4. SeedingUnderWay' => SeedingUnderWay  BY <3>3 DEF SeedingUnderWay
    <3>5. NoneNew(store, store', Edited(c)) /\ (c.op = "deleteDef" => store'.defs[c.d] = None)
      BY <2>1, <3>1, MutatedDoc DEF Documents
    <3>6. Library(store') \subseteq Library(store) \cup Edited(c)  BY <3>5 DEF NoneNew, Library
    <3>7. CASE c.op = "deleteDef" /\ ~SeedingUnderWay
      <4>1. gone' = gone \cup ({c.d} \cap Baked) /\ Edited(c) = {c.d}  BY <2>1, <3>7 DEF GoneAfter, Edited
      <4>2. c.d \notin Library(store')  BY <3>5, <3>7 DEF Library
      <4>3. gone' \subseteq Baked /\ gone' \cap Library(store') = {}  BY <3>6, <4>1, <4>2 DEF Deleted
      <4>. QED  BY <3>2, <3>4, <3>7, <4>3 DEF Deleted, Library
    <3>8. CASE ~(c.op = "deleteDef" /\ ~SeedingUnderWay)
      <4>1. gone' = gone \ Edited(c)  BY <2>1, <3>8 DEF GoneAfter
      <4>2. gone' \subseteq Baked /\ gone' \cap Library(store') = {}  BY <3>6, <4>1 DEF Deleted
      <4>3. gone' # {} => seeded' /\ ~SeedingUnderWay'  BY <3>2, <3>4, <4>1 DEF Deleted
      <4>. QED  BY <4>2, <4>3 DEF Deleted, Library
    <3>. QED  BY <3>7, <3>8
  <2>. QED  BY <2>2, <2>3
<1>4. CASE Die  BY <1>4 DEF Die, Deleted
<1>5. CASE UNCHANGED vars  BY <1>5 DEF vars, Deleted, Library, SeedingUnderWay
<1>. QED  BY <1>1, <1>2, <1>3, <1>4, <1>5 DEF Next, Step

LEMMA StoreInvHolds == Spec => []StoreInv
<1>1. Init => StoreInv  BY StoreInit
<1>2. StoreInv /\ [Next]_vars => StoreInv'  BY FrameStep, QueueStep, DraftStep, SowStep, DocumentStep, DeletedStep DEF StoreInv
<1>. QED  BY <1>1, <1>2, PTL DEF Spec

\* mutate: the queue holds exactly the requests that wait, once each, whatever
\* rejects; so a failed change never blocks those behind it.
THEOREM QueueGoesOn == Spec => []QueueServes
<1>1. StoreInv => QueueServes  BY DEF StoreInv
<1>. QED  BY <1>1, StoreInvHolds, PTL

\* mutate: a write never undoes another one, for any number of requests.
THEOREM NoLostUpdate == Spec => []DraftIsCurrent
<1>1. StoreInv => DraftIsCurrent  BY DEF StoreInv, Drafts, DraftIsCurrent
<1>. QED  BY <1>1, StoreInvHolds, PTL

\* ensureSeeded: nobody reads or changes the documents before a seeding.
THEOREM SeedingFirst == Spec => []SeededFirst
<1>1. StoreInv => SeededFirst  BY DEF StoreInv, Sowing, SeededFirst
<1>. QED  BY <1>1, StoreInvHolds, PTL

\* ensureSeeded: a built-in policy deleted while nobody was seeding stays deleted
\* until the worker restarts or the user installs it again.
THEOREM DeletionsHold == Spec => []DeletedStayGone
<1>1. StoreInv => DeletedStayGone  BY DEF StoreInv, Deleted, DeletedStayGone
<1>. QED  BY <1>1, StoreInvHolds, PTL

\* mutate: the stored documents change by whole operations, one after another,
\* whatever rejects and wherever the worker dies.
THEOREM StoreRefinement == Spec => RefinesSerialStore
<1>1. Init => Serial!Init  BY DEF Init, Serial!Init
<1>2. StoreInv /\ [Next]_vars => [Serial!Operate]_store
  <2>1. SUFFICES ASSUME StoreInv, [Next]_vars, store' # store PROVE Serial!Operate
    OBVIOUS
  <2>2. PICK r \in Requests : Commit(r)
    BY <2>1, OnlyCommitsWrite
  <2>3. draft[r] # None /\ store' = draft[r].doc  BY <2>2 DEF Commit
  <2>4. /\ draft[r].by \in Offered(store)
        /\ Mutated(store, draft[r].by) # Err /\ store' = Mutated(store, draft[r].by)
    BY <2>1, <2>3 DEF StoreInv, Drafts, Offered
  <2>. QED  BY <2>4 DEF Serial!Operate
<1>. QED  BY <1>1, <1>2, StoreInvHolds, PTL DEF Spec, RefinesSerialStore, Serial!Spec

-----------------------------------------------------------------------------
(* What the documents look like, and what an operation keeps of them         *)

Fields == {"bindings", "pkgs", "off"}
IsRows(bag) == BagToSet(bag) \subseteq Binding /\ IsABag(bag)
IsEntry(e) == DOMAIN e = Fields /\ IsRows(e.bindings) /\ e.pkgs \subseteq Pkgs /\ e.off \subseteq Pkgs

Typed(s) ==
  /\ DOMAIN s = Parts /\ DOMAIN s.wallets = Wallets /\ s.defs \in [DefIds -> Def \cup {None}]
  /\ s.pkgs \subseteq Pkgs /\ s.rev \in Nat /\ s.known \subseteq Wallets
  /\ \A w \in Wallets : IsEntry(s.wallets[w])
  /\ \A w \in Wallets \ s.known : Bound(s, w) = {} /\ s.wallets[w].off = {}

\* A binding that a blank does not make useless, unless its definition is gone.
Sure(s, b) == b.fresh /\ s.defs[b.def] # None => ~Missing(s.defs[b.def], b.filled)
Linked(s)  == \A w \in Wallets : \A b \in Bound(s, w) : s.defs[b.def] # None
Filled(s)  == \A w \in Wallets : \A b \in Bound(s, w) : Sure(s, b)
Sound(s)   == Typed(s) /\ Linked(s) /\ Filled(s)

\* Wallet w has a binding of d that is evaluated.
Serves(s, w, d) == \E b \in Bound(s, w) : b.def = d /\ Effective(s, w, b)

\* Definitions outside E keep their holes or lose them.
SameHoles(s, t, E) ==
  \A d \in DefIds \ E : s.defs[d] # None => t.defs[d] # None /\ t.defs[d].hole \in {s.defs[d].hole, "none"}
\* The bindings of wallet w are old ones of definitions outside E, or filled.
RowsFrom(s, t, E, w) == \A b \in Bound(t, w) : (b \in Bound(s, w) /\ b.def \notin E) \/ Sure(t, b)
\* The bindings of definitions outside E stay in wallet w, and in packages that are on.
RowsStay(s, t, E, w) ==
  \A b \in Bound(s, w) : b.def \notin E =>
    b \in Bound(t, w) /\ (b.pkg \in t.wallets[w].off => b.pkg \in s.wallets[w].off)

\* What command c makes of s.
Alike(s, t, c) ==
  /\ Typed(t) /\ SameHoles(s, t, Edited(c))
  /\ \A w \in Wallets : RowsFrom(s, t, Edited(c), w) /\ RowsStay(s, t, Edited(c) \cup Taken(s, c, w), w)

\* A binding of a wallet is one of the type.
LEMMA RowsAreBindings ==
  ASSUME NEW s, Typed(s), NEW w \in Wallets, NEW b \in Bound(s, w)
  PROVE  b \in Binding /\ b.def \in DefIds /\ b.pkg \in Pkgs
<1>1. b \in BagToSet(s.wallets[w].bindings)  BY DEF Bound
<1>2. b \in Binding  BY <1>1 DEF Typed, IsEntry, IsRows
<1>. QED  BY <1>2 DEF Binding

\* What an operation makes of filled bindings is filled.
LEMMA AlikeFilled ==
  ASSUME NEW s, Sound(s), NEW t, NEW c, Alike(s, t, c)
  PROVE  Filled(t)
<1> SUFFICES ASSUME NEW w \in Wallets, NEW b \in Bound(t, w), b \in Bound(s, w), b.def \notin Edited(c)
             PROVE  Sure(t, b)
  BY DEF Filled, Alike, RowsFrom
<1>1. b.def \in DefIds /\ s.defs[b.def] # None /\ Sure(s, b)  BY RowsAreBindings DEF Sound, Linked, Filled
<1>2. t.defs[b.def].hole \in {s.defs[b.def].hole, "none"}  BY <1>1 DEF Alike, SameHoles
<1>. QED  BY <1>1, <1>2 DEF Sure, Missing

\* A definition that is neither edited nor taken stays evaluated.
LEMMA AlikeServes ==
  ASSUME NEW s, Sound(s), NEW t, NEW c, Alike(s, t, c), NEW w \in Wallets,
         NEW d \in DefIds, d \notin Edited(c), d \notin Taken(s, c, w), Serves(s, w, d)
  PROVE  Serves(t, w, d)
<1>1. PICK b \in Bound(s, w) : b.def = d /\ Effective(s, w, b)  BY DEF Serves
<1>2. b \in Bound(t, w) /\ (b.pkg \in t.wallets[w].off => b.pkg \in s.wallets[w].off)
  BY <1>1 DEF Alike, RowsStay
<1>3. s.defs[d] # None  BY <1>1 DEF Sound, Linked
<1>4. t.defs[d].hole \in {s.defs[d].hole, "none"}  BY <1>3 DEF Alike, SameHoles
<1>5. Effective(t, w, b)  BY <1>1, <1>2, <1>4 DEF Effective, Missing
<1>. QED  BY <1>1, <1>2, <1>5 DEF Serves

-----------------------------------------------------------------------------
(* Bags of bindings                                                          *)

\* The bindings of a sum of bags.
LEMMA AddRows ==
  ASSUME NEW A, IsRows(A), NEW B, IsRows(B)
  PROVE  IsRows(A (+) B) /\ BagToSet(A (+) B) = BagToSet(A) \cup BagToSet(B)
BY DEF IsRows, IsABag, BagToSet, (+)

\* The bindings of a bag made of a set.
LEMMA SetRows ==
  ASSUME NEW S, S \subseteq Binding
  PROVE  IsRows(SetToBag(S)) /\ BagToSet(SetToBag(S)) = S
BY DEF IsRows, IsABag, BagToSet, SetToBag

\* The bindings that are left.
LEMMA DropRows ==
  ASSUME NEW A, IsRows(A), NEW S
  PROVE  IsRows(Dropping(A, S)) /\ BagToSet(Dropping(A, S)) = BagToSet(A) \ S
BY DEF IsRows, IsABag, BagToSet, Dropping

\* One binding less: of two equal ones, one stays.
LEMMA LessRows ==
  ASSUME NEW A, IsRows(A), NEW b, NEW L, L = OneLess(A, b)
  PROVE  IsRows(L) /\ BagToSet(L) \subseteq BagToSet(A) /\ BagToSet(A) \ {b} \subseteq BagToSet(L)
BY DEF IsRows, IsABag, BagToSet, SetToBag, OneLess, (-)

\* A new wallet has no bindings.
LEMMA NoRows == IsRows(EmptyBag) /\ BagToSet(EmptyBag) = {}
BY SetRows DEF EmptyBag

\* Ageing touches the fresh bindings of d only.
LEMMA AgedRows ==
  ASSUME NEW A, IsRows(A), NEW d
  PROVE  /\ IsRows(Aged(A, d))
         /\ \A b \in BagToSet(Aged(A, d)) : b.def = d => ~b.fresh
         /\ \A b : b.def # d => (b \in BagToSet(Aged(A, d)) <=> b \in BagToSet(A))
<1> DEFINE S == {b \in BagToSet(A) : b.def = d /\ b.fresh}
           C == [c \in {Stale(b) : b \in S} |-> A[[c EXCEPT !.fresh = TRUE]]]
<1>1. ASSUME NEW b \in S
      PROVE  /\ Stale(b) \in Binding /\ Stale(b).def = d /\ Stale(b).fresh = FALSE
             /\ [Stale(b) EXCEPT !.fresh = TRUE] = b
  <2>1. b \in Binding /\ b.def = d /\ b.fresh = TRUE  BY DEF IsRows, Binding
  <2>. QED  BY <2>1 DEF Binding, Stale
<1>2. BagToSet(C) = {Stale(b) : b \in S}  BY DEF BagToSet
<1>3. IsRows(C)
  <2>1. ASSUME NEW c \in BagToSet(C) PROVE c \in Binding /\ C[c] \in {n \in Nat : n > 0}
    <3>1. PICK b \in S : c = Stale(b)  BY <1>2
    <3>2. C[c] = A[b]  BY <1>1, <1>2, <3>1 DEF BagToSet
    <3>. QED  BY <1>1, <3>1, <3>2 DEF IsRows, IsABag, BagToSet
  <2>2. C = [c \in DOMAIN C |-> C[c]]  OBVIOUS
  <2>. QED  BY <2>1, <2>2 DEF IsRows, IsABag, BagToSet
<1>4. IsRows(Dropping(A, S)) /\ BagToSet(Dropping(A, S)) = BagToSet(A) \ S  BY DropRows
<1>5. Aged(A, d) = Dropping(A, S) (+) C  BY DEF Aged
<1> DEFINE T == {Stale(b) : b \in S}
<1>2a. BagToSet(C) = T  BY <1>2
<1> HIDE DEF C, S, T
<1>6. IsRows(Aged(A, d)) /\ BagToSet(Aged(A, d)) = (BagToSet(A) \ S) \cup T
  BY <1>2a, <1>3, <1>4, <1>5, AddRows
<1>7. ASSUME NEW b \in BagToSet(Aged(A, d)), b.def = d PROVE ~b.fresh
  <2>1. CASE b \in BagToSet(A) \ S  BY <1>7, <2>1 DEF S
  <2>2. CASE \E x \in S : b = Stale(x)  BY <1>1, <2>2
  <2>. QED  BY <1>6, <2>1, <2>2 DEF T
<1>8. ASSUME NEW b, b.def # d PROVE b \in BagToSet(Aged(A, d)) <=> b \in BagToSet(A)
  BY <1>1, <1>6, <1>8 DEF S, T
<1>. QED  BY <1>6, <1>7, <1>8

\* Emptying touches the filled bindings of d only.
LEMMA EmptiedRows ==
  ASSUME NEW A, IsRows(A), NEW d, \A b \in BagToSet(A) : b.def = d => ~b.fresh
  PROVE  /\ IsRows(Emptied(A, d))
         /\ \A b \in BagToSet(Emptied(A, d)) : b.def = d => ~b.fresh
         /\ \A b : b.def # d => (b \in BagToSet(Emptied(A, d)) <=> b \in BagToSet(A))
<1> DEFINE S == {b \in BagToSet(A) : b.def = d /\ b.filled}
           C == [c \in {Unfilled(b) : b \in S} |-> A[[c EXCEPT !.filled = TRUE]]]
<1>1. ASSUME NEW b \in S
      PROVE  /\ Unfilled(b) \in Binding /\ Unfilled(b).def = d /\ Unfilled(b).fresh = FALSE
             /\ [Unfilled(b) EXCEPT !.filled = TRUE] = b
  <2>1. b \in Binding /\ b.def = d /\ b.filled = TRUE /\ b.fresh = FALSE  BY DEF IsRows, Binding
  <2>. QED  BY <2>1 DEF Binding, Unfilled
<1>2. BagToSet(C) = {Unfilled(b) : b \in S}  BY DEF BagToSet
<1>3. IsRows(C)
  <2>1. ASSUME NEW c \in BagToSet(C) PROVE c \in Binding /\ C[c] \in {n \in Nat : n > 0}
    <3>1. PICK b \in S : c = Unfilled(b)  BY <1>2
    <3>2. C[c] = A[b]  BY <1>1, <1>2, <3>1 DEF BagToSet
    <3>. QED  BY <1>1, <3>1, <3>2 DEF IsRows, IsABag, BagToSet
  <2>2. C = [c \in DOMAIN C |-> C[c]]  OBVIOUS
  <2>. QED  BY <2>1, <2>2 DEF IsRows, IsABag, BagToSet
<1>4. IsRows(Dropping(A, S)) /\ BagToSet(Dropping(A, S)) = BagToSet(A) \ S  BY DropRows
<1>5. Emptied(A, d) = Dropping(A, S) (+) C  BY DEF Emptied
<1> DEFINE T == {Unfilled(b) : b \in S}
<1>2a. BagToSet(C) = T  BY <1>2
<1> HIDE DEF C, S, T
<1>6. IsRows(Emptied(A, d)) /\ BagToSet(Emptied(A, d)) = (BagToSet(A) \ S) \cup T
  BY <1>2a, <1>3, <1>4, <1>5, AddRows
<1>7. ASSUME NEW b \in BagToSet(Emptied(A, d)), b.def = d PROVE ~b.fresh
  <2>1. CASE b \in BagToSet(A) \ S  BY <1>7, <2>1 DEF S
  <2>2. CASE \E x \in S : b = Unfilled(x)  BY <1>1, <2>2
  <2>. QED  BY <1>6, <2>1, <2>2 DEF T
<1>8. ASSUME NEW b, b.def # d PROVE b \in BagToSet(Emptied(A, d)) <=> b \in BagToSet(A)
  BY <1>1, <1>6, <1>8 DEF S, T
<1>. QED  BY <1>6, <1>7, <1>8

-----------------------------------------------------------------------------
(* Changes of one part of the documents                                      *)

\* An operation may do nothing.
LEMMA Untouched ==
  ASSUME NEW s, Sound(s), NEW c
  PROVE  Alike(s, s, c)
BY DEF Sound, Filled, Alike, SameHoles, RowsFrom, RowsStay

\* The library's packages play no role for bindings.
LEMMA PkgsAlike ==
  ASSUME NEW s, NEW u, NEW c, Alike(s, u, c), NEW P, P \subseteq Pkgs, NEW t, t = [u EXCEPT !.pkgs = P]
  PROVE  Alike(s, t, c)
<1>1. /\ DOMAIN t = Parts /\ t.defs = u.defs /\ t.known = u.known /\ t.wallets = u.wallets /\ t.rev = u.rev /\ t.pkgs = P
  BY DEF Alike, Typed, Parts
<1>2. \A w \in Wallets : Bound(t, w) = Bound(u, w)  BY <1>1 DEF Bound
<1>3. Typed(t)  BY <1>1, <1>2 DEF Alike, Typed
<1>4. \A b : Sure(t, b) <=> Sure(u, b)  BY <1>1 DEF Sure
<1>. QED  BY <1>1, <1>2, <1>3, <1>4 DEF Alike, SameHoles, RowsFrom, RowsStay

\* Definitions may lose holes; one that is edited, or new, is bound nowhere or only
\* by bindings that are not fresh.
LEMMA DefsAlike ==
  ASSUME NEW s, NEW u, NEW c, Alike(s, u, c), NEW D \in [DefIds -> Def \cup {None}], NEW t, t = [u EXCEPT !.defs = D],
         \A d \in DefIds :
           \/ u.defs[d] # None /\ D[d] # None /\ D[d].hole \in {u.defs[d].hole, "none"}
           \/ u.defs[d] = None /\ D[d] = None
           \/ /\ d \in Edited(c) \/ u.defs[d] = None
              /\ \A w \in Wallets : \A b \in Bound(u, w) : b.def = d => ~b.fresh
  PROVE  Alike(s, t, c)
<1>1. /\ DOMAIN t = Parts /\ t.defs = D /\ t.known = u.known /\ t.wallets = u.wallets /\ t.rev = u.rev /\ t.pkgs = u.pkgs
  BY DEF Alike, Typed, Parts
<1>2. \A w \in Wallets : Bound(t, w) = Bound(u, w)  BY <1>1 DEF Bound
<1>3. Typed(t)  BY <1>1, <1>2 DEF Alike, Typed
<1>4. SameHoles(s, t, Edited(c))
  <2> SUFFICES ASSUME NEW d \in DefIds, d \notin Edited(c), s.defs[d] # None
               PROVE  D[d] # None /\ D[d].hole \in {s.defs[d].hole, "none"}
    BY <1>1 DEF SameHoles
  <2>1. u.defs[d] # None /\ u.defs[d].hole \in {s.defs[d].hole, "none"}  BY DEF Alike, SameHoles
  <2>. QED  BY <2>1
<1>5. ASSUME NEW w \in Wallets PROVE RowsFrom(s, t, Edited(c), w)
  <2> SUFFICES ASSUME NEW b \in Bound(u, w), Sure(u, b) PROVE Sure(t, b)
    BY <1>2 DEF RowsFrom, Alike
  <2>1. b.def \in DefIds  BY RowsAreBindings DEF Alike
  <2>. QED  BY <1>1, <2>1 DEF Sure, Missing
<1>6. ASSUME NEW w \in Wallets PROVE RowsStay(s, t, Edited(c) \cup Taken(s, c, w), w)
  BY <1>1, <1>2 DEF RowsStay, Alike
<1>. QED  BY <1>3, <1>4, <1>5, <1>6 DEF Alike

\* Wallets change one by one.
LEMMA WalletsAlike ==
  ASSUME NEW s, NEW u, NEW c, Alike(s, u, c), NEW W, DOMAIN W = Wallets, NEW K, K \subseteq Wallets,
         NEW t, t = [u EXCEPT !.known = K, !.wallets = W],
         \A w \in Wallets : IsEntry(W[w]),
         \A w \in Wallets \ K : BagToSet(W[w].bindings) = {} /\ W[w].off = {},
         \A w \in Wallets : \A b \in BagToSet(W[w].bindings) : b \in Bound(u, w) \/ Sure(u, b),
         \A w \in Wallets : \A b \in Bound(s, w) : b \in Bound(u, w) /\ b.def \notin Edited(c) \cup Taken(s, c, w) =>
           b \in BagToSet(W[w].bindings) /\ (b.pkg \in W[w].off => b.pkg \in u.wallets[w].off)
  PROVE  Alike(s, t, c)
<1>1. /\ DOMAIN t = Parts /\ t.defs = u.defs /\ t.known = K /\ t.wallets = W /\ t.rev = u.rev /\ t.pkgs = u.pkgs
  BY DEF Alike, Typed, Parts
<1>2. \A w \in Wallets : Bound(t, w) = BagToSet(W[w].bindings)  BY <1>1 DEF Bound
<1>3. Typed(t)  BY <1>1, <1>2 DEF Alike, Typed
<1>4. \A b : Sure(t, b) <=> Sure(u, b)  BY <1>1 DEF Sure
<1>5. SameHoles(s, t, Edited(c))  BY <1>1 DEF SameHoles, Alike
<1>6. ASSUME NEW w \in Wallets PROVE RowsFrom(s, t, Edited(c), w)
  BY <1>2, <1>4 DEF RowsFrom, Alike
<1>7. ASSUME NEW w \in Wallets PROVE RowsStay(s, t, Edited(c) \cup Taken(s, c, w), w)
  BY <1>1, <1>2 DEF RowsStay, Alike
<1>. QED  BY <1>3, <1>5, <1>6, <1>7 DEF Alike

\* One wallet changes.
LEMMA WalletAlike ==
  ASSUME NEW s, Sound(s), NEW c, Edited(c) = {}, NEW v \in Wallets, NEW e, IsEntry(e), NEW K, K \subseteq Wallets,
         s.known \subseteq K, v \in K \/ (BagToSet(e.bindings) = {} /\ e.off = {}),
         NEW t, t = [s EXCEPT !.known = K, !.wallets[v] = e],
         \A b \in BagToSet(e.bindings) : b \in Bound(s, v) \/ Sure(s, b),
         \A b \in Bound(s, v) : b.def \notin Taken(s, c, v) =>
           b \in BagToSet(e.bindings) /\ (b.pkg \in e.off => b.pkg \in s.wallets[v].off)
  PROVE  Alike(s, t, c)
<1> DEFINE W == [s.wallets EXCEPT ![v] = e]
<1>1. /\ DOMAIN W = Wallets /\ W[v] = e /\ \A w \in Wallets \ {v} : W[w] = s.wallets[w]  BY DEF Sound, Typed
<1>2. t = [s EXCEPT !.known = K, !.wallets = W]  OBVIOUS
<1> HIDE DEF W
<1>3. Alike(s, s, c)  BY Untouched
<1>4. \A w \in Wallets : IsEntry(W[w])  BY <1>1 DEF Sound, Typed
<1>5. \A w \in Wallets \ K : BagToSet(W[w].bindings) = {} /\ W[w].off = {}
  BY <1>1 DEF Sound, Typed, Bound
<1>6. \A w \in Wallets : \A b \in BagToSet(W[w].bindings) : b \in Bound(s, w) \/ Sure(s, b)
  BY <1>1 DEF Bound
<1>7. ASSUME NEW w \in Wallets, NEW b \in Bound(s, w), b \in Bound(s, w), b.def \notin Edited(c) \cup Taken(s, c, w)
      PROVE  b \in BagToSet(W[w].bindings) /\ (b.pkg \in W[w].off => b.pkg \in s.wallets[w].off)
  BY <1>1, <1>7 DEF Bound
<1>. QED  BY <1>1, <1>2, <1>3, <1>4, <1>5, <1>6, <1>7, WalletsAlike

\* New rows, all of them filled.
LEMMA RowsAlike ==
  ASSUME NEW s, NEW u, NEW c, Alike(s, u, c), NEW ws, ws \subseteq Wallets, NEW R, R \subseteq Binding,
         \A b \in R : Sure(u, b), NEW t, t = WithRows(u, ws, R)
  PROVE  Alike(s, t, c) /\ \A w \in ws : Bound(t, w) = Bound(u, w) \cup R
<1> DEFINE New(e) == Added(e, R)
           W == [w \in Wallets |-> IF w \in ws THEN New(u.wallets[w]) ELSE u.wallets[w]]
           K == u.known \cup ws
<1>1. ASSUME NEW e, IsEntry(e)
      PROVE  /\ IsEntry(New(e)) /\ BagToSet(New(e).bindings) = BagToSet(e.bindings) \cup R
             /\ New(e).off = e.off
  <2> DEFINE f == New(e)
             B == e.bindings (+) SetToBag(R)
  <2>1. IsRows(B) /\ BagToSet(B) = BagToSet(e.bindings) \cup R  BY <1>1, AddRows, SetRows DEF IsEntry
  <2>2. DOMAIN f = Fields /\ f.bindings = B /\ f.off = e.off /\ f.pkgs = e.pkgs \cup Named(R)
    BY <1>1 DEF IsEntry, Fields, Added
  <2>3. Named(R) \subseteq Pkgs  BY DEF Named, Binding
  <2> HIDE DEF f, B
  <2>4. IsEntry(f) /\ BagToSet(f.bindings) = BagToSet(e.bindings) \cup R /\ f.off = e.off
    BY <1>1, <2>1, <2>2, <2>3 DEF IsEntry
  <2>. QED  BY <2>4 DEF f
<1> HIDE DEF New
<1>2. t = [u EXCEPT !.known = K, !.wallets = W]  BY DEF WithRows, New
<1>3. /\ DOMAIN W = Wallets /\ \A w \in Wallets : W[w] = IF w \in ws THEN New(u.wallets[w]) ELSE u.wallets[w]  OBVIOUS
<1>4. Typed(u)  BY DEF Alike
<1>5. \A w \in Wallets : IsEntry(u.wallets[w]) /\ Bound(u, w) = BagToSet(u.wallets[w].bindings)  BY <1>4 DEF Typed, Bound
<1> HIDE DEF W
<1>6. ASSUME NEW w \in Wallets
      PROVE  /\ IsEntry(W[w]) /\ W[w].off = u.wallets[w].off
             /\ BagToSet(W[w].bindings) = IF w \in ws THEN Bound(u, w) \cup R ELSE Bound(u, w)
  BY <1>1, <1>3, <1>5
<1>7. /\ K \subseteq Wallets /\ \A w \in Wallets \ K : BagToSet(W[w].bindings) = {} /\ W[w].off = {}
  BY <1>4, <1>6 DEF Typed
<1> HIDE DEF K
<1>8. Alike(s, t, c)
  <2>1. \A w \in Wallets : IsEntry(W[w])  BY <1>6
  <2>2. \A w \in Wallets : \A b \in BagToSet(W[w].bindings) : b \in Bound(u, w) \/ Sure(u, b)  BY <1>6
  <2>3. \A w \in Wallets : \A b \in Bound(s, w) : b \in Bound(u, w) /\ b.def \notin Edited(c) \cup Taken(s, c, w) =>
           b \in BagToSet(W[w].bindings) /\ (b.pkg \in W[w].off => b.pkg \in u.wallets[w].off)
    BY <1>6
  <2>4. DOMAIN W = Wallets  BY <1>3
  <2>. QED  BY ZenonT(60), SMTT(30), <1>2, <1>7, <2>1, <2>2, <2>3, <2>4, WalletsAlike
<1>9. t.wallets = W  BY <1>2, <1>4 DEF Typed, Parts
<1>. QED  BY <1>6, <1>8, <1>9 DEF Bound

\* The bindings of an edited definition change; those of others do not.
LEMMA ReboundAlike ==
  ASSUME NEW s, NEW u, NEW c, Alike(s, u, c), NEW d \in Edited(c), NEW rows, NEW t, t = Rebound(u, rows),
         \A w \in Wallets :
           /\ IsRows(rows[w])
           /\ \A b \in BagToSet(rows[w]) : b.def = d => ~b.fresh
           /\ \A b : b.def # d => (b \in BagToSet(rows[w]) <=> b \in Bound(u, w)),
         \A w \in Wallets : Bound(u, w) = {} => BagToSet(rows[w]) = {}
  PROVE  /\ Alike(s, t, c) /\ t.defs = u.defs
         /\ \A w \in Wallets : Bound(t, w) = BagToSet(rows[w]) /\ t.wallets[w].bindings = rows[w]
<1> DEFINE W == [w \in Wallets |-> [u.wallets[w] EXCEPT !.bindings = rows[w]]]
           K == u.known
<1>1. Typed(u)  BY DEF Alike
<1>2. t = [u EXCEPT !.known = K, !.wallets = W]  BY <1>1 DEF Rebound, Typed, Parts
<1>3. ASSUME NEW w \in Wallets
      PROVE  IsEntry(W[w]) /\ W[w].off = u.wallets[w].off /\ W[w].bindings = rows[w]
  BY <1>1 DEF Typed, IsEntry, Fields
<1>4. DOMAIN W = Wallets /\ K \subseteq Wallets  BY <1>1 DEF Typed
<1> HIDE DEF W
<1>5. \A w \in Wallets \ K : BagToSet(W[w].bindings) = {} /\ W[w].off = {}  BY <1>1, <1>3 DEF Typed
<1>6. t.wallets = W /\ t.defs = u.defs  BY <1>1, <1>2 DEF Typed, Parts
<1> HIDE DEF K
<1>7. \A w \in Wallets : \A b \in BagToSet(W[w].bindings) : b \in Bound(u, w) \/ Sure(u, b)
  BY <1>3 DEF Sure
<1>8. \A w \in Wallets : \A b \in Bound(s, w) : b \in Bound(u, w) /\ b.def \notin Edited(c) \cup Taken(s, c, w) =>
         b \in BagToSet(W[w].bindings) /\ (b.pkg \in W[w].off => b.pkg \in u.wallets[w].off)
  BY <1>3
<1>9. \A w \in Wallets : IsEntry(W[w])  BY <1>3
<1>10. Alike(s, t, c)  BY ONLY ZenonT(60), SMTT(30), Alike(s, u, c), <1>2, <1>4, <1>5, <1>7, <1>8, <1>9, WalletsAlike
<1>. QED  BY <1>3, <1>6, <1>10 DEF Bound

-----------------------------------------------------------------------------
(* Reading, and each operation                                               *)

\* normalizeWallets and normalizeHiddenDefs touch neither bindings nor holes.
LEMMA NormalSound ==
  ASSUME NEW s, Sound(s)
  PROVE  /\ Sound(Normal(s)) /\ Normal(s).known = s.known /\ Normal(s).rev = s.rev
         /\ \A w \in Wallets : Bound(Normal(s), w) = Bound(s, w) /\ Normal(s).wallets[w].off = s.wallets[w].off
         /\ \A w \in Wallets, d \in DefIds : Serves(s, w, d) => Serves(Normal(s), w, d)
<1> DEFINE n == Normal(s)
           W == [w \in Wallets |-> [s.wallets[w] EXCEPT !.pkgs = s.wallets[w].pkgs \cup Named(Bound(s, w))]]
           D == [d \in DefIds |-> IF s.defs[d] = None \/ s.defs[d].home # Nowhere \/ Holders(s, d) = {} THEN s.defs[d]
                        ELSE [s.defs[d] EXCEPT !.home = CHOOSE w \in Holders(s, d) : TRUE]]
<1>1. DOMAIN n = Parts /\ n.wallets = W /\ n.defs = D /\ n.known = s.known /\ n.rev = s.rev /\ n.pkgs = s.pkgs
  BY DEF Normal, Sound, Typed, Parts
<1>2. ASSUME NEW w \in Wallets
      PROVE  IsEntry(W[w]) /\ W[w].bindings = s.wallets[w].bindings /\ W[w].off = s.wallets[w].off
  <2>1. IsEntry(s.wallets[w])  BY DEF Sound, Typed
  <2>2. Bound(s, w) \subseteq Binding  BY <2>1 DEF Bound, IsEntry, IsRows
  <2>3. Named(Bound(s, w)) \subseteq Pkgs  BY <2>2 DEF Named, Binding
  <2>. QED  BY <2>1, <2>3 DEF IsEntry, Fields
<1>3. ASSUME NEW d \in DefIds
      PROVE  D[d] \in Def \cup {None} /\ (D[d] = None <=> s.defs[d] = None) /\ (D[d] # None => D[d].hole = s.defs[d].hole)
  <2>1. s.defs[d] \in Def \cup {None}  BY DEF Sound, Typed
  <2>2. CASE s.defs[d] = None \/ s.defs[d].home # Nowhere \/ Holders(s, d) = {}  BY <2>1, <2>2
  <2>3. CASE ~(s.defs[d] = None \/ s.defs[d].home # Nowhere \/ Holders(s, d) = {})
    <3> DEFINE v == CHOOSE w \in Holders(s, d) : TRUE
    <3>1. v \in Wallets  BY <2>3 DEF Holders
    <3>2. D[d] = [s.defs[d] EXCEPT !.home = v]  BY <2>3
    <3> HIDE DEF v, D
    <3>3. D[d] \in Def /\ D[d].hole = s.defs[d].hole  BY <2>1, <2>3, <3>1, <3>2 DEF Def
    <3>. QED  BY <2>3, <3>3, StoreAssumption
  <2>. QED  BY <2>2, <2>3
<1>4. DOMAIN W = Wallets /\ D \in [DefIds -> Def \cup {None}]  BY <1>3
<1> HIDE DEF n, W, D
<1>5. \A w \in Wallets : Bound(n, w) = Bound(s, w) /\ n.wallets[w].off = s.wallets[w].off  BY <1>1, <1>2 DEF Bound
<1>6. Typed(n)  BY <1>1, <1>2, <1>4, <1>5 DEF Sound, Typed
<1>7. ASSUME NEW w \in Wallets, NEW b \in Bound(n, w)
      PROVE  b.def \in DefIds /\ n.defs[b.def] # None /\ n.defs[b.def].hole = s.defs[b.def].hole /\ Sure(n, b)
  <2>1. b \in Bound(s, w)  BY <1>5
  <2>2. b.def \in DefIds /\ s.defs[b.def] # None /\ Sure(s, b)  BY <2>1, RowsAreBindings DEF Sound, Linked, Filled
  <2>3. n.defs[b.def] # None /\ n.defs[b.def].hole = s.defs[b.def].hole  BY <1>1, <1>3, <2>2
  <2>. QED  BY <2>2, <2>3 DEF Sure, Missing
<1>8. Sound(n)  BY <1>6, <1>7 DEF Sound, Linked, Filled
<1>9. ASSUME NEW w \in Wallets, NEW d \in DefIds, Serves(s, w, d) PROVE Serves(n, w, d)
  <2>1. PICK b \in Bound(s, w) : b.def = d /\ Effective(s, w, b)  BY <1>9 DEF Serves
  <2>2. b \in Bound(n, w) /\ Effective(n, w, b)  BY <1>5, <1>7, <2>1 DEF Effective, Missing
  <2>. QED  BY <2>1, <2>2 DEF Serves
<1>. QED  BY <1>1, <1>5, <1>8, <1>9 DEF n

\* pruneHiddenDefs changes where definitions are shown.
LEMMA PrunedAlike ==
  ASSUME NEW s, NEW u, NEW c, Alike(s, u, c)
  PROVE  Alike(s, Pruned(u), c)
<1> DEFINE D == [d \in DefIds |-> IF u.defs[d] = None \/ u.defs[d].home = Public THEN u.defs[d]
     ELSE IF u.defs[d].home # Nowhere /\ Registered(u, u.defs[d].home) THEN u.defs[d] ELSE [u.defs[d] EXCEPT !.home = Public]]
           t == Pruned(u)
<1>1. t = [u EXCEPT !.defs = D]  BY DEF Pruned
<1>2. ASSUME NEW d \in DefIds
      PROVE  /\ D[d] \in Def \cup {None} /\ (D[d] = None <=> u.defs[d] = None)
             /\ D[d] # None => D[d].hole \in {u.defs[d].hole, "none"}
  <2>1. u.defs[d] \in Def \cup {None}  BY DEF Alike, Typed
  <2>2. CASE D[d] = u.defs[d]  BY <2>1, <2>2
  <2>3. CASE u.defs[d] # None /\ D[d] = [u.defs[d] EXCEPT !.home = Public]
    <3> HIDE DEF D
    <3>1. D[d] \in Def /\ D[d].hole = u.defs[d].hole  BY <2>1, <2>3 DEF Def
    <3>. QED  BY <2>3, <3>1, StoreAssumption
  <2>. QED  BY <2>2, <2>3
<1>3. D \in [DefIds -> Def \cup {None}]  BY <1>2
<1> HIDE DEF D, t
<1>4. Alike(s, t, c)  BY <1>1, <1>2, <1>3, DefsAlike
<1>. QED  BY <1>4 DEF t

-----------------------------------------------------------------------------
\* The fields of a new row.
LEMMA RowIs ==
  ASSUME NEW d \in DefIds, NEW p \in Pkgs, NEW on \in BOOLEAN, NEW f \in BOOLEAN
  PROVE  /\ Row(d, p, on, f) \in Binding /\ Row(d, p, on, f).def = d /\ Row(d, p, on, f).pkg = p
         /\ Row(d, p, on, f).on = on /\ Row(d, p, on, f).filled = f
BY DEF Row, Binding

\* The commands about a wallet edit no definition.
LEMMA WalletAlikes ==
  ASSUME NEW s, Sound(s), NEW c \in WalletCommands, Fn(s, c) # Err
  PROVE  Alike(s, Fn(s, c), c)
<1> DEFINE t == Fn(s, c)
<1>1. Edited(c) = {}  BY DEF WalletCommands, Edited
<1>2. Typed(s) /\ \A w \in Wallets : IsEntry(s.wallets[w]) /\ Bound(s, w) = BagToSet(s.wallets[w].bindings)
  BY DEF Sound, Typed, Bound
<1>3. DOMAIN s = Parts /\ DOMAIN s.wallets = Wallets /\ s.known \subseteq Wallets  BY <1>2 DEF Typed
<1>4. CASE c \in [op : {"putWalletFolder"}, w : Wallets]
  <2> DEFINE K == s.known \cup {c.w}
             W == s.wallets
  <2>1. K \subseteq Wallets /\ s.known \subseteq K  BY <1>3, <1>4
  <2>2. t = [s EXCEPT !.known = K]  BY <1>4 DEF Fn, PutWalletFolder
  <2>3. t = [s EXCEPT !.known = K, !.wallets = W]  BY <1>3, <2>2 DEF Parts
  <2>4. DOMAIN W = Wallets /\ \A w \in Wallets : IsEntry(W[w])  BY <1>2, <1>3
  <2>5. \A w \in Wallets : BagToSet(W[w].bindings) = Bound(s, w) /\ W[w].off = s.wallets[w].off  BY <1>2
  <2>6. \A w \in Wallets \ K : BagToSet(W[w].bindings) = {} /\ W[w].off = {}  BY <1>2, <2>1 DEF Typed
  <2>7. Alike(s, s, c)  BY Untouched
  <2> HIDE DEF K, W, t
  <2>8. \A w \in Wallets : \A b \in BagToSet(W[w].bindings) : b \in Bound(s, w) \/ Sure(s, b)  BY <2>5
  <2>9. \A w \in Wallets : \A b \in Bound(s, w) : b \in Bound(s, w) /\ b.def \notin Edited(c) \cup Taken(s, c, w) =>
           b \in BagToSet(W[w].bindings) /\ (b.pkg \in W[w].off => b.pkg \in s.wallets[w].off)  BY <2>5
  <2>10. Alike(s, t, c)  BY ONLY <2>1, <2>3, <2>4, <2>6, <2>7, <2>8, <2>9, WalletsAlike
  <2>. QED  BY <2>10 DEF t
<1>5. CASE c \in [op : {"putWalletPackage"}, w : Wallets, p : Pkgs]
  <2> DEFINE v == c.w
             e == [s.wallets[v] EXCEPT !.pkgs = @ \cup {c.p}]
             K == s.known \cup {v}
  <2>1. v \in Wallets /\ c.p \in Pkgs  BY <1>5
  <2>2. t = PutWalletPackage(s, v, c.p)  BY <1>5 DEF Fn
  <2>3. t = [s EXCEPT !.known = K, !.wallets[v] = e]  BY <1>3, <2>1, <2>2 DEF PutWalletPackage, Parts
  <2>4. IsEntry(e) /\ e.bindings = s.wallets[v].bindings /\ e.off = s.wallets[v].off  BY <1>2, <2>1 DEF IsEntry, Fields
  <2>5. K \subseteq Wallets /\ v \in K /\ s.known \subseteq K /\ BagToSet(e.bindings) = Bound(s, v)
    BY <1>2, <1>3, <2>1, <2>4
  <2> HIDE DEF v, e, K, t
  <2>6. \A b \in Bound(s, v) : b.def \notin Taken(s, c, v) =>
           b \in BagToSet(e.bindings) /\ (b.pkg \in e.off => b.pkg \in s.wallets[v].off)
    BY <2>4, <2>5
  <2>7. \A b \in BagToSet(e.bindings) : b \in Bound(s, v) \/ Sure(s, b)  BY <2>5
  <2>8. Alike(s, t, c)  BY ONLY Sound(s), <1>1, <2>1, <2>3, <2>4, <2>5, <2>6, <2>7, WalletAlike
  <2>. QED  BY <2>8 DEF t
<1>6. CASE c \in [op : {"removePackageFromWallet"}, w : Wallets, p : Pkgs]
  <2> DEFINE v == c.w
             S == {b \in Bound(s, v) : b.pkg = c.p}
             e == [bindings |-> Dropping(s.wallets[v].bindings, S), pkgs |-> s.wallets[v].pkgs \ {c.p}, off |-> s.wallets[v].off \ {c.p}]
             K == s.known
             u == [s EXCEPT !.known = K, !.wallets[v] = e]
  <2>1. v \in Wallets  BY <1>6
  <2>2. t = RemovePackage(s, v, c.p)  BY <1>6 DEF Fn
  <2>3. Taken(s, c, v) = {b.def : b \in S}  BY <1>6 DEF Taken
  <2>4. CASE ~Registered(s, v)
    <3>1. t = s  BY <2>2, <2>4 DEF RemovePackage
    <3>. QED  BY <3>1, Untouched
  <2>5. CASE Registered(s, v)
    <3>1. t = Pruned(u)  BY <1>3, <2>1, <2>2, <2>5 DEF RemovePackage, Parts
    <3>2. IsRows(e.bindings) /\ BagToSet(e.bindings) = Bound(s, v) \ S  BY <1>2, <2>1, DropRows DEF IsEntry
    <3>3. IsEntry(e) /\ e.off \subseteq s.wallets[v].off  BY <1>2, <2>1, <3>2 DEF IsEntry, Fields
    <3>4. v \in K /\ K \subseteq Wallets /\ s.known \subseteq K  BY <1>3, <2>5 DEF Registered
    <3>5. \A b \in Bound(s, v) : b.def \notin Taken(s, c, v) => b \notin S  BY <2>3
    <3>6. u = [s EXCEPT !.known = K, !.wallets[v] = e]  OBVIOUS
    <3> HIDE DEF v, S, e, K, u, t
    <3>7. Alike(s, u, c)  BY <1>1, <2>1, <3>2, <3>3, <3>4, <3>5, <3>6, WalletAlike
    <3>8. Alike(s, t, c)  BY <3>1, <3>7, PrunedAlike
    <3>. QED  BY <3>8 DEF t
  <2>. QED  BY <2>4, <2>5
<1>7. CASE c \in [op : {"setPackageEnabled"}, w : Wallets, p : Pkgs, on : BOOLEAN]
  <2> DEFINE v == c.w
             e == [s.wallets[v] EXCEPT !.off = IF c.on THEN @ \ {c.p} ELSE @ \cup {c.p}]
             K == s.known \cup {v}
  <2>1. v \in Wallets /\ c.p \in Pkgs  BY <1>7
  <2>2. t = SetPackageEnabled(s, v, c.p, c.on)  BY <1>7 DEF Fn
  <2>3. t = [s EXCEPT !.known = K, !.wallets[v] = e]  BY <1>3, <2>1, <2>2 DEF SetPackageEnabled, Parts
  <2>4. IsEntry(e) /\ e.bindings = s.wallets[v].bindings /\ e.off \subseteq s.wallets[v].off \cup {c.p}
    BY <1>2, <2>1 DEF IsEntry, Fields
  <2>5. K \subseteq Wallets /\ v \in K /\ s.known \subseteq K /\ BagToSet(e.bindings) = Bound(s, v)
    BY <1>2, <1>3, <2>1, <2>4
  <2>6. Taken(s, c, v) = {b.def : b \in {x \in Bound(s, v) : x.pkg = c.p}}  BY <1>7 DEF Taken
  <2>7. \A b \in Bound(s, v) : b.def \notin Taken(s, c, v) => b.pkg # c.p  BY <2>6
  <2> HIDE DEF v, e, K, t
  <2>8. \A b \in Bound(s, v) : b.def \notin Taken(s, c, v) =>
           b \in BagToSet(e.bindings) /\ (b.pkg \in e.off => b.pkg \in s.wallets[v].off)
    BY <2>4, <2>5, <2>7
  <2>9. \A b \in BagToSet(e.bindings) : b \in Bound(s, v) \/ Sure(s, b)  BY <2>5
  <2>10. Alike(s, t, c)  BY ONLY Sound(s), <1>1, <2>1, <2>3, <2>4, <2>5, <2>8, <2>9, WalletAlike
  <2>. QED  BY <2>10 DEF t
<1>8. CASE c \in [op : {"provisionWallets"}, ws : Some(Wallets)]
  <2> DEFINE ws == {w \in c.ws : ~Registered(s, w)}
             R == {Row(d, s.defs[d].pkg, TRUE, s.defs[d].hole = "filled") : d \in Defaults(s)}
  <2>1. t = WithRows(s, ws, R)  BY <1>8 DEF Fn, Provision
  <2>2. ws \subseteq Wallets  BY <1>8 DEF Some
  <2>3. ASSUME NEW b \in R PROVE b \in Binding /\ Sure(s, b)
    <3>1. PICK d \in Defaults(s) : b = Row(d, s.defs[d].pkg, TRUE, s.defs[d].hole = "filled")  OBVIOUS
    <3>2. d \in DefIds /\ s.defs[d] # None /\ ~Missing(s.defs[d], FALSE)  BY DEF Defaults, Library
    <3>3. s.defs[d] \in Def  BY <1>2, <3>2 DEF Typed
    <3>4. s.defs[d].pkg \in Pkgs /\ s.defs[d].hole # "blank"  BY <3>2, <3>3 DEF Def, Missing
    <3>5. (s.defs[d].hole = "filled") \in BOOLEAN  OBVIOUS
    <3>6. b \in Binding /\ b.def = d  BY <3>1, <3>2, <3>4, <3>5, RowIs
    <3>. QED  BY <3>4, <3>6 DEF Sure, Missing
  <2>4. R \subseteq Binding /\ \A b \in R : Sure(s, b)  BY <2>3
  <2>5. Alike(s, s, c)  BY Untouched
  <2> HIDE DEF ws, R, t
  <2>6. Alike(s, t, c)  BY <2>1, <2>2, <2>4, <2>5, RowsAlike
  <2>. QED  BY <2>6 DEF t
<1>9. CASE c \in [op : {"bind"}, ws : Some(Wallets), d : DefIds, p : Pkgs, filled : BOOLEAN, on : BOOLEAN]
  <2> DEFINE b == Row(c.d, c.p, c.on, c.filled)
             R == {b}
  <2>1. t = Bind(s, c.ws, c.d, c.p, c.filled, c.on) /\ c.ws \subseteq Wallets  BY <1>9 DEF Fn, Some
  <2>2. ~(s.defs[c.d] # None /\ Missing(s.defs[c.d], c.filled)) /\ t = WithRows(s, c.ws, R)  BY <2>1 DEF Bind
  <2>3. b \in Binding /\ b.def = c.d /\ b.filled = c.filled  BY <1>9, RowIs
  <2> HIDE DEF b, t
  <2>4. Sure(s, b)  BY <2>2, <2>3 DEF Sure
  <2>5. R \subseteq Binding /\ \A x \in R : Sure(s, x)  BY <2>3, <2>4
  <2>6. Alike(s, s, c)  BY Untouched
  <2> HIDE DEF R
  <2>7. Alike(s, t, c)  BY <2>1, <2>2, <2>5, <2>6, RowsAlike
  <2>. QED  BY <2>7 DEF t
<1>. QED  BY <1>4, <1>5, <1>6, <1>7, <1>8, <1>9 DEF WalletCommands

\* A binding of wallet v is replaced by one that is filled, or taken away.
LEMMA RowAlike ==
  ASSUME NEW s, Sound(s), NEW c, Edited(c) = {}, NEW v \in Wallets, NEW b \in Bound(s, v),
         Taken(s, c, v) = {b.def}, NEW B, IsRows(B), NEW t, t = [s EXCEPT !.wallets[v].bindings = B],
         Bound(s, v) \ {b} \subseteq BagToSet(B),
         \A x \in BagToSet(B) : x \in Bound(s, v) \/ Sure(s, x)
  PROVE  Alike(s, t, c)
<1> DEFINE e == [s.wallets[v] EXCEPT !.bindings = B]
           K == s.known
<1>1. Typed(s) /\ IsEntry(s.wallets[v]) /\ DOMAIN s = Parts  BY DEF Sound, Typed
<1>2. t = [s EXCEPT !.known = K, !.wallets[v] = e]  BY <1>1 DEF Parts
<1>3. IsEntry(e) /\ e.bindings = B /\ e.off = s.wallets[v].off  BY <1>1 DEF IsEntry, Fields
<1>4. v \in K /\ K \subseteq Wallets /\ s.known \subseteq K  BY <1>1 DEF Typed
<1> HIDE DEF e, K
<1>5. \A x \in BagToSet(e.bindings) : x \in Bound(s, v) \/ Sure(s, x)  BY <1>3
<1>6. \A x \in Bound(s, v) : x.def \notin Taken(s, c, v) =>
        x \in BagToSet(e.bindings) /\ (x.pkg \in e.off => x.pkg \in s.wallets[v].off)
  BY <1>3
<1>. QED  BY ONLY Sound(s), Edited(c) = {}, v \in Wallets, <1>2, <1>3, <1>4, <1>5, <1>6, WalletAlike

\* Patched puts one binding in the place of another.
LEMMA PatchedAlike ==
  ASSUME NEW s, Sound(s), NEW c, Edited(c) = {}, NEW v \in Wallets, NEW b \in Bound(s, v),
         Taken(s, c, v) = {b.def}, NEW x \in Binding, Sure(s, x)
  PROVE  Alike(s, Patched(s, v, b, x), c)
<1> DEFINE A == s.wallets[v].bindings
           L == OneLess(A, b)
           X == SetToBag({x})
           B == L (+) X
           t == Patched(s, v, b, x)
<1>1. IsRows(A) /\ BagToSet(A) = Bound(s, v)  BY DEF Sound, Typed, IsEntry, Bound
<1>2. t = [s EXCEPT !.wallets[v].bindings = B]  BY DEF Patched
<1>2a. L = OneLess(A, b)  OBVIOUS
<1> HIDE DEF A, L
<1>3. /\ IsRows(L) /\ BagToSet(L) \subseteq Bound(s, v) /\ Bound(s, v) \ {b} \subseteq BagToSet(L)
  BY <1>1, <1>2a, LessRows
<1>4. {x} \subseteq Binding  OBVIOUS
<1>5. IsRows(X) /\ BagToSet(X) = {x}  BY <1>4, SetRows
<1> HIDE DEF X
<1>6. IsRows(B) /\ BagToSet(B) = BagToSet(L) \cup {x}  BY <1>3, <1>5, AddRows
<1> HIDE DEF B, t
<1>7. Bound(s, v) \ {b} \subseteq BagToSet(B) /\ \A y \in BagToSet(B) : y \in Bound(s, v) \/ Sure(s, y)
  BY <1>3, <1>6
<1>8. Alike(s, t, c)  BY <1>2, <1>6, <1>7, RowAlike
<1>. QED  BY <1>8 DEF t

\* The commands about a row of a wallet take its definition at most.
LEMMA RowAlikes ==
  ASSUME NEW s, Sound(s), NEW w \in Wallets, NEW c \in RowCommands(s, w), Fn(s, c) # Err
  PROVE  Alike(s, Fn(s, c), c)
<1>1. Edited(c) = {}  BY DEF RowCommands, Edited
<1>2. Typed(s)  BY DEF Sound
<1>3. CASE c \in [op : {"removeBinding", "toggleBinding"}, w : {w}, b : Bound(s, w)] /\ c.op = "removeBinding"
  <2> DEFINE b == c.b
             A == s.wallets[w].bindings
             B == OneLess(A, b)
             u == [s EXCEPT !.wallets[w].bindings = B]
             t == Fn(s, c)
  <2>1. b \in Bound(s, w) /\ c.w = w  BY <1>3
  <2>2. t = Pruned(u)  BY <1>3, <2>1 DEF Fn, RemoveBinding
  <2>3. Taken(s, c, w) = {b.def}  BY <1>3, <2>1 DEF Taken
  <2>4. IsRows(A) /\ BagToSet(A) = Bound(s, w)  BY DEF Sound, Typed, IsEntry, Bound
  <2>4a. B = OneLess(A, b)  OBVIOUS
  <2>6. u = [s EXCEPT !.wallets[w].bindings = B]  OBVIOUS
  <2> HIDE DEF b, A, B, u, t
  <2>5. IsRows(B) /\ BagToSet(B) \subseteq Bound(s, w) /\ Bound(s, w) \ {b} \subseteq BagToSet(B)  BY <2>4, <2>4a, LessRows
  <2>7. \A y \in BagToSet(B) : y \in Bound(s, w) \/ Sure(s, y)  BY <2>5
  <2>8. Alike(s, u, c)  BY ONLY Sound(s), w \in Wallets, <1>1, <2>1, <2>3, <2>5, <2>6, <2>7, RowAlike
  <2>9. Alike(s, t, c)  BY <2>2, <2>8, PrunedAlike
  <2>. QED  BY <2>9 DEF t
<1>4. ASSUME NEW b \in Bound(s, w)
      PROVE  b \in Binding /\ Sure(s, b) /\ s.defs[b.def] # None
  BY <1>2, RowsAreBindings DEF Sound, Filled, Linked
<1>5. CASE c \in [op : {"removeBinding", "toggleBinding"}, w : {w}, b : Bound(s, w)] /\ c.op = "toggleBinding"
  <2> DEFINE b == c.b
             x == [b EXCEPT !.on = ~b.on]
  <2>1. b \in Bound(s, w) /\ c.w = w  BY <1>5
  <2>2. Fn(s, c) = Patched(s, w, b, x)  BY <1>5, <2>1 DEF Fn
  <2>3. Taken(s, c, w) = {b.def}  BY <1>5, <2>1 DEF Taken
  <2>4. b \in Binding /\ Sure(s, b)  BY <1>4, <2>1
  <2>5. x \in Binding /\ x.def = b.def /\ x.filled = b.filled /\ x.fresh = b.fresh  BY <2>4 DEF Binding
  <2>6. Sure(s, x)  BY <2>4, <2>5 DEF Sure
  <2> HIDE DEF b, x
  <2>. QED  BY <1>1, <2>1, <2>2, <2>3, <2>5, <2>6, PatchedAlike
<1>6. CASE c \in [op : {"patchParams"}, w : {w}, b : Bound(s, w), filled : BOOLEAN]
  <2> DEFINE b == c.b
             x == [b EXCEPT !.filled = c.filled, !.fresh = TRUE]
  <2>1. b \in Bound(s, w) /\ c.w = w /\ c.filled \in BOOLEAN  BY <1>6
  <2>2. Fn(s, c) = PatchParams(s, w, b, c.filled)  BY <1>6, <2>1 DEF Fn
  <2>3. Fn(s, c) = Patched(s, w, b, x) /\ ~Missing(s.defs[b.def], c.filled)  BY <2>2 DEF PatchParams
  <2>4. Taken(s, c, w) = {b.def}  BY <1>6, <2>1 DEF Taken
  <2>5. b \in Binding  BY <1>4, <2>1
  <2>6. x \in Binding /\ x.def = b.def /\ x.filled = c.filled  BY <2>1, <2>5 DEF Binding
  <2>7. Sure(s, x)  BY <2>3, <2>6 DEF Sure
  <2> HIDE DEF b, x
  <2>. QED  BY <1>1, <2>1, <2>3, <2>4, <2>6, <2>7, PatchedAlike
<1>7. CASE c \in [op : {"patchPackage"}, w : {w}, b : Bound(s, w), p : Pkgs]
  <2> DEFINE b == c.b
             x == [b EXCEPT !.pkg = c.p]
  <2>1. b \in Bound(s, w) /\ c.w = w /\ c.p \in Pkgs  BY <1>7
  <2>2. Fn(s, c) = Patched(s, w, b, x)  BY <1>7, <2>1 DEF Fn
  <2>3. Taken(s, c, w) = {b.def}  BY <1>7, <2>1 DEF Taken
  <2>4. b \in Binding /\ Sure(s, b)  BY <1>4, <2>1
  <2>5. x \in Binding /\ x.def = b.def /\ x.filled = b.filled /\ x.fresh = b.fresh  BY <2>1, <2>4 DEF Binding
  <2>6. Sure(s, x)  BY <2>4, <2>5 DEF Sure
  <2> HIDE DEF b, x
  <2>. QED  BY <1>1, <2>1, <2>2, <2>3, <2>5, <2>6, PatchedAlike
<1>8. CASE c \in [op : {"copyBindings"}, w : {w}, to : Wallets,
                   rows : {{b} : b \in Bound(s, w)} \cup {r \in {Bound(s, w)} : r # {}}]
  <2> DEFINE R == c.rows
             ws == {c.to}
             t == Fn(s, c)
  <2>1. R \subseteq Bound(s, w) /\ ws \subseteq Wallets  BY <1>8
  <2>2. t = WithRows(s, ws, R)  BY <1>8 DEF Fn
  <2>3. R \subseteq Binding /\ \A x \in R : Sure(s, x)  BY <1>4, <2>1
  <2>4. Alike(s, s, c)  BY Untouched
  <2> HIDE DEF R, ws, t
  <2>5. Alike(s, t, c)  BY <2>1, <2>2, <2>3, <2>4, RowsAlike
  <2>. QED  BY <2>5 DEF t
<1>. QED  BY <1>3, <1>5, <1>6, <1>7, <1>8 DEF RowCommands

\* putDef's part in the bindings: those of the definition may be outdated now.
LEMMA OutdatedAlike ==
  ASSUME NEW s, NEW u, NEW c, Alike(s, u, c), NEW d \in Edited(c)
  PROVE  /\ Alike(s, Outdated(u, d), c) /\ Outdated(u, d).defs = u.defs
         /\ \A w \in Wallets : \A b \in Bound(Outdated(u, d), w) : b.def = d => ~b.fresh
<1> DEFINE rows == [w \in Wallets |-> Aged(u.wallets[w].bindings, d)]
           t == Outdated(u, d)
<1>1. t = Rebound(u, rows)  BY DEF Outdated
<1>2. ASSUME NEW w \in Wallets
      PROVE  /\ IsRows(rows[w])
             /\ \A b \in BagToSet(rows[w]) : b.def = d => ~b.fresh
             /\ \A b : b.def # d => (b \in BagToSet(rows[w]) <=> b \in Bound(u, w))
             /\ Bound(u, w) = {} => BagToSet(rows[w]) = {}
  <2> DEFINE A == u.wallets[w].bindings
             Z == Aged(A, d)
  <2>1. IsRows(A) /\ BagToSet(A) = Bound(u, w)  BY DEF Alike, Typed, IsEntry, Bound
  <2>2. rows[w] = Z  OBVIOUS
  <2>3. Bound(u, w) = {} => BagToSet(Z) = {}
    <3> SUFFICES ASSUME Bound(u, w) = {} PROVE BagToSet(Z) = {}  OBVIOUS
    <3>1. {b \in BagToSet(A) : b.def = d /\ b.fresh} = {}  BY <2>1
    <3> HIDE DEF A
    <3>. QED  BY <2>1, <3>1 DEF Aged, Dropping, BagToSet, (+)
  <2> HIDE DEF A, rows
  <2>4. /\ IsRows(Z)
        /\ \A b \in BagToSet(Z) : b.def = d => ~b.fresh
        /\ \A b : b.def # d => (b \in BagToSet(Z) <=> b \in BagToSet(A))
    BY <2>1, AgedRows
  <2> HIDE DEF Z
  <2>. QED  BY <2>1, <2>2, <2>3, <2>4
<1> HIDE DEF rows, t
<1>3. \A w \in Wallets :
           /\ IsRows(rows[w])
           /\ \A b \in BagToSet(rows[w]) : b.def = d => ~b.fresh
           /\ \A b : b.def # d => (b \in BagToSet(rows[w]) <=> b \in Bound(u, w))
  BY <1>2
<1>4. \A w \in Wallets : Bound(u, w) = {} => BagToSet(rows[w]) = {}  BY <1>2
<1>5. /\ Alike(s, t, c) /\ t.defs = u.defs
      /\ \A w \in Wallets : Bound(t, w) = BagToSet(rows[w]) /\ t.wallets[w].bindings = rows[w]
  BY ONLY Alike(s, u, c), d \in Edited(c), <1>1, <1>3, <1>4, ReboundAlike
<1>6. \A w \in Wallets : \A b \in Bound(t, w) : b.def = d => ~b.fresh  BY <1>3, <1>5
<1>. QED  BY <1>5, <1>6 DEF t

\* installMarket's: they lose their value as well.
LEMMA ClearedAlike ==
  ASSUME NEW s, NEW u, NEW c, Alike(s, u, c), NEW d \in Edited(c),
         \A w \in Wallets : \A b \in Bound(u, w) : b.def = d => ~b.fresh
  PROVE  /\ Alike(s, Cleared(u, d), c) /\ Cleared(u, d).defs = u.defs
         /\ \A w \in Wallets : \A b \in Bound(Cleared(u, d), w) : b.def = d => ~b.fresh
<1> DEFINE rows == [w \in Wallets |-> Emptied(u.wallets[w].bindings, d)]
           t == Cleared(u, d)
<1>1. t = Rebound(u, rows)  BY DEF Cleared
<1>2. ASSUME NEW w \in Wallets
      PROVE  /\ IsRows(rows[w])
             /\ \A b \in BagToSet(rows[w]) : b.def = d => ~b.fresh
             /\ \A b : b.def # d => (b \in BagToSet(rows[w]) <=> b \in Bound(u, w))
             /\ Bound(u, w) = {} => BagToSet(rows[w]) = {}
  <2> DEFINE A == u.wallets[w].bindings
             Z == Emptied(A, d)
  <2>1. IsRows(A) /\ BagToSet(A) = Bound(u, w)  BY DEF Alike, Typed, IsEntry, Bound
  <2>2. rows[w] = Z  OBVIOUS
  <2>3. Bound(u, w) = {} => BagToSet(Z) = {}
    <3> SUFFICES ASSUME Bound(u, w) = {} PROVE BagToSet(Z) = {}  OBVIOUS
    <3>1. {b \in BagToSet(A) : b.def = d /\ b.filled} = {}  BY <2>1
    <3> HIDE DEF A
    <3>. QED  BY <2>1, <3>1 DEF Emptied, Dropping, BagToSet, (+)
  <2> HIDE DEF A, rows
  <2>a. \A b \in BagToSet(A) : b.def = d => ~b.fresh  BY <2>1
  <2>4. /\ IsRows(Z)
        /\ \A b \in BagToSet(Z) : b.def = d => ~b.fresh
        /\ \A b : b.def # d => (b \in BagToSet(Z) <=> b \in BagToSet(A))
    BY <2>1, <2>a, EmptiedRows
  <2> HIDE DEF Z
  <2>. QED  BY <2>1, <2>2, <2>3, <2>4
<1> HIDE DEF rows, t
<1>3. \A w \in Wallets :
           /\ IsRows(rows[w])
           /\ \A b \in BagToSet(rows[w]) : b.def = d => ~b.fresh
           /\ \A b : b.def # d => (b \in BagToSet(rows[w]) <=> b \in Bound(u, w))
  BY <1>2
<1>4. \A w \in Wallets : Bound(u, w) = {} => BagToSet(rows[w]) = {}  BY <1>2
<1>5. /\ Alike(s, t, c) /\ t.defs = u.defs
      /\ \A w \in Wallets : Bound(t, w) = BagToSet(rows[w]) /\ t.wallets[w].bindings = rows[w]
  BY ONLY Alike(s, u, c), d \in Edited(c), <1>1, <1>3, <1>4, ReboundAlike
<1>6. \A w \in Wallets : \A b \in Bound(t, w) : b.def = d => ~b.fresh  BY <1>3, <1>5
<1>. QED  BY <1>5, <1>6 DEF t

\* A definition the command edits may be replaced or deleted when no binding of it is fresh.
LEMMA DefAlike ==
  ASSUME NEW s, NEW u, NEW c, Alike(s, u, c), NEW d \in DefIds, d \in Edited(c), NEW f \in Def \cup {None},
         \A w \in Wallets : \A b \in Bound(u, w) : b.def = d => ~b.fresh,
         NEW t, t = [u EXCEPT !.defs[d] = f]
  PROVE  Alike(s, t, c)
<1> DEFINE D == [u.defs EXCEPT ![d] = f]
<1>1. u.defs \in [DefIds -> Def \cup {None}] /\ DOMAIN u = Parts  BY DEF Alike, Typed
<1>2. D \in [DefIds -> Def \cup {None}] /\ D[d] = f /\ \A x \in DefIds \ {d} : D[x] = u.defs[x]  BY <1>1
<1>3. t = [u EXCEPT !.defs = D] /\ t.defs = D  BY <1>1 DEF Parts
<1> HIDE DEF D
<1>4. ASSUME NEW x \in DefIds
      PROVE  \/ u.defs[x] # None /\ D[x] # None /\ D[x].hole \in {u.defs[x].hole, "none"}
             \/ u.defs[x] = None /\ D[x] = None
             \/ /\ x \in Edited(c) \/ u.defs[x] = None
                /\ \A w \in Wallets : \A b \in Bound(u, w) : b.def = x => ~b.fresh
  <2>1. CASE x = d  BY <2>1
  <2>2. CASE x # d  BY <1>2, <2>2
  <2>. QED  BY <2>1, <2>2
<1>5. Alike(s, t, c)  BY ONLY Alike(s, u, c), <1>2, <1>3, <1>4, DefsAlike
<1>. QED  BY <1>2, <1>3, <1>5

\* putDef: the bindings of the old definition are no longer fresh.
LEMMA PutDefAlike ==
  ASSUME NEW s, Sound(s), NEW c, NEW d \in DefIds, d \in Edited(c), NEW f \in Def
  PROVE  Alike(s, PutDef(s, d, f), c)
<1> DEFINE u == Outdated(s, d)
           t == PutDef(s, d, f)
<1>1. Alike(s, s, c)  BY Untouched
<1>2. Alike(s, u, c) /\ \A w \in Wallets : \A b \in Bound(u, w) : b.def = d => ~b.fresh  BY <1>1, OutdatedAlike
<1>3. t = [u EXCEPT !.defs[d] = f]  BY DEF PutDef
<1> HIDE DEF u, t
<1>4. Alike(s, t, c)  BY <1>2, <1>3, DefAlike
<1>. QED  BY <1>4 DEF t

\* deleteDef: the bindings go with the definition.
LEMMA DeleteDefAlike ==
  ASSUME NEW s, Sound(s), NEW c, NEW d \in DefIds, d \in Edited(c)
  PROVE  Alike(s, DeleteDef(s, d), c)
<1> DEFINE rows == [w \in Wallets |-> Dropping(s.wallets[w].bindings, {b \in Bound(s, w) : b.def = d})]
           u == Rebound(s, rows)
           t == DeleteDef(s, d)
<1>1. Alike(s, s, c)  BY Untouched
<1>2. t = [u EXCEPT !.defs[d] = None]  BY DEF DeleteDef
<1>3. ASSUME NEW w \in Wallets
      PROVE  IsRows(rows[w]) /\ BagToSet(rows[w]) = {b \in Bound(s, w) : b.def # d}
  <2> DEFINE A == s.wallets[w].bindings
             S == {b \in Bound(s, w) : b.def = d}
             Z == Dropping(A, S)
  <2>1. IsRows(A) /\ BagToSet(A) = Bound(s, w)  BY DEF Sound, Typed, IsEntry, Bound
  <2>2. rows[w] = Z  OBVIOUS
  <2> HIDE DEF A, S, rows
  <2>3. IsRows(Z) /\ BagToSet(Z) = Bound(s, w) \ S  BY <2>1, DropRows
  <2> HIDE DEF Z
  <2>. QED  BY <2>2, <2>3 DEF S
<1>4. u = Rebound(s, rows)  OBVIOUS
<1> HIDE DEF rows, u, t
<1>5. \A w \in Wallets :
           /\ IsRows(rows[w])
           /\ \A b \in BagToSet(rows[w]) : b.def = d => ~b.fresh
           /\ \A b : b.def # d => (b \in BagToSet(rows[w]) <=> b \in Bound(s, w))
  BY <1>3
<1>6. \A w \in Wallets : Bound(s, w) = {} => BagToSet(rows[w]) = {}  BY <1>3
<1>7. Alike(s, u, c) /\ \A w \in Wallets : Bound(u, w) = BagToSet(rows[w])
  BY ONLY d \in Edited(c), <1>1, <1>4, <1>5, <1>6, ReboundAlike
<1>8. \A w \in Wallets : \A b \in Bound(u, w) : b.def = d => ~b.fresh  BY <1>5, <1>7
<1>9. Alike(s, t, c)  BY <1>2, <1>7, <1>8, DefAlike
<1>. QED  BY <1>9 DEF t

\* Nothing is bound to the copy's new id.
LEMMA DuplicateDefAlike ==
  ASSUME NEW s, Sound(s), NEW c, NEW d \in DefIds, NEW new \in DefIds, new \in Edited(c), s.defs[new] = None,
         DuplicateDef(s, d, new) # Err
  PROVE  Alike(s, DuplicateDef(s, d, new), c)
<1> DEFINE f == [s.defs[d] EXCEPT !.source = "mine"]
           t == DuplicateDef(s, d, new)
<1>1. s.defs[d] # None /\ t = [s EXCEPT !.defs[new] = f]  BY DEF DuplicateDef
<1>2. f \in Def
  <2>1. s.defs[d] \in Def  BY <1>1 DEF Sound, Typed
  <2>. QED  BY <2>1 DEF Def
<1>3. \A w \in Wallets : \A b \in Bound(s, w) : b.def = new => ~b.fresh  BY DEF Sound, Linked
<1>4. Alike(s, s, c)  BY Untouched
<1> HIDE DEF f, t
<1>5. Alike(s, t, c)  BY <1>1, <1>2, <1>3, <1>4, DefAlike
<1>. QED  BY <1>5 DEF t

\* deletePackage: the members become uncategorised.
LEMMA DeletePackageAlike ==
  ASSUME NEW s, Sound(s), NEW c, NEW p \in Pkgs, DeletePackage(s, p) # Err
  PROVE  Alike(s, DeletePackage(s, p), c)
<1> DEFINE D == [d \in DefIds |-> IF s.defs[d] # None /\ s.defs[d].pkg = p THEN [s.defs[d] EXCEPT !.pkg = Blank] ELSE s.defs[d]]
           P == s.pkgs \ {p}
           u == [s EXCEPT !.pkgs = P]
           t == DeletePackage(s, p)
<1>1. t = [s EXCEPT !.pkgs = P, !.defs = D]  BY DEF DeletePackage
<1>2. DOMAIN s = Parts /\ P \subseteq Pkgs  BY DEF Sound, Typed
<1>3. t = [u EXCEPT !.defs = D] /\ u.defs = s.defs  BY <1>1, <1>2 DEF Parts
<1>4. ASSUME NEW d \in DefIds
      PROVE  /\ D[d] \in Def \cup {None}
             /\ \/ s.defs[d] # None /\ D[d] # None /\ D[d].hole \in {s.defs[d].hole, "none"}
                \/ s.defs[d] = None /\ D[d] = None
  <2>1. s.defs[d] \in Def \cup {None}  BY DEF Sound, Typed
  <2>2. CASE D[d] = s.defs[d]  BY <2>1, <2>2
  <2>3. CASE s.defs[d] # None /\ D[d] = [s.defs[d] EXCEPT !.pkg = Blank]
    <3> HIDE DEF D
    <3>1. D[d] \in Def /\ D[d].hole = s.defs[d].hole  BY <2>1, <2>3, StoreAssumption DEF Def, Blank
    <3>. QED  BY <2>3, <3>1, StoreAssumption
  <2>. QED  BY <2>2, <2>3
<1>5. D \in [DefIds -> Def \cup {None}]  BY <1>4
<1>6. u = [s EXCEPT !.pkgs = P]  OBVIOUS
<1> HIDE DEF D, P, u, t
<1>7. Alike(s, s, c)  BY Untouched
<1>8. Alike(s, u, c)  BY <1>2, <1>6, <1>7, PkgsAlike
<1>9. \A d \in DefIds :
           \/ u.defs[d] # None /\ D[d] # None /\ D[d].hole \in {u.defs[d].hole, "none"}
           \/ u.defs[d] = None /\ D[d] = None
           \/ /\ d \in Edited(c) \/ u.defs[d] = None
              /\ \A w \in Wallets : \A b \in Bound(u, w) : b.def = d => ~b.fresh
  BY <1>3, <1>4
<1>10. Alike(s, t, c)  BY ONLY <1>3, <1>5, <1>8, <1>9, DefsAlike
<1>. QED  BY <1>10 DEF t

\* ensureSeeded: built-in definitions have no hole.
LEMMA SeedAlike ==
  ASSUME NEW s, Sound(s), NEW c, NEW g \in SUBSET Baked
  PROVE  Alike(s, Seed(s, g), c)
<1> DEFINE D == [d \in DefIds |-> IF d \in g THEN Builtin ELSE s.defs[d]]
           P == s.pkgs \cup {BuiltinPkg}
           u == [s EXCEPT !.pkgs = P]
           t == Seed(s, g)
<1>1. t = [s EXCEPT !.pkgs = P, !.defs = D]  BY DEF Seed
<1>2. DOMAIN s = Parts /\ P \subseteq Pkgs  BY StoreAssumption DEF Sound, Typed
<1>3. t = [u EXCEPT !.defs = D] /\ u.defs = s.defs /\ u.wallets = s.wallets  BY <1>1, <1>2 DEF Parts
<1>4. Builtin \in Def /\ Builtin.hole = "none"  BY StoreAssumption DEF Builtin, Def
<1>5. ASSUME NEW d \in DefIds
      PROVE  /\ D[d] \in Def \cup {None}
             /\ \/ s.defs[d] # None /\ D[d] # None /\ D[d].hole \in {s.defs[d].hole, "none"}
                \/ s.defs[d] = None
  <2>1. s.defs[d] \in Def \cup {None}  BY DEF Sound, Typed
  <2>2. CASE D[d] = s.defs[d]  BY <2>1, <2>2
  <2>3. CASE D[d] = Builtin  BY <1>4, <2>3, StoreAssumption
  <2>. QED  BY <2>2, <2>3
<1>6. D \in [DefIds -> Def \cup {None}]  BY <1>5
<1>7. u = [s EXCEPT !.pkgs = P]  OBVIOUS
<1> HIDE DEF D, P, u, t
<1>8. Alike(s, s, c)  BY Untouched
<1>9. Alike(s, u, c)  BY <1>2, <1>7, <1>8, PkgsAlike
<1>10. ASSUME NEW d \in DefIds, s.defs[d] = None
       PROVE  \A w \in Wallets : \A b \in Bound(u, w) : b.def = d => ~b.fresh
  BY <1>3, <1>10 DEF Sound, Linked, Bound
<1>11. \A d \in DefIds :
           \/ u.defs[d] # None /\ D[d] # None /\ D[d].hole \in {u.defs[d].hole, "none"}
           \/ u.defs[d] = None /\ D[d] = None
           \/ /\ d \in Edited(c) \/ u.defs[d] = None
              /\ \A w \in Wallets : \A b \in Bound(u, w) : b.def = d => ~b.fresh
  BY <1>3, <1>5, <1>10
<1>12. Alike(s, t, c)  BY ONLY <1>3, <1>6, <1>9, <1>11, DefsAlike
<1>. QED  BY <1>12 DEF t

\* installMarket: rows for the scope only when no blank is left.
LEMMA InstallAlike ==
  ASSUME NEW s, Sound(s), NEW c, NEW d \in DefIds, d \in Edited(c), NEW g \in Def, NEW p \in Pkgs,
         NEW ws \in SUBSET Wallets, NEW full, full \in BOOLEAN, InstallMarket(s, d, g, p, ws, full) # Err
  PROVE  Alike(s, InstallMarket(s, d, g, p, ws, full), c)
<1> DEFINE lib  == IF p = Uncat THEN s ELSE PutPackage(s, p)
           old  == Outdated(lib, d)
           kept == IF s.defs[d] = None THEN lib
                   ELSE IF g.hole = "none" THEN Cleared(old, d) ELSE old
           f    == [g EXCEPT !.source = "market"]
           new  == [kept EXCEPT !.defs[d] = f]
           row  == Row(d, IF g.pkg = Blank THEN p ELSE g.pkg, TRUE, full)
           R    == {row}
           t    == InstallMarket(s, d, g, p, ws, full)
<1>1. \/ t = new
      \/ ~Missing(g, full) /\ t = WithRows(new, ws, R)
  BY DEF InstallMarket
<1>2. Alike(s, s, c)  BY Untouched
<1>3. Alike(s, lib, c) /\ \A w \in Wallets : Bound(lib, w) = Bound(s, w)
  <2>1. CASE p = Uncat  BY <1>2, <2>1
  <2>2. CASE p # Uncat
    <3> DEFINE P == s.pkgs \cup {p}
    <3>1. lib = [s EXCEPT !.pkgs = P]  BY <2>2 DEF PutPackage
    <3>2. DOMAIN s = Parts /\ P \subseteq Pkgs  BY DEF Sound, Typed
    <3>3. lib.wallets = s.wallets  BY <3>1, <3>2 DEF Parts
    <3> HIDE DEF P, lib
    <3>4. Alike(s, lib, c)  BY <1>2, <3>1, <3>2, PkgsAlike
    <3>. QED  BY <3>3, <3>4 DEF Bound
  <2>. QED  BY <2>1, <2>2
<1> HIDE DEF lib
<1>4. Alike(s, old, c) /\ \A w \in Wallets : \A b \in Bound(old, w) : b.def = d => ~b.fresh  BY <1>3, OutdatedAlike
<1> HIDE DEF old
<1>5. Alike(s, Cleared(old, d), c) /\ \A w \in Wallets : \A b \in Bound(Cleared(old, d), w) : b.def = d => ~b.fresh
  BY <1>4, ClearedAlike
<1>6. Alike(s, kept, c) /\ \A w \in Wallets : \A b \in Bound(kept, w) : b.def = d => ~b.fresh
  <2>1. CASE s.defs[d] = None
    <3>1. kept = lib  BY <2>1
    <3>2. \A w \in Wallets : \A b \in Bound(s, w) : b.def # d  BY <2>1 DEF Sound, Linked
    <3>. QED  BY <1>3, <3>1, <3>2
  <2>2. CASE s.defs[d] # None /\ g.hole = "none"  BY <1>5, <2>2
  <2>3. CASE s.defs[d] # None /\ g.hole # "none"  BY <1>4, <2>3
  <2>. QED  BY <2>1, <2>2, <2>3
<1>7. f \in Def \cup {None} /\ f \in Def /\ f.hole = g.hole  BY DEF Def
<1>8. new = [kept EXCEPT !.defs[d] = f]  OBVIOUS
<1>9. row \in Binding /\ row.def = d /\ row.filled = full
  <2> DEFINE q == IF g.pkg = Blank THEN p ELSE g.pkg
  <2>1. q \in Pkgs  BY DEF Def
  <2> HIDE DEF q
  <2>2. row = [def |-> d, pkg |-> q, on |-> TRUE, filled |-> full, fresh |-> TRUE]  BY DEF Row, q
  <2> HIDE DEF row
  <2>. QED  BY <2>1, <2>2 DEF Binding
<1> HIDE DEF kept, f, new, row, t
<1>6a. Alike(s, kept, c)  BY <1>6
<1>6b. \A w \in Wallets : \A b \in Bound(kept, w) : b.def = d => ~b.fresh  BY <1>6
<1>10. Alike(s, new, c)  BY ONLY d \in DefIds, d \in Edited(c), <1>6a, <1>6b, <1>7, <1>8, DefAlike
<1>10a. new.defs[d] = f
  <2>1. DOMAIN kept = Parts /\ kept.defs \in [DefIds -> Def \cup {None}]  BY <1>6a DEF Alike, Typed
  <2>. QED  BY <1>8, <2>1 DEF Parts
<1>11. CASE ~Missing(g, full) /\ t = WithRows(new, ws, R)
  <2>1. Sure(new, row)  BY <1>7, <1>9, <1>10a, <1>11 DEF Sure, Missing
  <2>2. R \subseteq Binding /\ \A x \in R : Sure(new, x)  BY <1>9, <2>1
  <2> HIDE DEF R
  <2>. QED  BY <1>10, <1>11, <2>2, RowsAlike DEF t
<1>. QED  BY <1>1, <1>10, <1>11 DEF t

\* The commands about the library: putDef, deleteDef, installMarket and duplicateDef
\* edit the definition they name and no other.
LEMMA LibraryAlikes ==
  ASSUME NEW s, Sound(s), NEW c \in LibraryCommands(s), Fn(s, c) # Err
  PROVE  Alike(s, Fn(s, c), c)
<1>1. CASE c \in [op : {"putDef"}, d : DefIds, def : Designs]
  <2>1. c.d \in DefIds /\ c.def \in Def /\ c.d \in Edited(c) /\ Fn(s, c) = PutDef(s, c.d, c.def)
    BY <1>1, StoreAssumption DEF Edited, Fn
  <2>. QED  BY <2>1, PutDefAlike
<1>2. CASE c \in [op : {"deleteDef"}, d : DefIds]
  <2>1. c.d \in DefIds /\ c.d \in Edited(c) /\ Fn(s, c) = DeleteDef(s, c.d)  BY <1>2 DEF Edited, Fn
  <2>. QED  BY <2>1, DeleteDefAlike
<1>3. CASE c \in [op : {"duplicateDef"}, d : DefIds, new : Others \ Library(s)]
  <2>1. /\ c.d \in DefIds /\ c.new \in DefIds /\ s.defs[c.new] = None /\ c.new \in Edited(c)
        /\ Fn(s, c) = DuplicateDef(s, c.d, c.new)
    BY <1>3 DEF Edited, Fn, Library, DefIds
  <2>. QED  BY <2>1, DuplicateDefAlike
<1>4. CASE c \in [op : {"putPackage", "deletePackage"}, p : Pkgs] /\ c.op = "putPackage"
  <2> DEFINE P == s.pkgs \cup {c.p}
             t == Fn(s, c)
  <2>1. t = [s EXCEPT !.pkgs = P]  BY <1>4 DEF Fn, PutPackage
  <2>2. P \subseteq Pkgs  BY <1>4 DEF Sound, Typed
  <2>3. Alike(s, s, c)  BY Untouched
  <2> HIDE DEF P, t
  <2>4. Alike(s, t, c)  BY <2>1, <2>2, <2>3, PkgsAlike
  <2>. QED  BY <2>4 DEF t
<1>5. CASE c \in [op : {"putPackage", "deletePackage"}, p : Pkgs] /\ c.op = "deletePackage"
  <2>1. c.p \in Pkgs /\ Fn(s, c) = DeletePackage(s, c.p)  BY <1>5 DEF Fn
  <2>. QED  BY <2>1, DeletePackageAlike
<1>6. CASE c \in [op : {"installMarket"}, d : Others, def : Designs, p : Pkgs, ws : SUBSET Wallets, filled : BOOLEAN]
  <2>1. /\ c.d \in DefIds /\ c.def \in Def /\ c.d \in Edited(c) /\ c.p \in Pkgs /\ c.ws \in SUBSET Wallets
        /\ c.filled \in BOOLEAN
    BY <1>6, StoreAssumption DEF Edited, DefIds
  <2>2. Fn(s, c) = InstallMarket(s, c.d, c.def, c.p, c.ws, c.filled)  BY <1>6 DEF Fn
  <2>. QED  BY <2>1, <2>2, InstallAlike
<1>. QED  BY <1>1, <1>2, <1>3, <1>4, <1>5, <1>6 DEF LibraryCommands

\* Every command, and a seeding.
LEMMA FnAlike ==
  ASSUME NEW s, Sound(s), NEW c \in Commands(s) \cup Seedings, Fn(s, c) # Err
  PROVE  Alike(s, Fn(s, c), c)
<1>1. CASE c \in Seedings
  <2>1. c.got \in SUBSET Baked /\ Fn(s, c) = Seed(s, c.got)  BY <1>1 DEF Seedings, Fn
  <2>. QED  BY <2>1, SeedAlike
<1>. QED  BY <1>1, LibraryAlikes, WalletAlikes, RowAlikes DEF Commands

-----------------------------------------------------------------------------
(* The documents that are written                                            *)

\* The next revision of t differs in nothing else.
LEMMA Revised ==
  ASSUME NEW t, Typed(t), NEW r, r = [t EXCEPT !.rev = @ + 1]
  PROVE  /\ Typed(r) /\ r.defs = t.defs /\ r.known = t.known /\ r.wallets = t.wallets /\ r.pkgs = t.pkgs
         /\ Fits(t) => Fits(r)
         /\ \A w : Bound(r, w) = Bound(t, w)
         /\ \A b : Sure(r, b) <=> Sure(t, b)
         /\ \A w, d : Serves(r, w, d) <=> Serves(t, w, d)
<1>1. DOMAIN r = Parts /\ r.defs = t.defs /\ r.known = t.known /\ r.wallets = t.wallets /\ r.pkgs = t.pkgs /\ r.rev = t.rev + 1
  BY DEF Typed, Parts
<1>2. \A w : Bound(r, w) = Bound(t, w)  BY <1>1 DEF Bound
<1>3. Typed(r)  BY <1>1, <1>2 DEF Typed
<1>4. \A w, b : Effective(r, w, b) <=> Effective(t, w, b)  BY <1>1 DEF Effective
<1>5. \A w, d : Serves(r, w, d) <=> Serves(t, w, d)  BY <1>2, <1>4 DEF Serves
<1>. QED  BY <1>1, <1>2, <1>3, <1>5 DEF Sure, Fits

\* A wallet that provisionWallets registers is served its default policies.
LEMMA Provisioned ==
  ASSUME NEW s, Sound(s), NEW ws, ws \subseteq Wallets, NEW w \in Wallets, ~Registered(s, w),
         NEW t, t = Provision(s, ws), Registered(t, w), NEW d \in Defaults(t)
  PROVE  Serves(t, w, d)
<1> DEFINE N == {v \in ws : ~Registered(s, v)}
           R == {Row(x, s.defs[x].pkg, TRUE, s.defs[x].hole = "filled") : x \in Defaults(s)}
           W == [v \in Wallets |-> IF v \in N THEN Added(s.wallets[v], R) ELSE s.wallets[v]]
<1>1. t = [s EXCEPT !.known = s.known \cup N, !.wallets = W]  BY DEF Provision, WithRows
<1>2. DOMAIN s = Parts /\ Typed(s)  BY DEF Sound, Typed
<1>3. t.known = s.known \cup N /\ t.wallets = W /\ t.defs = s.defs  BY <1>1, <1>2 DEF Parts
<1>4. w \in N /\ Bound(s, w) = {} /\ s.wallets[w].off = {}  BY <1>2, <1>3 DEF Registered, Typed
<1>5. Defaults(t) = Defaults(s)  BY <1>3 DEF Defaults, Library
<1>6. d \in DefIds /\ s.defs[d] # None /\ ~Missing(s.defs[d], FALSE) /\ d \in Defaults(s)
  BY <1>5 DEF Defaults, Library
<1>7. s.defs[d] \in Def  BY <1>2, <1>6 DEF Typed
<1> DEFINE b == Row(d, s.defs[d].pkg, TRUE, s.defs[d].hole = "filled")
<1>8. b \in R  BY <1>6
<1>9. R \subseteq Binding
  <2> SUFFICES ASSUME NEW x \in Defaults(s)
               PROVE  Row(x, s.defs[x].pkg, TRUE, s.defs[x].hole = "filled") \in Binding
    OBVIOUS
  <2>1. x \in DefIds /\ s.defs[x] \in Def  BY <1>2 DEF Defaults, Library, Typed
  <2>2. s.defs[x].pkg \in Pkgs  BY <2>1 DEF Def
  <2>. QED  BY <2>1, <2>2 DEF Row, Binding
<1>10. b.def = d /\ b.on = TRUE /\ b.filled = (s.defs[d].hole = "filled")  BY DEF Row
<1>11. t.wallets[w] = Added(s.wallets[w], R)  BY <1>3, <1>4
<1> HIDE DEF R, W, N, b
<1>12. t.wallets[w].off = {} /\ t.wallets[w].bindings = s.wallets[w].bindings (+) SetToBag(R)
  <2>1. DOMAIN s.wallets[w] = Fields  BY <1>2 DEF Typed, IsEntry
  <2>. QED  BY <1>4, <1>11, <2>1 DEF Added, Fields
<1>13. IsRows(SetToBag(R)) /\ BagToSet(SetToBag(R)) = R  BY <1>9, SetRows
<1>14. IsRows(s.wallets[w].bindings)  BY <1>2 DEF Typed, IsEntry
<1>15. b \in Bound(t, w)  BY <1>8, <1>12, <1>13, <1>14, AddRows DEF Bound
<1>16. ~Missing(t.defs[d], b.filled)  BY <1>3, <1>6, <1>7, <1>10 DEF Missing, Def
<1>17. Effective(t, w, b)  BY <1>10, <1>12, <1>16 DEF Effective
<1>. QED  BY <1>10, <1>15, <1>17 DEF Serves

\* mutate: a document it writes is sound, and serves what the documents before served,
\* but for what the command is about.
LEMMA MutatedSound ==
  ASSUME NEW s, Sound(s), NEW c \in Commands(Normal(s)) \cup Seedings, NEW r, r = Mutated(s, c), r # Err
  PROVE  /\ Sound(r) /\ Fits(r)
         /\ \A w \in Wallets : \A d \in DefIds \ (Edited(c) \cup Taken(s, c, w)) : Serves(s, w, d) => Serves(r, w, d)
         /\ c.op = "provisionWallets" =>
              \A w \in Wallets : Registered(r, w) /\ ~Registered(s, w) => \A d \in Defaults(r) : Serves(r, w, d)
<1> DEFINE n == Normal(s)
           t == Fn(n, c)
<1>1. t # Err /\ Valid(t) /\ Fits(t) /\ r = [t EXCEPT !.rev = @ + 1]  BY DEF Mutated
<1>2. /\ Sound(n) /\ n.known = s.known
      /\ \A w \in Wallets : Bound(n, w) = Bound(s, w)
      /\ \A w \in Wallets, d \in DefIds : Serves(s, w, d) => Serves(n, w, d)
  BY NormalSound
<1> HIDE DEF n
<1>3. Alike(n, t, c)  BY <1>1, <1>2, FnAlike DEF n
<1>3a. c.op = "provisionWallets" => c.ws \subseteq Wallets /\ t = Provision(n, c.ws)
  <2>1. SUFFICES ASSUME c.op = "provisionWallets" PROVE c.ws \subseteq Wallets /\ t = Provision(n, c.ws)  OBVIOUS
  <2>2. c \in WalletCommands
    <3>1. c \notin Seedings  BY <2>1 DEF Seedings
    <3>2. c \notin LibraryCommands(n)  BY <2>1 DEF LibraryCommands
    <3>3. \A w \in Wallets : c \notin RowCommands(n, w)  BY <2>1 DEF RowCommands
    <3>. QED  BY <3>1, <3>2, <3>3 DEF Commands, n
  <2>3. c.ws \subseteq Wallets  BY <2>1, <2>2 DEF WalletCommands, Some
  <2>. QED  BY <2>1, <2>3 DEF Fn
<1> HIDE DEF t
<1>4. Typed(t) /\ Filled(t) /\ Linked(t)  BY <1>1, <1>2, <1>3, AlikeFilled DEF Alike, Valid, Linked
<1>5. /\ Typed(r) /\ r.defs = t.defs /\ r.known = t.known /\ Fits(r)
      /\ \A w : Bound(r, w) = Bound(t, w)
      /\ \A b : Sure(r, b) <=> Sure(t, b)
      /\ \A w, d : Serves(r, w, d) <=> Serves(t, w, d)
  BY <1>1, <1>4, Revised
<1>6. Sound(r)  BY <1>4, <1>5 DEF Sound, Filled, Linked
<1>7. ASSUME NEW w \in Wallets, NEW d \in DefIds, d \notin Edited(c) \cup Taken(s, c, w), Serves(s, w, d)
      PROVE  Serves(r, w, d)
  <2>1. Taken(n, c, w) = Taken(s, c, w)  BY <1>2 DEF Taken
  <2>2. Serves(n, w, d)  BY <1>2, <1>7
  <2>3. Serves(t, w, d)  BY <1>2, <1>3, <1>7, <2>1, <2>2, AlikeServes
  <2>. QED  BY <1>5, <2>3
<1>8. ASSUME c.op = "provisionWallets", NEW w \in Wallets, Registered(r, w), ~Registered(s, w), NEW d \in Defaults(r)
      PROVE  Serves(r, w, d)
  <2>1. Registered(t, w) /\ ~Registered(n, w) /\ d \in Defaults(t)
    BY <1>2, <1>5, <1>8 DEF Registered, Defaults, Library
  <2>2. Serves(t, w, d)  BY <1>2, <1>3a, <1>8, <2>1, Provisioned
  <2>. QED  BY <1>5, <2>2
<1>. QED  BY <1>5, <1>6, <1>7, <1>8

-----------------------------------------------------------------------------
(* Validation: no operation leaves a reference that leads nowhere            *)

\* The rows of an entry name definitions of L and packages the entry has.
Refs(e, L) == \A b \in BagToSet(e.bindings) : b.def \in L /\ (b.pkg = Uncat \/ b.pkg \in e.pkgs)

\* Validation, wallet by wallet.
LEMMA ValidIs ==
  ASSUME NEW s, Typed(s)
  PROVE  Valid(s) <=> Uncat \in s.pkgs /\ \A w \in Wallets : Refs(s.wallets[w], Library(s))
<1>1. \A w \in Wallets : \A b \in Bound(s, w) : b.def \in Library(s) <=> s.defs[b.def] # None
  BY RowsAreBindings DEF Library
<1>2. \A w \in Wallets : Bound(s, w) = BagToSet(s.wallets[w].bindings)  BY DEF Bound
<1>. QED  BY <1>1, <1>2 DEF Valid, Refs

\* Rows that name what older rows named, of an entry that lost no package.
LEMMA RefsKept ==
  ASSUME NEW e, NEW L, Refs(e, L), NEW f, NEW M, e.pkgs \subseteq f.pkgs,
         \A b \in BagToSet(f.bindings) : \E a \in BagToSet(e.bindings) :
           a.def = b.def /\ a.pkg = b.pkg /\ (a.def \in L => a.def \in M)
  PROVE  Refs(f, M)
BY DEF Refs

\* ensureWalletPackage: new rows bring the packages they name.
LEMMA RefsAdded ==
  ASSUME NEW e, IsEntry(e), NEW L, Refs(e, L), NEW R, R \subseteq Binding, \A b \in R : b.def \in L
  PROVE  Refs(Added(e, R), L)
<1> DEFINE f == Added(e, R)
           B == e.bindings (+) SetToBag(R)
<1>1. BagToSet(B) = BagToSet(e.bindings) \cup R  BY AddRows, SetRows DEF IsEntry
<1>2. f.bindings = B /\ f.pkgs = e.pkgs \cup Named(R)  BY DEF IsEntry, Fields, Added
<1>3. \A b \in R : b.pkg = Uncat \/ b.pkg \in Named(R)  BY DEF Named
<1> HIDE DEF f, B
<1>4. Refs(f, L)  BY <1>1, <1>2, <1>3 DEF Refs
<1>. QED  BY <1>4 DEF f

\* Ageing a row, and emptying it, change neither its definition nor its package.
LEMMA AgedNames ==
  ASSUME NEW A, IsRows(A), NEW d
  PROVE  /\ \A b \in BagToSet(Aged(A, d)) : \E a \in BagToSet(A) : a.def = b.def /\ a.pkg = b.pkg
         /\ IsRows(Aged(A, d))
<1> DEFINE S == {b \in BagToSet(A) : b.def = d /\ b.fresh}
           T == {Stale(b) : b \in S}
           C == [c \in T |-> A[[c EXCEPT !.fresh = TRUE]]]
<1>1. Aged(A, d) = Dropping(A, S) (+) C  BY DEF Aged
<1>2. BagToSet(Aged(A, d)) = DOMAIN Aged(A, d)  BY DEF BagToSet
<1>3. DOMAIN Aged(A, d) = DOMAIN Dropping(A, S) \cup DOMAIN C  BY <1>1 DEF (+)
<1>4. DOMAIN Dropping(A, S) = BagToSet(A) \ S /\ DOMAIN C = T  BY DEF Dropping
<1>5. ASSUME NEW b \in S PROVE Stale(b).def = b.def /\ Stale(b).pkg = b.pkg
  <2>1. b \in Binding  BY DEF IsRows
  <2>. QED  BY <2>1 DEF Binding, Stale
<1> HIDE DEF C, S
<1>6. \A b \in BagToSet(Aged(A, d)) : \E a \in BagToSet(A) : a.def = b.def /\ a.pkg = b.pkg
  BY <1>2, <1>3, <1>4, <1>5 DEF S
<1>. QED  BY <1>6, AgedRows

LEMMA EmptiedNames ==
  ASSUME NEW A, IsRows(A), NEW d
  PROVE  \A b \in BagToSet(Emptied(A, d)) : \E a \in BagToSet(A) : a.def = b.def /\ a.pkg = b.pkg
<1> DEFINE S == {b \in BagToSet(A) : b.def = d /\ b.filled}
           T == {Unfilled(b) : b \in S}
           C == [c \in T |-> A[[c EXCEPT !.filled = TRUE]]]
<1>1. Emptied(A, d) = Dropping(A, S) (+) C  BY DEF Emptied
<1>2. BagToSet(Emptied(A, d)) = DOMAIN Emptied(A, d)  BY DEF BagToSet
<1>3. DOMAIN Emptied(A, d) = DOMAIN Dropping(A, S) \cup DOMAIN C  BY <1>1 DEF (+)
<1>4. DOMAIN Dropping(A, S) = BagToSet(A) \ S /\ DOMAIN C = T  BY DEF Dropping
<1>5. ASSUME NEW b \in S PROVE Unfilled(b).def = b.def /\ Unfilled(b).pkg = b.pkg
  <2>1. b \in Binding  BY DEF IsRows
  <2>. QED  BY <2>1 DEF Binding, Unfilled
<1> HIDE DEF C, S
<1>. QED  BY <1>2, <1>3, <1>4, <1>5 DEF S

\* The entries of s hold together: what Valid asks of the wallets.
Whole(s, L) ==
  /\ DOMAIN s = Parts /\ DOMAIN s.wallets = Wallets /\ DOMAIN s.defs = DefIds
  /\ \A w \in Wallets : IsEntry(s.wallets[w]) /\ Refs(s.wallets[w], L)

\* Rows changed wallet by wallet, each to rows that name the same.
LEMMA WholeRebound ==
  ASSUME NEW s, NEW L, Whole(s, L), NEW rows, NEW t, t = Rebound(s, rows),
         \A w \in Wallets : /\ IsRows(rows[w])
                            /\ \A b \in BagToSet(rows[w]) : \E a \in Bound(s, w) : a.def = b.def /\ a.pkg = b.pkg
  PROVE  Whole(t, L) /\ t.defs = s.defs /\ t.pkgs = s.pkgs
<1> DEFINE W == [w \in Wallets |-> [s.wallets[w] EXCEPT !.bindings = rows[w]]]
<1>1. t = [s EXCEPT !.wallets = W]  BY DEF Rebound
<1>2. DOMAIN t = Parts /\ t.wallets = W /\ t.defs = s.defs /\ t.pkgs = s.pkgs  BY <1>1 DEF Whole, Parts
<1>3. ASSUME NEW w \in Wallets PROVE IsEntry(W[w]) /\ Refs(W[w], L)
  <2> DEFINE e == s.wallets[w]
             f == W[w]
  <2>1. IsEntry(e) /\ Refs(e, L) /\ Bound(s, w) = BagToSet(e.bindings)  BY DEF Whole, Bound
  <2>2. IsEntry(f) /\ f.bindings = rows[w] /\ f.pkgs = e.pkgs  BY <2>1 DEF IsEntry, Fields
  <2> HIDE DEF e, f
  <2>3. Refs(f, L)  BY <2>1, <2>2, RefsKept
  <2>. QED  BY <2>2, <2>3 DEF f
<1>4. DOMAIN W = Wallets  OBVIOUS
<1> HIDE DEF W
<1>. QED  BY <1>2, <1>3, <1>4 DEF Whole

LEMMA WholeOutdated ==
  ASSUME NEW s, NEW L, Whole(s, L), NEW d
  PROVE  Whole(Outdated(s, d), L) /\ Outdated(s, d).defs = s.defs /\ Outdated(s, d).pkgs = s.pkgs
<1> DEFINE rows == [w \in Wallets |-> Aged(s.wallets[w].bindings, d)]
           t == Outdated(s, d)
<1>1. t = Rebound(s, rows)  BY DEF Outdated
<1>2. ASSUME NEW w \in Wallets
      PROVE  /\ IsRows(rows[w])
             /\ \A b \in BagToSet(rows[w]) : \E a \in Bound(s, w) : a.def = b.def /\ a.pkg = b.pkg
  <2> DEFINE A == s.wallets[w].bindings
  <2>1. IsRows(A) /\ Bound(s, w) = BagToSet(A)  BY DEF Whole, IsEntry, Bound
  <2>2. rows[w] = Aged(A, d)  OBVIOUS
  <2> HIDE DEF A, rows
  <2>. QED  BY <2>1, <2>2, AgedNames
<1> HIDE DEF rows, t
<1>3. Whole(t, L) /\ t.defs = s.defs /\ t.pkgs = s.pkgs  BY <1>1, <1>2, WholeRebound
<1>. QED  BY <1>3 DEF t

\* Emptying comes after ageing.
LEMMA WholeCleared ==
  ASSUME NEW s, NEW L, Whole(s, L), NEW d, \A w \in Wallets : \A b \in Bound(s, w) : b.def = d => ~b.fresh
  PROVE  Whole(Cleared(s, d), L) /\ Cleared(s, d).defs = s.defs /\ Cleared(s, d).pkgs = s.pkgs
<1> DEFINE rows == [w \in Wallets |-> Emptied(s.wallets[w].bindings, d)]
           t == Cleared(s, d)
<1>1. t = Rebound(s, rows)  BY DEF Cleared
<1>2. ASSUME NEW w \in Wallets
      PROVE  /\ IsRows(rows[w])
             /\ \A b \in BagToSet(rows[w]) : \E a \in Bound(s, w) : a.def = b.def /\ a.pkg = b.pkg
  <2> DEFINE A == s.wallets[w].bindings
  <2>1. IsRows(A) /\ Bound(s, w) = BagToSet(A)  BY DEF Whole, IsEntry, Bound
  <2>2. rows[w] = Emptied(A, d)  OBVIOUS
  <2> HIDE DEF A, rows
  <2>3. \A b \in BagToSet(A) : b.def = d => ~b.fresh  BY <2>1
  <2>. QED  BY <2>1, <2>2, <2>3, EmptiedNames, EmptiedRows
<1> HIDE DEF rows, t
<1>3. Whole(t, L) /\ t.defs = s.defs /\ t.pkgs = s.pkgs  BY <1>1, <1>2, WholeRebound
<1>. QED  BY <1>3 DEF t

\* New rows whose definitions are there.
LEMMA WholeRows ==
  ASSUME NEW s, NEW L, Whole(s, L), NEW ws, NEW R, R \subseteq Binding, \A b \in R : b.def \in L,
         NEW t, t = WithRows(s, ws, R)
  PROVE  Whole(t, L) /\ t.defs = s.defs /\ t.pkgs = s.pkgs
<1> DEFINE New(e) == Added(e, R)
           W == [w \in Wallets |-> IF w \in ws THEN New(s.wallets[w]) ELSE s.wallets[w]]
           K == s.known \cup ws
<1>1. ASSUME NEW e, IsEntry(e), Refs(e, L) PROVE IsEntry(New(e)) /\ Refs(New(e), L)
  <2> DEFINE f == New(e)
             B == e.bindings (+) SetToBag(R)
  <2>1. IsRows(B)  BY <1>1, AddRows, SetRows DEF IsEntry
  <2>2. DOMAIN f = Fields /\ f.bindings = B /\ f.off = e.off /\ f.pkgs = e.pkgs \cup Named(R)
    BY <1>1 DEF IsEntry, Fields, Added
  <2>3. Named(R) \subseteq Pkgs  BY DEF Named, Binding
  <2>4. Refs(f, L)  BY <1>1, RefsAdded
  <2> HIDE DEF f, B
  <2>5. IsEntry(f)  BY <1>1, <2>1, <2>2, <2>3 DEF IsEntry
  <2>. QED  BY <2>4, <2>5 DEF f
<1>2. t = [s EXCEPT !.known = K, !.wallets = W]  BY DEF WithRows
<1> HIDE DEF New, K
<1>3. DOMAIN t = Parts /\ t.wallets = W /\ t.defs = s.defs /\ t.pkgs = s.pkgs  BY <1>2 DEF Whole, Parts
<1>4. DOMAIN W = Wallets /\ \A w \in Wallets : IsEntry(W[w]) /\ Refs(W[w], L)  BY <1>1 DEF Whole
<1> HIDE DEF W
<1>. QED  BY <1>3, <1>4 DEF Whole

\* Definitions and packages of the library are no part of the wallets.
LEMMA WholeDefs ==
  ASSUME NEW s, NEW L, Whole(s, L), NEW M, L \subseteq M, NEW D, DOMAIN D = DefIds, NEW t, t = [s EXCEPT !.defs = D]
  PROVE  Whole(t, M) /\ t.defs = D /\ t.pkgs = s.pkgs
<1>1. DOMAIN s = Parts /\ \A w \in Wallets : Refs(s.wallets[w], M)  BY DEF Whole, Refs
<1>2. DOMAIN t = Parts /\ t.wallets = s.wallets /\ t.defs = D /\ t.pkgs = s.pkgs  BY <1>1 DEF Parts
<1>. QED  BY <1>1, <1>2 DEF Whole

LEMMA WholePkgs ==
  ASSUME NEW s, NEW L, Whole(s, L), NEW P, NEW t, t = [s EXCEPT !.pkgs = P]
  PROVE  Whole(t, L) /\ t.defs = s.defs /\ t.pkgs = P
<1>1. DOMAIN s = Parts  BY DEF Whole
<1>2. DOMAIN t = Parts /\ t.wallets = s.wallets /\ t.defs = s.defs /\ t.pkgs = P  BY <1>1 DEF Parts
<1>. QED  BY <1>2 DEF Whole

\* One definition is replaced.
LEMMA WholeDef ==
  ASSUME NEW s, Whole(s, Library(s)), NEW d \in DefIds, NEW f \in Def, NEW t, t = [s EXCEPT !.defs[d] = f]
  PROVE  Whole(t, Library(t)) /\ d \in Library(t) /\ t.pkgs = s.pkgs
<1> DEFINE D == [s.defs EXCEPT ![d] = f]
<1>1. DOMAIN D = DefIds /\ D[d] = f /\ \A x \in DefIds \ {d} : D[x] = s.defs[x]  BY DEF Whole
<1>2. t = [s EXCEPT !.defs = D] /\ t.defs = D  BY DEF Whole, Parts
<1> HIDE DEF D
<1>3. f # None  BY StoreAssumption
<1>4. Library(s) \subseteq Library(t) /\ d \in Library(t)  BY <1>1, <1>2, <1>3 DEF Library
<1>. QED  BY <1>1, <1>2, <1>4, WholeDefs

\* One wallet is replaced.
LEMMA WholeWallet ==
  ASSUME NEW s, NEW L, Whole(s, L), NEW v \in Wallets, NEW e, IsEntry(e), Refs(e, L),
         NEW t, DOMAIN t = Parts, t.wallets = [s.wallets EXCEPT ![v] = e], t.defs = s.defs
  PROVE  Whole(t, L)
BY DEF Whole

\* pruneHiddenDefs keeps every definition.
LEMMA WholePruned ==
  ASSUME NEW s, Typed(s), NEW L, Whole(s, L), NEW t, t = Pruned(s)
  PROVE  Whole(t, L) /\ Library(t) = Library(s) /\ t.pkgs = s.pkgs
<1> DEFINE D == [d \in DefIds |-> IF s.defs[d] = None \/ s.defs[d].home = Public THEN s.defs[d]
     ELSE IF s.defs[d].home # Nowhere /\ Registered(s, s.defs[d].home) THEN s.defs[d] ELSE [s.defs[d] EXCEPT !.home = Public]]
<1>1. t = [s EXCEPT !.defs = D]  BY DEF Pruned
<1>2. ASSUME NEW d \in DefIds PROVE D[d] = None <=> s.defs[d] = None
  <2>1. s.defs[d] \in Def \cup {None}  BY DEF Typed
  <2>2. CASE D[d] = s.defs[d]  BY <2>2
  <2>3. CASE s.defs[d] # None /\ D[d] = [s.defs[d] EXCEPT !.home = Public]
    <3> HIDE DEF D
    <3>1. D[d] \in Def  BY <2>1, <2>3 DEF Def
    <3>. QED  BY <2>3, <3>1, StoreAssumption
  <2>. QED  BY <2>2, <2>3
<1>3. DOMAIN D = DefIds  OBVIOUS
<1> HIDE DEF D
<1>4. Whole(t, L) /\ t.defs = D /\ t.pkgs = s.pkgs  BY <1>1, <1>3, WholeDefs
<1>. QED  BY <1>2, <1>4 DEF Library

\* The commands about the library, and a seeding.
LEMMA WholeLibraryFn ==
  ASSUME NEW s, Sound(s), Whole(s, Library(s)), Uncat \in s.pkgs,
         NEW c \in LibraryCommands(s) \cup Seedings, NEW t, t = Fn(s, c), t # Err
  PROVE  Whole(t, Library(t)) /\ Uncat \in t.pkgs
<1>1. ASSUME NEW D, DOMAIN D = DefIds, NEW P, Uncat \in P, t = [s EXCEPT !.pkgs = P, !.defs = D],
             \A d \in DefIds : s.defs[d] # None => D[d] # None
      PROVE  Whole(t, Library(t)) /\ Uncat \in t.pkgs
  <2> DEFINE u == [s EXCEPT !.pkgs = P]
  <2>1. t = [u EXCEPT !.defs = D]  BY <1>1 DEF Whole, Parts
  <2>2. t.defs = D  BY <1>1 DEF Whole, Parts
  <2>3. Library(s) \subseteq Library(t)  BY <1>1, <2>2 DEF Library
  <2>4. Whole(u, Library(s)) /\ u.pkgs = P  BY WholePkgs
  <2>5. DOMAIN D = DefIds /\ Uncat \in P  BY <1>1
  <2> HIDE DEF u
  <2>6. Whole(t, Library(t)) /\ t.pkgs = u.pkgs  BY ONLY <2>1, <2>3, <2>4, <2>5, WholeDefs
  <2>. QED  BY <2>4, <2>5, <2>6
<1>2. CASE c \in [op : {"putDef"}, d : DefIds, def : Designs]
  <2> DEFINE u == Outdated(s, c.d)
  <2>1. t = [u EXCEPT !.defs[c.d] = c.def] /\ c.d \in DefIds /\ c.def \in Def  BY <1>2, StoreAssumption DEF Fn, PutDef
  <2>2. Whole(u, Library(s)) /\ u.defs = s.defs /\ u.pkgs = s.pkgs  BY WholeOutdated
  <2> HIDE DEF u
  <2>3. Library(u) = Library(s)  BY <2>2 DEF Library
  <2>. QED  BY <2>1, <2>2, <2>3, WholeDef
<1>3. CASE c \in [op : {"deleteDef"}, d : DefIds]
  <2> DEFINE d == c.d
             Gone(w) == {b \in Bound(s, w) : b.def = d}
             rows == [w \in Wallets |-> Dropping(s.wallets[w].bindings, Gone(w))]
             u == Rebound(s, rows)
             L == Library(s) \ {d}
             D == [s.defs EXCEPT ![d] = None]
  <2>1. t = [u EXCEPT !.defs[d] = None] /\ d \in DefIds  BY <1>3 DEF Fn, DeleteDef
  <2>2. ASSUME NEW w \in Wallets
        PROVE  IsRows(rows[w]) /\ BagToSet(rows[w]) = {b \in Bound(s, w) : b.def # d}
    <3> DEFINE A == s.wallets[w].bindings
               S == Gone(w)
    <3>1. IsRows(A) /\ BagToSet(A) = Bound(s, w)  BY DEF Whole, IsEntry, Bound
    <3>2. rows[w] = Dropping(A, S)  OBVIOUS
    <3> HIDE DEF A, S, rows
    <3>3. IsRows(rows[w]) /\ BagToSet(rows[w]) = Bound(s, w) \ S  BY <3>1, <3>2, DropRows
    <3>. QED  BY <3>3 DEF S
  <2>3. u = Rebound(s, rows)  OBVIOUS
  <2> HIDE DEF rows, u
  <2>4. Whole(u, Library(s)) /\ u.defs = s.defs /\ u.pkgs = s.pkgs  BY <2>2, <2>3, WholeRebound
  <2>5. \A w \in Wallets : Bound(u, w) = BagToSet(rows[w])
    <3>1. u.wallets = [w \in Wallets |-> [s.wallets[w] EXCEPT !.bindings = rows[w]]]  BY <2>3 DEF Rebound, Whole, Parts
    <3>2. \A w \in Wallets : u.wallets[w].bindings = rows[w]  BY <3>1 DEF Whole, IsEntry, Fields
    <3>. QED  BY <3>2 DEF Bound
  <2>6. Whole(u, L)
    <3>1. \A w \in Wallets : Refs(u.wallets[w], L)  BY <2>2, <2>4, <2>5 DEF Whole, Refs, Bound
    <3>. QED  BY <2>4, <3>1 DEF Whole
  <2>7. t = [u EXCEPT !.defs = D] /\ t.defs = D  BY <2>1, <2>4 DEF Whole, Parts
  <2>8. DOMAIN D = DefIds /\ L \subseteq Library(t)  BY <2>1, <2>7 DEF Whole, Library
  <2> HIDE DEF D, L
  <2>. QED  BY <2>4, <2>6, <2>7, <2>8, WholeDefs
<1>4. CASE c \in [op : {"duplicateDef"}, d : DefIds, new : Others \ Library(s)]
  <2> DEFINE f == [s.defs[c.d] EXCEPT !.source = "mine"]
  <2>1. c.d \in DefIds /\ c.new \in DefIds /\ t = DuplicateDef(s, c.d, c.new)  BY <1>4 DEF Fn, DefIds
  <2>2. s.defs[c.d] # None /\ t = [s EXCEPT !.defs[c.new] = f]  BY <2>1 DEF DuplicateDef
  <2>3. s.defs[c.d] \in Def  BY <2>1, <2>2 DEF Sound, Typed
  <2>4. f \in Def  BY <2>3 DEF Def
  <2> HIDE DEF f
  <2>. QED  BY <2>1, <2>2, <2>4, WholeDef
<1>5. CASE c \in [op : {"putPackage", "deletePackage"}, p : Pkgs] /\ c.op = "putPackage"
  <2> DEFINE P == s.pkgs \cup {c.p}
             D == s.defs
  <2>1. t = [s EXCEPT !.pkgs = P, !.defs = D]  BY <1>5 DEF Fn, PutPackage, Whole, Parts
  <2>. QED  BY <1>1, <2>1 DEF Whole
<1>6. CASE c \in [op : {"putPackage", "deletePackage"}, p : Pkgs] /\ c.op = "deletePackage"
  <2> DEFINE P == s.pkgs \ {c.p}
             D == [d \in DefIds |-> IF s.defs[d] # None /\ s.defs[d].pkg = c.p THEN [s.defs[d] EXCEPT !.pkg = Blank] ELSE s.defs[d]]
  <2>1. t = DeletePackage(s, c.p)  BY <1>6 DEF Fn
  <2>2. c.p # Uncat /\ t = [s EXCEPT !.pkgs = P, !.defs = D]  BY <2>1 DEF DeletePackage
  <2>3. ASSUME NEW d \in DefIds, s.defs[d] # None PROVE D[d] # None
    <3>1. s.defs[d] \in Def  BY <2>3 DEF Sound, Typed
    <3>2. D[d] = s.defs[d] \/ D[d] = [s.defs[d] EXCEPT !.pkg = Blank]  OBVIOUS
    <3> HIDE DEF D
    <3>3. D[d] \in Def  BY <3>1, <3>2, StoreAssumption DEF Def, Blank
    <3>. QED  BY <3>3, StoreAssumption
  <2>4. DOMAIN D = DefIds /\ Uncat \in P  BY <2>2
  <2> HIDE DEF D, P
  <2>. QED  BY <1>1, <2>2, <2>3, <2>4
<1>7. CASE c \in [op : {"installMarket"}, d : Others, def : Designs, p : Pkgs, ws : SUBSET Wallets, filled : BOOLEAN]
  <2> DEFINE d    == c.d
             lib  == IF c.p = Uncat THEN s ELSE PutPackage(s, c.p)
             old  == Outdated(lib, d)
             kept == IF s.defs[d] = None THEN lib ELSE IF c.def.hole = "none" THEN Cleared(old, d) ELSE old
             f    == [c.def EXCEPT !.source = "market"]
             new  == [kept EXCEPT !.defs[d] = f]
             q    == IF c.def.pkg = Blank THEN c.p ELSE c.def.pkg
             row  == Row(d, q, TRUE, c.filled)
             R    == {row}
             L    == Library(s)
  <2>1. t = InstallMarket(s, d, c.def, c.p, c.ws, c.filled)  BY <1>7 DEF Fn
  <2>2. t = new \/ t = WithRows(new, c.ws, R)  BY <2>1 DEF InstallMarket
  <2>3. d \in DefIds /\ c.def \in Def /\ c.p \in Pkgs /\ c.filled \in BOOLEAN  BY <1>7, StoreAssumption DEF DefIds
  <2>4. f \in Def /\ q \in Pkgs  BY <2>3 DEF Def
  <2>5. R \subseteq Binding /\ \A b \in R : b.def = d
    <3> HIDE DEF q
    <3>1. row \in Binding /\ row.def = d  BY <2>3, <2>4 DEF Row, Binding
    <3> HIDE DEF row
    <3>. QED  BY <3>1
  <2>6. Whole(lib, L) /\ lib.defs = s.defs /\ Uncat \in lib.pkgs
    <3>2. PutPackage(s, c.p) = [s EXCEPT !.pkgs = s.pkgs \cup {c.p}]  BY DEF PutPackage
    <3> DEFINE P == s.pkgs \cup {c.p}
               u == PutPackage(s, c.p)
    <3>3. u = [s EXCEPT !.pkgs = P] /\ Uncat \in P  BY <3>2
    <3> HIDE DEF P, u
    <3>4. Whole(u, L) /\ u.defs = s.defs /\ Uncat \in u.pkgs  BY <3>3, WholePkgs
    <3>. QED  BY <3>4 DEF u
  <2>6a. Alike(s, lib, c) /\ d \in Edited(c)
    <3>1. d \in Edited(c)  BY <1>7 DEF Edited
    <3>2. PutPackage(s, c.p) = [s EXCEPT !.pkgs = s.pkgs \cup {c.p}]  BY DEF PutPackage
    <3>3. s.pkgs \cup {c.p} \subseteq Pkgs  BY <2>3 DEF Sound, Typed
    <3>4. Alike(s, PutPackage(s, c.p), c)  BY <3>2, <3>3, Untouched, PkgsAlike
    <3>. QED  BY <3>1, <3>4, Untouched
  <2> HIDE DEF lib
  <2>7. Whole(old, L) /\ old.defs = s.defs /\ Uncat \in old.pkgs  BY <2>6, WholeOutdated
  <2>7a. \A w \in Wallets : \A b \in Bound(old, w) : b.def = d => ~b.fresh  BY <2>6a, OutdatedAlike
  <2> HIDE DEF old
  <2>8. Whole(kept, L) /\ kept.defs = s.defs /\ Uncat \in kept.pkgs  BY <2>6, <2>7, <2>7a, WholeCleared
  <2>9. new = [kept EXCEPT !.defs[d] = f]  OBVIOUS
  <2> HIDE DEF kept, f, new, R, d
  <2>10. Library(kept) = L  BY <2>8 DEF Library
  <2> HIDE DEF L
  <2>11. Whole(new, Library(new)) /\ d \in Library(new) /\ Uncat \in new.pkgs  BY <2>3, <2>4, <2>8, <2>9, <2>10, WholeDef
  <2>12. CASE t = WithRows(new, c.ws, R)
    <3>1. Whole(t, Library(new)) /\ t.defs = new.defs /\ t.pkgs = new.pkgs  BY <2>5, <2>11, <2>12, WholeRows
    <3>2. Library(t) = Library(new)  BY <3>1 DEF Library
    <3>. QED  BY <2>11, <3>1, <3>2
  <2>. QED  BY <2>2, <2>11, <2>12
<1>8. CASE c \in Seedings
  <2> DEFINE P == s.pkgs \cup {BuiltinPkg}
             D == [d \in DefIds |-> IF d \in c.got THEN Builtin ELSE s.defs[d]]
  <2>1. t = [s EXCEPT !.pkgs = P, !.defs = D]  BY <1>8 DEF Fn, Seed, Seedings
  <2>2. Builtin \in Def  BY StoreAssumption DEF Builtin, Def
  <2>3. Builtin # None  BY <2>2, StoreAssumption
  <2>4. DOMAIN D = DefIds /\ Uncat \in P /\ \A d \in DefIds : s.defs[d] # None => D[d] # None  BY <2>3
  <2> HIDE DEF D, P
  <2>. QED  BY <1>1, <2>1, <2>4
<1>. QED  BY <1>2, <1>3, <1>4, <1>5, <1>6, <1>7, <1>8 DEF LibraryCommands

\* The commands about a wallet; bind names a definition and a package of its own.
LEMMA WholeWalletFn ==
  ASSUME NEW s, Sound(s), Whole(s, Library(s)), Uncat \in s.pkgs,
         NEW c \in WalletCommands, c.op # "bind", NEW t, t = Fn(s, c), t # Err
  PROVE  Whole(t, Library(t)) /\ Uncat \in t.pkgs
<1> DEFINE L == Library(s)
<1>1. ASSUME NEW v \in Wallets, NEW e, IsEntry(e), Refs(e, L), NEW K, NEW u, u = [s EXCEPT !.known = K, !.wallets[v] = e]
      PROVE  Whole(u, Library(u)) /\ Library(u) = L /\ Uncat \in u.pkgs
  <2>1. DOMAIN u = Parts /\ u.wallets = [s.wallets EXCEPT ![v] = e] /\ u.defs = s.defs /\ u.pkgs = s.pkgs
    BY <1>1 DEF Whole, Parts
  <2>2. Whole(s, L) /\ Library(u) = L  BY <2>1 DEF Library
  <2> HIDE DEF L
  <2>3. v \in Wallets /\ IsEntry(e) /\ Refs(e, L)  BY <1>1
  <2>4. Whole(u, L)  BY ONLY <2>1, <2>2, <2>3 DEF Whole
  <2>. QED  BY <2>1, <2>2, <2>4
<1>2. DOMAIN s = Parts /\ DOMAIN s.wallets = Wallets  BY DEF Whole
<1>3. ASSUME NEW v \in Wallets PROVE IsEntry(s.wallets[v]) /\ Refs(s.wallets[v], L)  BY DEF Whole
<1> HIDE DEF L
<1>4. CASE c \in [op : {"putWalletFolder"}, w : Wallets]
  <2> DEFINE K == s.known \cup {c.w}
  <2>1. t = [s EXCEPT !.known = K]  BY <1>4 DEF Fn, PutWalletFolder
  <2>2. DOMAIN t = Parts /\ t.wallets = s.wallets /\ t.defs = s.defs /\ t.pkgs = s.pkgs  BY <1>2, <2>1 DEF Parts
  <2>3. Library(t) = Library(s)  BY <2>2 DEF Library
  <2>. QED  BY <2>2, <2>3 DEF Whole
<1>5. CASE c \in [op : {"putWalletPackage"}, w : Wallets, p : Pkgs]
  <2> DEFINE v == c.w
             e == [s.wallets[v] EXCEPT !.pkgs = @ \cup {c.p}]
             K == s.known \cup {v}
  <2>1. v \in Wallets /\ c.p \in Pkgs /\ t = PutWalletPackage(s, v, c.p)  BY <1>5 DEF Fn
  <2>2. t = [s EXCEPT !.known = K, !.wallets[v] = e]  BY <1>2, <2>1 DEF PutWalletPackage, Parts
  <2>3. IsEntry(e) /\ e.bindings = s.wallets[v].bindings /\ s.wallets[v].pkgs \subseteq e.pkgs
    BY <1>3, <2>1 DEF IsEntry, Fields
  <2> HIDE DEF v, e, K
  <2>4. Refs(e, L)  BY <1>3, <2>1, <2>3 DEF Refs
  <2>. QED  BY <1>1, <2>1, <2>2, <2>3, <2>4
<1>6. CASE c \in [op : {"removePackageFromWallet"}, w : Wallets, p : Pkgs]
  <2> DEFINE v == c.w
             S == {b \in Bound(s, v) : b.pkg = c.p}
             e == [bindings |-> Dropping(s.wallets[v].bindings, S), pkgs |-> s.wallets[v].pkgs \ {c.p}, off |-> s.wallets[v].off \ {c.p}]
             K == s.known
             u == [s EXCEPT !.known = K, !.wallets[v] = e]
  <2>1. v \in Wallets /\ t = RemovePackage(s, v, c.p)  BY <1>6 DEF Fn
  <2>2. CASE ~Registered(s, v)
    <3>1. t = s  BY <2>1, <2>2 DEF RemovePackage
    <3>. QED  BY <3>1
  <2>3. CASE Registered(s, v)
    <3>1. t = Pruned(u)  BY <1>2, <2>1, <2>3 DEF RemovePackage, Parts
    <3>2. IsEntry(s.wallets[v]) /\ Refs(s.wallets[v], L) /\ Bound(s, v) = BagToSet(s.wallets[v].bindings)
      BY <1>3, <2>1 DEF Bound
    <3>3. IsRows(e.bindings) /\ BagToSet(e.bindings) = Bound(s, v) \ S  BY <3>2, DropRows DEF IsEntry
    <3>4. IsEntry(e)  BY <3>2, <3>3 DEF IsEntry, Fields
    <3>5. Refs(e, L)  BY <3>2, <3>3 DEF Refs
    <3>6. u = [s EXCEPT !.known = K, !.wallets[v] = e]  OBVIOUS
    <3>7. u.known = s.known /\ u.defs = s.defs /\ u.rev = s.rev /\ u.pkgs = s.pkgs /\ DOMAIN u = Parts  BY <1>2 DEF Parts
    <3>7a. u.wallets = [s.wallets EXCEPT ![v] = e]  BY <1>2 DEF Parts
    <3> HIDE DEF v, S, e, K, u
    <3>8. Whole(u, Library(u)) /\ Uncat \in u.pkgs  BY <1>1, <2>1, <3>4, <3>5, <3>6
    <3>9. Typed(u)
      <4>1. \A w \in Wallets : w # v => u.wallets[w] = s.wallets[w]  BY <1>2, <3>7a
      <4>2. \A w \in Wallets \ s.known : w # v /\ Bound(s, w) = {} /\ s.wallets[w].off = {}
        BY <2>3 DEF Sound, Typed, Registered
      <4>3. \A w \in Wallets \ u.known : Bound(u, w) = {} /\ u.wallets[w].off = {}  BY <3>7, <4>1, <4>2 DEF Bound
      <4>. QED  BY <3>7, <3>8, <4>3 DEF Typed, Whole, Sound
    <3>10. Whole(t, Library(u)) /\ Library(t) = Library(u) /\ t.pkgs = u.pkgs  BY <3>1, <3>8, <3>9, WholePruned
    <3>. QED  BY <3>8, <3>10
  <2>. QED  BY <2>2, <2>3
<1>7. CASE c \in [op : {"setPackageEnabled"}, w : Wallets, p : Pkgs, on : BOOLEAN]
  <2> DEFINE v == c.w
             e == [s.wallets[v] EXCEPT !.off = IF c.on THEN @ \ {c.p} ELSE @ \cup {c.p}]
             K == s.known \cup {v}
  <2>1. v \in Wallets /\ c.p \in Pkgs /\ t = SetPackageEnabled(s, v, c.p, c.on)  BY <1>7 DEF Fn
  <2>2. t = [s EXCEPT !.known = K, !.wallets[v] = e]  BY <1>2, <2>1 DEF SetPackageEnabled, Parts
  <2>3. IsEntry(e) /\ e.bindings = s.wallets[v].bindings /\ e.pkgs = s.wallets[v].pkgs
    BY <1>3, <2>1 DEF IsEntry, Fields
  <2> HIDE DEF v, e, K
  <2>4. Refs(e, L)  BY <1>3, <2>1, <2>3 DEF Refs
  <2>. QED  BY <1>1, <2>1, <2>2, <2>3, <2>4
<1>8. CASE c \in [op : {"provisionWallets"}, ws : Some(Wallets)]
  <2> DEFINE ws == {w \in c.ws : ~Registered(s, w)}
             R == {Row(d, s.defs[d].pkg, TRUE, s.defs[d].hole = "filled") : d \in Defaults(s)}
  <2>1. t = WithRows(s, ws, R)  BY <1>8 DEF Fn, Provision
  <2>2. ASSUME NEW b \in R PROVE b \in Binding /\ b.def \in L
    <3>1. PICK d \in Defaults(s) : b = Row(d, s.defs[d].pkg, TRUE, s.defs[d].hole = "filled")  OBVIOUS
    <3>2. d \in L /\ d \in DefIds /\ s.defs[d] # None  BY DEF Defaults, Library, L
    <3>3. s.defs[d] \in Def  BY <3>2 DEF Sound, Typed
    <3>4. s.defs[d].pkg \in Pkgs  BY <3>3 DEF Def
    <3>. QED  BY <3>1, <3>2, <3>4 DEF Row, Binding
  <2> HIDE DEF ws, R
  <2>3. R \subseteq Binding /\ \A b \in R : b.def \in L  BY <2>2
  <2>4. Whole(s, L)  BY DEF L
  <2>5. Whole(t, L) /\ t.defs = s.defs /\ t.pkgs = s.pkgs  BY ONLY <2>1, <2>3, <2>4, WholeRows
  <2>6. Library(t) = L  BY <2>5 DEF Library, L
  <2>. QED  BY <2>5, <2>6
<1>. QED  BY <1>4, <1>5, <1>6, <1>7, <1>8 DEF WalletCommands

\* The rows of one wallet become rows that name the same.
LEMMA WholeOne ==
  ASSUME NEW s, NEW L, Whole(s, L), NEW v \in Wallets, NEW B, IsRows(B),
         \A y \in BagToSet(B) : \E a \in Bound(s, v) : a.def = y.def /\ a.pkg = y.pkg,
         NEW t, t = [s EXCEPT !.wallets[v].bindings = B]
  PROVE  Whole(t, L) /\ t.defs = s.defs /\ t.pkgs = s.pkgs
<1> DEFINE e == [s.wallets[v] EXCEPT !.bindings = B]
<1>1. IsEntry(s.wallets[v]) /\ Refs(s.wallets[v], L) /\ BagToSet(s.wallets[v].bindings) = Bound(s, v)  BY DEF Whole, Bound
<1>2. DOMAIN t = Parts /\ t.wallets = [s.wallets EXCEPT ![v] = e] /\ t.defs = s.defs /\ t.pkgs = s.pkgs  BY DEF Whole, Parts
<1>3. e.bindings = B /\ e.pkgs = s.wallets[v].pkgs /\ IsEntry(e)  BY <1>1 DEF IsEntry, Fields
<1> HIDE DEF e
<1>4. Refs(e, L)  BY <1>1, <1>3 DEF Refs
<1>. QED  BY <1>2, <1>3, <1>4, WholeWallet

\* Patched: one row becomes one that names the same.
LEMMA WholePatched ==
  ASSUME NEW s, NEW L, Whole(s, L), NEW v \in Wallets, NEW b \in Bound(s, v), NEW x \in Binding,
         x.def = b.def, x.pkg = b.pkg, NEW t, t = Patched(s, v, b, x)
  PROVE  Whole(t, L) /\ t.defs = s.defs /\ t.pkgs = s.pkgs
<1> DEFINE A == s.wallets[v].bindings
           O == OneLess(A, b)
           X == SetToBag({x})
           B == O (+) X
<1>1. IsRows(A) /\ BagToSet(A) = Bound(s, v)  BY DEF Whole, IsEntry, Bound
<1>2. O = OneLess(A, b) /\ t = [s EXCEPT !.wallets[v].bindings = B]  BY DEF Patched
<1>3. {x} \subseteq Binding  OBVIOUS
<1>4. IsRows(X) /\ BagToSet(X) = {x}  BY <1>3, SetRows
<1> HIDE DEF A, O, X
<1>5. IsRows(O) /\ BagToSet(O) \subseteq Bound(s, v)  BY <1>1, <1>2, LessRows
<1>6. IsRows(B) /\ BagToSet(B) = BagToSet(O) \cup {x}  BY <1>4, <1>5, AddRows
<1> HIDE DEF B
<1>7. \A y \in BagToSet(B) : \E a \in Bound(s, v) : a.def = y.def /\ a.pkg = y.pkg  BY <1>5, <1>6
<1>. QED  BY <1>2, <1>6, <1>7, WholeOne

\* The commands about a row; patchPackage names a package of its own.
LEMMA WholeRowFn ==
  ASSUME NEW s, Sound(s), Whole(s, Library(s)), Uncat \in s.pkgs, NEW w \in Wallets,
         NEW c \in RowCommands(s, w), c.op # "patchPackage", NEW t, t = Fn(s, c), t # Err
  PROVE  Whole(t, Library(t)) /\ Uncat \in t.pkgs
<1> DEFINE L == Library(s)
<1>1. Whole(s, L) /\ Typed(s)  BY DEF Sound
<1>2. ASSUME NEW u, Whole(u, L), u.defs = s.defs, u.pkgs = s.pkgs PROVE Whole(u, Library(u)) /\ Library(u) = L /\ Uncat \in u.pkgs
  <2>1. Library(u) = L  BY <1>2 DEF Library
  <2>. QED  BY <1>2, <2>1
<1>3. ASSUME NEW b \in Bound(s, w) PROVE b \in Binding /\ b.def \in L
  BY <1>1, RowsAreBindings DEF Sound, Linked, Library
<1> HIDE DEF L
<1>4. CASE c \in [op : {"removeBinding", "toggleBinding"}, w : {w}, b : Bound(s, w)] /\ c.op = "removeBinding"
  <2> DEFINE b == c.b
             B == OneLess(s.wallets[w].bindings, b)
             u == [s EXCEPT !.wallets[w].bindings = B]
  <2>1. b \in Bound(s, w) /\ b \in Binding /\ c.w = w  BY <1>3, <1>4
  <2>2. t = Pruned(u)  BY <1>4, <2>1 DEF Fn, RemoveBinding
  <2>3. Taken(s, c, w) = {b.def} /\ Edited(c) = {}  BY <1>4, <2>1 DEF Taken, Edited
  <2>4. u = [s EXCEPT !.wallets[w].bindings = B] /\ B = OneLess(s.wallets[w].bindings, b)  OBVIOUS
  <2>5. IsRows(s.wallets[w].bindings) /\ BagToSet(s.wallets[w].bindings) = Bound(s, w)  BY <1>1 DEF Whole, IsEntry, Bound
  <2> HIDE DEF b, B, u
  <2>7. IsRows(B) /\ BagToSet(B) \subseteq Bound(s, w) /\ Bound(s, w) \ {b} \subseteq BagToSet(B)  BY <2>4, <2>5, LessRows
  <2>6. Whole(u, L) /\ u.defs = s.defs /\ u.pkgs = s.pkgs  BY <1>1, <2>4, <2>7, WholeOne
  <2>8. \A y \in BagToSet(B) : y \in Bound(s, w) \/ Sure(s, y)  BY <2>7
  <2>9. Alike(s, u, c)  BY ONLY Sound(s), w \in Wallets, <2>1, <2>3, <2>4, <2>7, <2>8, RowAlike
  <2>10. Whole(t, L) /\ Library(t) = Library(u) /\ t.pkgs = u.pkgs  BY <2>2, <2>6, <2>9, WholePruned DEF Alike
  <2>11. Library(u) = L /\ Uncat \in u.pkgs  BY <1>2, <2>6
  <2>. QED  BY <2>10, <2>11
<1>5. CASE c \in [op : {"removeBinding", "toggleBinding"}, w : {w}, b : Bound(s, w)] /\ c.op = "toggleBinding"
  <2> DEFINE b == c.b
             x == [b EXCEPT !.on = ~b.on]
  <2>1. b \in Bound(s, w) /\ b \in Binding /\ c.w = w  BY <1>3, <1>5
  <2>2. t = Patched(s, w, b, x)  BY <1>5, <2>1 DEF Fn
  <2>4. x \in Binding /\ x.def = b.def /\ x.pkg = b.pkg  BY <2>1 DEF Binding
  <2> HIDE DEF b, x
  <2>5. Whole(t, L) /\ t.defs = s.defs /\ t.pkgs = s.pkgs  BY <1>1, <2>1, <2>2, <2>4, WholePatched
  <2>. QED  BY <1>2, <2>5
<1>6. CASE c \in [op : {"patchParams"}, w : {w}, b : Bound(s, w), filled : BOOLEAN]
  <2> DEFINE b == c.b
             x == [b EXCEPT !.filled = c.filled, !.fresh = TRUE]
  <2>1. b \in Bound(s, w) /\ b \in Binding /\ c.w = w /\ c.filled \in BOOLEAN  BY <1>3, <1>6
  <2>2. t = PatchParams(s, w, b, c.filled)  BY <1>6, <2>1 DEF Fn
  <2>3. t = Patched(s, w, b, x)  BY <2>2 DEF PatchParams
  <2>4. x \in Binding /\ x.def = b.def /\ x.pkg = b.pkg  BY <2>1 DEF Binding
  <2> HIDE DEF b, x
  <2>5. Whole(t, L) /\ t.defs = s.defs /\ t.pkgs = s.pkgs  BY <1>1, <2>1, <2>3, <2>4, WholePatched
  <2>. QED  BY <1>2, <2>5
<1>7. CASE c \in [op : {"copyBindings"}, w : {w}, to : Wallets,
                   rows : {{b} : b \in Bound(s, w)} \cup {r \in {Bound(s, w)} : r # {}}]
  <2> DEFINE R == c.rows
             ws == {c.to}
  <2>1. t = WithRows(s, ws, R)  BY <1>7 DEF Fn
  <2>2. R \subseteq Bound(s, w)  BY <1>7
  <2> HIDE DEF R, ws
  <2>3. R \subseteq Binding /\ \A b \in R : b.def \in L  BY <1>3, <2>2
  <2>4. Whole(t, L) /\ t.defs = s.defs /\ t.pkgs = s.pkgs  BY <1>1, <2>1, <2>3, WholeRows
  <2>. QED  BY <1>2, <2>4
<1>. QED  BY <1>4, <1>5, <1>6, <1>7 DEF RowCommands

\* What validate lets pass: whatever the documents are asked, but for a row that is
\* to name another definition or package.
LEMMA FnValid ==
  ASSUME NEW s, Sound(s), Valid(s), NEW c \in Commands(s) \cup Seedings, c.op \notin {"bind", "patchPackage"},
         NEW t, t = Fn(s, c), t # Err
  PROVE  Valid(t)
<1>1. Typed(s) /\ Uncat \in s.pkgs /\ \A w \in Wallets : Refs(s.wallets[w], Library(s))  BY ValidIs DEF Sound
<1>2. Whole(s, Library(s))  BY <1>1 DEF Typed, Whole
<1>3. Whole(t, Library(t)) /\ Uncat \in t.pkgs
  <2>1. CASE c \in LibraryCommands(s) \cup Seedings  BY <1>1, <1>2, <2>1, WholeLibraryFn
  <2>2. CASE c \in WalletCommands  BY <1>1, <1>2, <2>2, WholeWalletFn
  <2>3. CASE \E w \in Wallets : c \in RowCommands(s, w)  BY <1>1, <1>2, <2>3, WholeRowFn
  <2>. QED  BY <2>1, <2>2, <2>3 DEF Commands
<1>4. Typed(t)  BY FnAlike DEF Alike
<1>. QED  BY <1>3, <1>4, ValidIs DEF Whole

-----------------------------------------------------------------------------
(* The stores to start from                                                  *)

\* A new store, and one written before wallets had packages.
LEMMA StoresSound ==
  ASSUME NEW s \in Stores
  PROVE  Sound(s) /\ \A w \in Wallets, d \in Baked : Registered(s, w) => Serves(s, w, d)
<1>1. IsEntry(NewWallet) /\ BagToSet(NewWallet.bindings) = {} /\ NewWallet.off = {}
  BY NoRows DEF NewWallet, IsEntry, Fields
<1>2. CASE s = EmptyStore
  <2>1. /\ DOMAIN s = Parts /\ s.defs = [d \in DefIds |-> None] /\ s.pkgs = {Uncat} /\ s.known = {}
        /\ s.wallets = [w \in Wallets |-> NewWallet] /\ s.rev = 0
    BY <1>2 DEF EmptyStore, Parts
  <2>2. \A w \in Wallets : Bound(s, w) = {}  BY <1>1, <2>1 DEF Bound
  <2>3. Typed(s)  BY <1>1, <2>1, <2>2, StoreAssumption DEF Typed
  <2>. QED  BY <2>1, <2>2, <2>3 DEF Sound, Linked, Filled, Registered
<1>3. CASE s = OldStore
  <2> DEFINE R == {Row(d, BuiltinPkg, TRUE, FALSE) : d \in Baked}
             B == SetToBag(R)
             e == [NewWallet EXCEPT !.bindings = B]
             D == [d \in DefIds |-> IF d \in Baked THEN Builtin ELSE None]
  <2>1. /\ DOMAIN s = Parts /\ s.defs = D /\ s.pkgs = {Uncat} \cup {BuiltinPkg} /\ s.known = Wallets
        /\ s.wallets = [w \in Wallets |-> e] /\ s.rev = 0
    BY <1>3 DEF OldStore, EmptyStore, Parts
  <2>2. ASSUME NEW b \in R PROVE b \in Binding /\ b.def \in Baked /\ b.on = TRUE /\ b.pkg = BuiltinPkg
    <3>1. PICK d \in Baked : b = Row(d, BuiltinPkg, TRUE, FALSE)  OBVIOUS
    <3>2. d \in DefIds /\ BuiltinPkg \in Pkgs  BY StoreAssumption DEF DefIds
    <3>. QED  BY <3>1, <3>2 DEF Row, Binding
  <2>3. ASSUME NEW d \in Baked PROVE \E b \in R : b.def = d
    <3>1. Row(d, BuiltinPkg, TRUE, FALSE) \in R /\ Row(d, BuiltinPkg, TRUE, FALSE).def = d  BY DEF Row
    <3>. QED  BY <3>1
  <2>4. R \subseteq Binding  BY <2>2
  <2>a. Builtin \in Def /\ Builtin.hole = "none"  BY StoreAssumption DEF Builtin, Def
  <2>5. Builtin \in Def /\ Builtin.hole = "none" /\ Builtin # None  BY <2>a, StoreAssumption
  <2>6. D \in [DefIds -> Def \cup {None}] /\ \A d \in Baked : D[d] = Builtin  BY <2>5 DEF DefIds
  <2>7. DOMAIN e = Fields /\ e.bindings = B /\ e.off = {} /\ e.pkgs = {}  BY DEF NewWallet, Fields
  <2> HIDE DEF R, D
  <2>8. IsRows(B) /\ BagToSet(B) = R  BY <2>4, SetRows
  <2> HIDE DEF B, e
  <2>9. IsEntry(e)  BY <2>7, <2>8 DEF IsEntry
  <2>10. \A w \in Wallets : Bound(s, w) = R /\ s.wallets[w].off = {} /\ IsEntry(s.wallets[w])
    BY <2>1, <2>7, <2>8, <2>9 DEF Bound
  <2>11. Typed(s)  BY <2>1, <2>6, <2>10, StoreAssumption DEF Typed
  <2>12. \A b \in R : s.defs[b.def] = Builtin /\ ~Missing(s.defs[b.def], b.filled)
    BY <2>1, <2>2, <2>5, <2>6 DEF Missing
  <2>13. Sound(s)  BY <2>5, <2>10, <2>11, <2>12 DEF Sound, Linked, Filled, Sure
  <2>14. ASSUME NEW w \in Wallets, NEW d \in Baked PROVE Serves(s, w, d)
    <3>1. PICK b \in R : b.def = d  BY <2>3
    <3>2. Effective(s, w, b)  BY <2>2, <2>10, <2>12 DEF Effective
    <3>. QED  BY <2>10, <3>1, <3>2 DEF Serves
  <2>. QED  BY <2>13, <2>14
<1>. QED  BY <1>2, <1>3 DEF Stores

-----------------------------------------------------------------------------
(* What is stored stays sound and serves what is owed                        *)

Safe ==
  /\ Sound(store) /\ Fits(store)
  /\ owed \in [Wallets -> SUBSET Baked] /\ faults \in 0 .. MaxFaults
  /\ \A w \in Wallets : \A d \in owed[w] : Serves(store, w, d)

\* Every store to start from is safe.
LEMMA SafeInit == ASSUME Init PROVE Safe
<1>1. store \in Stores /\ owed = [w \in Wallets |-> IF Registered(store, w) THEN Baked ELSE {}] /\ faults = 0
  BY DEF Init
<1>2. Sound(store) /\ Fits(store)  BY <1>1, StoresSound, RoomAssumption
<1>3. \A w \in Wallets, d \in Baked : Registered(store, w) => Serves(store, w, d)  BY <1>1, StoresSound
<1>4. owed \in [Wallets -> SUBSET Baked] /\ faults \in 0 .. MaxFaults  BY <1>1, RequestAssumption
<1>. QED  BY <1>1, <1>2, <1>3, <1>4 DEF Safe

\* A commit writes a draft, made by one command from what is stored.
LEMMA SafeCommit == ASSUME StoreInv, Safe, NEW r \in Requests, Commit(r) PROVE Safe'
<1> DEFINE c == draft[r].by
<1>1. /\ draft[r] # None /\ store' = draft[r].doc /\ owed' = OwedAfter(c, draft[r].doc) /\ faults' = faults
  BY DEF Commit
<1>2. /\ c \in Commands(Normal(store)) \cup Seedings
      /\ store' = Mutated(store, c) /\ store' # Err
  BY <1>1 DEF StoreInv, Drafts
<1>3. owed' = OwedAfter(c, store')  BY <1>1
<1> HIDE DEF c
<1>4. /\ Sound(store') /\ Fits(store')
      /\ \A w \in Wallets : \A d \in DefIds \ (Edited(c) \cup Taken(store, c, w)) : Serves(store, w, d) => Serves(store', w, d)
      /\ c.op = "provisionWallets" =>
           \A w \in Wallets : Registered(store', w) /\ ~Registered(store, w) => \A d \in Defaults(store') : Serves(store', w, d)
  BY <1>2, MutatedSound DEF Safe
<1>5. ASSUME NEW w \in Wallets
      PROVE  owed'[w] \subseteq Baked /\ \A d \in owed'[w] : Serves(store', w, d)
  <2>1. owed[w] \subseteq Baked /\ owed[w] \subseteq DefIds /\ \A d \in owed[w] : Serves(store, w, d)  BY DEF Safe, DefIds
  <2>2. owed'[w] = IF ~Registered(store', w) THEN {}
                   ELSE IF Registered(store, w) THEN owed[w] \ (Edited(c) \cup Taken(store, c, w))
                   ELSE IF c.op = "provisionWallets" THEN Defaults(store') \cap Baked ELSE {}
    BY <1>3 DEF OwedAfter
  <2>3. CASE ~Registered(store', w)  BY <2>2, <2>3
  <2>4. CASE Registered(store', w) /\ Registered(store, w)
    <3>1. owed'[w] = owed[w] \ (Edited(c) \cup Taken(store, c, w))  BY <2>2, <2>4
    <3>. QED  BY <1>4, <2>1, <3>1
  <2>5. CASE Registered(store', w) /\ ~Registered(store, w) /\ c.op = "provisionWallets"
    <3>1. owed'[w] = Defaults(store') \cap Baked  BY <2>2, <2>5
    <3>. QED  BY <1>4, <2>5, <3>1
  <2>6. CASE Registered(store', w) /\ ~Registered(store, w) /\ c.op # "provisionWallets"  BY <2>2, <2>6
  <2>. QED  BY <2>3, <2>4, <2>5, <2>6
<1>6. DOMAIN owed' = Wallets /\ owed' = [w \in Wallets |-> owed'[w]]  BY <1>3 DEF OwedAfter
<1>7. owed' \in [Wallets -> SUBSET Baked]  BY <1>5, <1>6
<1>. QED  BY <1>1, <1>4, <1>5, <1>7 DEF Safe

\* Only a commit writes the documents or changes what is owed.
LEMMA SafeStep == ASSUME StoreInv, Safe, [Next]_vars PROVE Safe'
<1>1. ASSUME store' = store, owed' = owed, faults' \in 0 .. MaxFaults PROVE Safe'
  BY SMTT(30), ZenonT(60), <1>1 DEF Safe, Sound, Typed, Linked, Filled, Sure, Fits, Serves, Effective, Bound
<1>2. faults \in 0 .. MaxFaults /\ MaxFaults \in Nat  BY RequestAssumption DEF Safe
<1>3. ASSUME NEW r \in Requests, Arrive(r) \/ Check(r) \/ Fetch(r) \/ Submit(r) \/ Resolve(r) \/ Begin(r)  PROVE Safe'
  <2>1. store' = store /\ owed' = owed /\ faults' = faults
    BY <1>3 DEF Arrive, Check, Fetch, Submit, Resolve, Begin, history
  <2>. QED  BY <1>1, <1>2, <2>1
<1>4. ASSUME NEW r \in Requests, FetchFails(r) \/ CommitFails(r)  PROVE Safe'
  <2>1. store' = store /\ owed' = owed /\ Fault  BY <1>4 DEF FetchFails, CommitFails, history
  <2>2. faults' \in 0 .. MaxFaults  BY <1>2, <2>1 DEF Fault
  <2>. QED  BY <1>1, <2>1, <2>2
<1>5. CASE Die
  <2>1. store' = store /\ owed' = owed /\ Fault  BY <1>5 DEF Die
  <2>2. faults' \in 0 .. MaxFaults  BY <1>2, <2>1 DEF Fault
  <2>. QED  BY <1>1, <2>1, <2>2
<1>6. CASE UNCHANGED vars  BY <1>1, <1>2, <1>6 DEF vars, history
<1>. QED  BY <1>3, <1>4, <1>5, <1>6, SafeCommit DEF Next, Step

\* Both halves of the invariant.
LEMMA SafeHolds == Spec => [](StoreInv /\ Safe)
<1>1. Init => Safe  BY SafeInit
<1>2. StoreInv /\ Safe /\ [Next]_vars => Safe'  BY SafeStep
<1>. QED  BY <1>1, <1>2, StoreInvHolds, PTL DEF Spec

\* A sound document has its type.
LEMMA SoundIsStore == ASSUME NEW s, Sound(s), Fits(s) PROVE IsStore(s)
<1>1. \A w \in Wallets : IsWallet(s.wallets[w])  BY DEF Sound, Typed, IsEntry, IsRows, IsWallet
<1>2. \A w \in Wallets : ~Registered(s, w) => Bound(s, w) = {}  BY DEF Sound, Typed, Registered
<1>. QED  BY <1>1, <1>2 DEF IsStore, Sound, Typed

\* The stored documents, what a change is about to write and the worker's memory
\* have their types, whatever operations came before.
THEOREM StoreTypes == Spec => []TypeOK
<1>1. ASSUME StoreInv, Safe PROVE TypeOK
  <2>1. IsStore(store)  BY <1>1, SoundIsStore DEF Safe
  <2>2. ASSUME NEW r \in Requests, draft[r] # None PROVE IsStore(draft[r].doc)
    <3>1. /\ draft[r].by \in Commands(Normal(store)) \cup Seedings
          /\ draft[r].doc = Mutated(store, draft[r].by) /\ draft[r].doc # Err
      BY <1>1, <2>2 DEF StoreInv, Drafts
    <3>2. Sound(draft[r].doc) /\ Fits(draft[r].doc)  BY <1>1, <3>1, MutatedSound DEF Safe
    <3>. QED  BY <3>2, SoundIsStore
  <2>3. /\ pc \in [Requests -> PcStates] /\ got \in [Requests -> SUBSET Baked]
        /\ chain \in Seq(Requests) /\ seeded \in BOOLEAN /\ sown \in BOOLEAN /\ gone \subseteq Baked
    BY <1>1 DEF StoreInv, Frame, Deleted
  <2>4. faults \in 0 .. MaxFaults /\ owed \in [Wallets -> SUBSET Baked]  BY <1>1 DEF Safe
  <2>. QED  BY <2>1, <2>2, <2>3, <2>4 DEF TypeOK
<1>. QED  BY <1>1, SafeHolds, PTL

\* assertHolesFilled: bind, provisionWallets, installMarket, updateBinding and
\* copyBindings never leave a binding that its definition's blank makes useless.
THEOREM HolesFilled == Spec => []FilledWhenBound
<1>1. ASSUME Safe PROVE FilledWhenBound
  BY <1>1 DEF Safe, Sound, Linked, Filled, Sure, FilledWhenBound
<1>. QED  BY <1>1, SafeHolds, PTL

\* normalizeWallets: the documents as they are read pass validation, also those
\* written before wallets had packages.
LEMMA ReadValid == ASSUME StoreInv, Safe PROVE Sound(Normal(store)) /\ Valid(Normal(store))
<1> DEFINE n == Normal(store)
<1>1. Sound(n) /\ \A w \in Wallets : Bound(n, w) = Bound(store, w)  BY NormalSound DEF Safe
<1>2. Uncat \in store.pkgs
  <2>1. CASE store \in Stores
    <3>1. EmptyStore.pkgs = {Uncat} /\ DOMAIN EmptyStore = Parts  BY DEF EmptyStore, Parts
    <3>2. OldStore.pkgs = EmptyStore.pkgs \cup {BuiltinPkg}  BY <3>1 DEF OldStore, Parts
    <3>. QED  BY <2>1, <3>1, <3>2 DEF Stores
  <2>. QED  BY <2>1 DEF StoreInv, Documents, Valid
<1>3. DOMAIN store = Parts /\ DOMAIN store.wallets = Wallets /\ \A w \in Wallets : DOMAIN store.wallets[w] = Fields
  BY DEF Safe, Sound, Typed, IsEntry
<1>4. n.pkgs = store.pkgs /\ \A w \in Wallets : n.wallets[w].pkgs = store.wallets[w].pkgs \cup Named(Bound(store, w))
  BY <1>3 DEF Normal, Parts, Fields
<1> HIDE DEF n
<1>5. ASSUME NEW w \in Wallets, NEW b \in Bound(n, w)
      PROVE  n.defs[b.def] # None /\ (b.pkg = Uncat \/ b.pkg \in n.wallets[w].pkgs)
  <2>1. b.pkg = Uncat \/ b.pkg \in Named(Bound(store, w))  BY <1>1, <1>5 DEF Named
  <2>. QED  BY <1>1, <1>4, <1>5, <2>1 DEF Sound, Linked
<1>6. Valid(n)  BY <1>2, <1>4, <1>5 DEF Valid
<1>. QED  BY <1>1, <1>6 DEF n

\* validate never turns down a deletion, an edit, a copy, a provisioning or a
\* seeding: no sequence of operations leaves documents that block the next ones.
THEOREM StoreNeverWedged == Spec => []NeverWedged
<1>1. ASSUME StoreInv, Safe PROVE NeverWedged
  <2> SUFFICES ASSUME NEW c \in Offered(store), c.op \notin {"bind", "patchPackage"}, Fn(Normal(store), c) # Err
               PROVE  Valid(Fn(Normal(store), c))
    BY DEF NeverWedged
  <2>1. Sound(Normal(store)) /\ Valid(Normal(store))  BY <1>1, ReadValid
  <2>2. c \in Commands(Normal(store)) \cup Seedings  BY DEF Offered
  <2>. QED  BY <2>1, <2>2, FnValid
<1>. QED  BY <1>1, SafeHolds, PTL

\* provisionWallets and resolveBundlesForWallet: a built-in policy a wallet was
\* provisioned with is evaluated until the user takes it or edits it, whatever
\* others do to the store and wherever a write fails.
THEOREM ProtectionHolds == Spec => []ProtectionKept
<1>1. ASSUME Safe PROVE ProtectionKept
  <2> SUFFICES ASSUME NEW w \in Wallets, Registered(store, w), NEW d \in owed[w] PROVE d \in Evaluated(store, w)
    BY DEF ProtectionKept
  <2>1. PICK b \in Bound(store, w) : b.def = d /\ Effective(store, w, b)  BY <1>1 DEF Safe, Serves
  <2>. QED  BY <2>1 DEF Evaluated
<1>. QED  BY <1>1, SafeHolds, PTL
=============================================================================
