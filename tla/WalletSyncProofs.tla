------------------------ MODULE WalletSyncProofs ------------------------
(***************************************************************************)
(* What holds of the wallet rows for any number of wallets, workers,       *)
(* requests, permits, orders, faults, crashes and lapsed locks.            *)
(***************************************************************************)
EXTENDS WalletSync, SequenceTheorems, TLAPS

\* A row with one part replaced is a row, and its other parts are what they were.
LEMMA RowParts ==
  /\ Fresh \in State /\ Fresh.permits = {} /\ Fresh.orders = {}
  /\ \A s \in State : s.permits \in SUBSET Permits /\ s.orders \in SUBSET Orders /\ s.tokens \in BOOLEAN
  /\ \A s \in State, b \in BOOLEAN : LET t == [s EXCEPT !.tokens = b] IN
       t \in State /\ t.permits = s.permits /\ t.orders = s.orders
  /\ \A s \in State, P \in SUBSET Permits : LET t == [s EXCEPT !.permits = P] IN
       t \in State /\ t.permits = P /\ t.orders = s.orders
  /\ \A s \in State, O \in SUBSET Orders : LET t == [s EXCEPT !.orders = O] IN
       t \in State /\ t.permits = s.permits /\ t.orders = O
BY DEF State, Fresh

\* A save leaves well-typed tables.
LEMMA SaveType ==
  ASSUME TypeOK, NEW p \in Procs, NEW s \in State, Save(p, s)
  PROVE  /\ stored' \in [Wallets -> State] /\ row' \in [Wallets -> {"none", "tracked", "archived"}]
         /\ overwritten' \in [Wallets -> SUBSET Permits] /\ revived' \subseteq Wallets
<1>1. cur[p] \in Wallets  BY DEF TypeOK
<1>2. stored' \in [Wallets -> State] /\ row' \in [Wallets -> {"none", "tracked", "archived"}]
  BY <1>1 DEF Save, TypeOK, RowAfterSave
<1>3. (overwritten[cur[p]] \cup (stored[cur[p]].permits \ base[p].permits)) \ s.permits \in SUBSET Permits
  BY <1>1, RowParts DEF TypeOK
<1>4. overwritten' \in [Wallets -> SUBSET Permits]
  BY <1>1, <1>3 DEF Save, TypeOK
<1>5. revived' \subseteq Wallets
  BY <1>1 DEF Save, TypeOK
<1>. QED  BY <1>2, <1>4, <1>5

\* The type of a row is closed under the changes the processes make.
LEMMA TypeStep ==
  ASSUME TypeOK, [Next]_vars
  PROVE  TypeOK'
<1>0. Fresh \in State  BY RowParts
<1> USE SyncAssumption, <1>0 DEF TypeOK, Procs, Requests, Lockers, PcStates, Go, Leave, Abandon, Fault, Load,
      tables, local, world, bounds, history
<1>1. ASSUME NEW p \in Procs, TryLock(p) PROVE TypeOK'
  BY <1>1 DEF TryLock
<1>2. ASSUME NEW p \in Procs, Contended(p) PROVE TypeOK'
  BY <1>2 DEF Contended
<1>3. ASSUME NEW p \in Procs, Release(p) PROVE TypeOK'
  BY <1>3 DEF Release, CompareAndDelete, AfterRelease
<1>4. ASSUME NEW p \in Procs, ListTick(p) PROVE TypeOK'
  BY <1>4 DEF ListTick, ListWallets
<1>5. ASSUME NEW p \in Procs, NextWallet(p) PROVE TypeOK'
  BY <1>5 DEF NextWallet
<1>6. ASSUME NEW p \in Procs, TickEnds(p) PROVE TypeOK'
  BY <1>6 DEF TickEnds
<1>7. ASSUME NEW p \in Procs, ListOne(p) PROVE TypeOK'
  BY <1>7 DEF ListOne
<1>8. ASSUME NEW p \in Procs, Preload(p) PROVE TypeOK'
  <2>1. PICK found \in BOOLEAN : snap' = [snap EXCEPT ![p] = [stored[cur[p]] EXCEPT !.tokens = @ \/ found]]
    BY <1>8 DEF Preload
  <2>2. stored[cur[p]] \in State /\ (stored[cur[p]].tokens \/ found) \in BOOLEAN  BY RowParts
  <2>3. [stored[cur[p]] EXCEPT !.tokens = @ \/ found] \in State  BY <2>2, RowParts
  <2>4. snap' \in [Procs -> State]  BY <2>1, <2>3
  <2>. QED  BY <1>8, <2>2, <2>4 DEF Preload
<1>9. ASSUME NEW p \in Procs, SeedSave(p) PROVE TypeOK'
  <2>1. Save(p, snap[p]) /\ snap[p] \in State  BY <1>9 DEF SeedSave
  <2>. QED  BY <1>9, <2>1, SaveType DEF SeedSave
<1>10. ASSUME NEW p \in Procs, SyncLoad(p) PROVE TypeOK'
  BY <1>10 DEF SyncLoad
<1>11. ASSUME NEW p \in Procs, SyncOrders(p) PROVE TypeOK'
  <2>1. PICK got \in Fetches, failed \in SUBSET Venues :
          /\ faults' = IF failed \cup Missing(got, failed) = {} THEN faults ELSE faults + 1
          /\ snap' = [snap EXCEPT ![p].orders = ApplyOrders(@, got \ UNION {At(v) : v \in failed}, failed)]
          /\ skipped' = [skipped EXCEPT ![p] = Missing(got, failed)]
    BY ONLY <1>11, Zenon DEF SyncOrders
  <2> DEFINE os == ApplyOrders(snap[p].orders, got \ UNION {At(v) : v \in failed}, failed)
  <2>2. snap[p] \in State /\ os \in SUBSET Orders  BY <2>1, RowParts DEF ApplyOrders, Fetches, Listing, At, Newest
  <2>3. snap' = [snap EXCEPT ![p] = [snap[p] EXCEPT !.orders = os]]  BY <2>1
  <2>4. [snap[p] EXCEPT !.orders = os] \in State  BY ONLY <2>2, RowParts
  <2>5. snap' \in [Procs -> State]  BY <2>3, <2>4
  <2>6. Missing(got, failed) \in SUBSET Orders  BY DEF Missing
  <2>7. skipped' \in [Procs -> SUBSET Orders]  BY <2>1, <2>6
  <2>8. faults' \in Nat  BY <2>1
  <2>. QED  BY SMTT(30), ZenonT(60), <1>11, <2>5, <2>7, <2>8 DEF SyncOrders
<1>12. ASSUME NEW p \in Procs, SyncPermits(p) PROVE TypeOK'
  <2>1. PICK read \in SUBSET snap[p].permits :
          snap' = [snap EXCEPT ![p].permits = {q \in @ : ~Expired(q, at[p]) /\ ~(q \in read /\ Consumed(q))}]
    BY <1>12 DEF SyncPermits
  <2> DEFINE P == {q \in snap[p].permits : ~Expired(q, at[p]) /\ ~(q \in read /\ Consumed(q))}
  <2>2. snap[p] \in State /\ P \in SUBSET Permits  BY RowParts
  <2>3. snap' = [snap EXCEPT ![p] = [snap[p] EXCEPT !.permits = P]]  BY <2>1
  <2>4. [snap[p] EXCEPT !.permits = P] \in State  BY ONLY <2>2, RowParts
  <2>5. snap' \in [Procs -> State]  BY <2>3, <2>4
  <2>. QED  BY <1>12, <2>5 DEF SyncPermits
<1>13. ASSUME NEW p \in Procs, SyncSave(p) PROVE TypeOK'
  <2>1. Save(p, snap[p]) /\ snap[p] \in State  BY <1>13 DEF SyncSave
  <2>. QED  BY <1>13, <2>1, SaveType DEF SyncSave, AfterSync
<1>14. ASSUME NEW p \in Procs, AddLoad(p) PROVE TypeOK'
  <2>1. PICK found \in BOOLEAN : snap' = [snap EXCEPT ![p] = [stored[cur[p]] EXCEPT !.tokens = @ \/ found]]
    BY <1>14 DEF AddLoad
  <2>2. stored[cur[p]] \in State /\ (stored[cur[p]].tokens \/ found) \in BOOLEAN  BY RowParts
  <2>3. [stored[cur[p]] EXCEPT !.tokens = @ \/ found] \in State  BY <2>2, RowParts
  <2>4. snap' \in [Procs -> State]  BY <2>1, <2>3
  <2>. QED  BY <1>14, <2>2, <2>4 DEF AddLoad
<1>15. ASSUME NEW p \in Procs, AddSaveEmpty(p) PROVE TypeOK'
  <2>1. Save(p, Fresh) /\ Fresh \in State  BY <1>15 DEF AddSaveEmpty
  <2>. QED  BY <1>15, <2>1, SaveType DEF AddSaveEmpty
<1>16. ASSUME NEW p \in Procs, AddSave(p) PROVE TypeOK'
  <2>1. Save(p, snap[p]) /\ snap[p] \in State  BY <1>16 DEF AddSave
  <2>. QED  BY <1>16, <2>1, SaveType DEF AddSave
<1>17. ASSUME NEW p \in Procs, AddLabel(p) PROVE TypeOK'
  BY <1>17 DEF AddLabel
<1>18. ASSUME NEW p \in Procs, IngestList(p) PROVE TypeOK'
  BY <1>18 DEF IngestList
<1>19. ASSUME NEW p \in Procs, IngestLoad(p) PROVE TypeOK'
  <2>1. stored[cur[p]] \in State /\ PermitOf[p] \in Permits  BY <1>19 DEF IngestLoad
  <2> DEFINE P == stored[cur[p]].permits \cup {PermitOf[p]}
  <2>2. P \in SUBSET Permits  BY SMTT(30), ZenonT(60), <2>1, RowParts
  <2>a. [stored[cur[p]] EXCEPT !.permits = P] \in State  BY ONLY <2>1, <2>2, RowParts
  <2>3. snap' \in [Procs -> State]  BY <1>19, <2>a DEF IngestLoad
  <2>. QED  BY <1>19, <2>1, <2>3 DEF IngestLoad
<1>20. ASSUME NEW p \in Procs, IngestSave(p) PROVE TypeOK'
  <2>1. Save(p, snap[p]) /\ snap[p] \in State  BY <1>20 DEF IngestSave
  <2>2. ingested' \in [Wallets -> SUBSET Permits]
    <3>1. PermitOf[p] \in Permits /\ cur[p] \in Wallets  BY <1>20 DEF IngestSave
    <3>2. ingested[cur[p]] \cup {PermitOf[p]} \in SUBSET Permits  BY <3>1
    <3>. QED  BY <1>20, <3>1, <3>2 DEF IngestSave
  <2>. QED  BY <1>20, <2>1, <2>2, SaveType DEF IngestSave
<1>21. ASSUME NEW p \in Procs, ReleaseFails(p) PROVE TypeOK'
  BY <1>21 DEF ReleaseFails, AfterRelease
<1>22. ASSUME NEW p \in Procs, Crash(p) PROVE TypeOK'
  BY <1>22 DEF Crash, AfterRelease
<1>23. ASSUME NEW p \in Procs, Fails(p) PROVE TypeOK'
  BY <1>23 DEF Fails, AfterSync
<1>24. ASSUME NEW p \in Procs, LoadFails(p) PROVE TypeOK'
  BY <1>24 DEF LoadFails
<1>25. ASSUME NEW w \in Wallets, Delete(w) PROVE TypeOK'
  BY <1>25 DEF Delete, Busy
<1>26. ASSUME Clock PROVE TypeOK'
  BY <1>26 DEF Clock
<1>27. ASSUME UseNonce PROVE TypeOK'
  BY <1>27 DEF UseNonce
<1>28. ASSUME NEW q \in Permits, UseTransfer(q) PROVE TypeOK'
  BY <1>28 DEF UseTransfer
<1>29. ASSUME NEW o \in Orders, Place(o) PROVE TypeOK'
  BY <1>29 DEF Place
<1>30. ASSUME NEW o \in Orders, Close(o) PROVE TypeOK'
  BY <1>30 DEF Close
<1>31. ASSUME LockExpires PROVE TypeOK'
  BY <1>31 DEF LockExpires
<1>32. ASSUME UNCHANGED vars PROVE TypeOK'
  BY <1>32 DEF vars
<1>. QED  BY <1>1, <1>2, <1>3, <1>4, <1>5, <1>6, <1>7, <1>8, <1>9, <1>10, <1>11, <1>12, <1>13, <1>14, <1>15, <1>16, <1>17, <1>18, <1>19, <1>20, <1>21, <1>22, <1>23, <1>24, <1>25, <1>26, <1>27, <1>28, <1>29, <1>30, <1>31, <1>32 DEF Next, Step, Environment

\* SyncTypeCorrect: the tables, the lock, the clocks and every copy a process
\* works on stay well typed (TypeOK), whatever interleaves, fails or dies.
THEOREM SyncTypeCorrect == Spec => []TypeOK
<1>1. Init => TypeOK
  <2>1. \A w \in Wallets : [Fresh EXCEPT !.tokens = w \in Known] \in State
    <3>1. \A w \in Wallets : (w \in Known) \in BOOLEAN  OBVIOUS
    <3>2. Fresh \in State  BY RowParts
    <3>. QED  BY ONLY <3>1, <3>2, RowParts, Zenon
  <2>2. Fresh \in State /\ <<>> \in Seq(Orders)
    BY RowParts
  <2>. QED  BY <2>1, <2>2, SyncAssumption DEF Init, TypeOK, PcStates
<1>2. TypeOK /\ [Next]_vars => TypeOK'
  BY TypeStep
<1>. QED  BY <1>1, <1>2, PTL DEF Spec

-----------------------------------------------------------------------------
(* The lock                                                                  *)

\* Only the steps that take, drop or lose the lock matter to it: every other
\* one leaves the lock alone and lets nobody into the critical section.
LEMMA LockStep ==
  ASSUME TypeOK, LockHeld, [Next]_vars
  PROVE  LockHeld'
<1> USE SyncAssumption DEF TypeOK, Procs, Requests, Lockers, PcStates, Go, Leave
<1> DEFINE Quiet == Critical' \subseteq Critical /\ lock' = lock /\ lapsed' = lapsed
<1>q. Quiet => LockHeld'  BY DEF LockHeld
<1>1. ASSUME NEW p \in Procs, TryLock(p) PROVE LockHeld'
  BY <1>1 DEF TryLock, LockHeld, Critical, history
<1>2. ASSUME NEW p \in Procs, Contended(p) PROVE LockHeld'
  <2>1. Quiet  BY <1>2 DEF Contended, Critical, history, bounds, local, world
  <2>. QED  BY <2>1, <1>q
<1>3. ASSUME NEW p \in Procs, Release(p) PROVE LockHeld'
  BY <1>3 DEF Release, CompareAndDelete, AfterRelease, LockHeld, Critical, history
<1>4. ASSUME NEW p \in Procs, ListTick(p) PROVE LockHeld'
  <2>1. Quiet  BY <1>4 DEF ListTick, Critical, history, bounds, local, world
  <2>. QED  BY <2>1, <1>q
<1>5. ASSUME NEW p \in Procs, NextWallet(p) PROVE LockHeld'
  <2>1. Quiet  BY <1>5 DEF NextWallet, Critical, history, bounds, local, world
  <2>. QED  BY <2>1, <1>q
<1>6. ASSUME NEW p \in Procs, TickEnds(p) PROVE LockHeld'
  <2>1. Quiet  BY <1>6 DEF TickEnds, Critical, history, bounds, local, world
  <2>. QED  BY <2>1, <1>q
<1>7. ASSUME NEW p \in Procs, ListOne(p) PROVE LockHeld'
  <2>1. Quiet  BY <1>7 DEF ListOne, Critical, history, bounds, local, world
  <2>. QED  BY <2>1, <1>q
<1>8. ASSUME NEW p \in Procs, Preload(p) PROVE LockHeld'
  <2>1. Quiet  BY <1>8 DEF Preload, Critical, history, bounds, local, world
  <2>. QED  BY <2>1, <1>q
<1>9. ASSUME NEW p \in Procs, SeedSave(p) PROVE LockHeld'
  <2>1. Quiet  BY <1>9 DEF SeedSave, Critical, history, bounds, local, world
  <2>. QED  BY <2>1, <1>q
<1>10. ASSUME NEW p \in Procs, SyncLoad(p) PROVE LockHeld'
  <2>1. Quiet  BY <1>10 DEF SyncLoad, Critical, history, bounds, local, world
  <2>. QED  BY <2>1, <1>q
<1>11. ASSUME NEW p \in Procs, SyncOrders(p) PROVE LockHeld'
  <2>1. Quiet  BY <1>11 DEF SyncOrders, Critical, history, bounds, local, world
  <2>. QED  BY <2>1, <1>q
<1>12. ASSUME NEW p \in Procs, SyncPermits(p) PROVE LockHeld'
  <2>1. Quiet  BY <1>12 DEF SyncPermits, Critical, history, bounds, local, world
  <2>. QED  BY <2>1, <1>q
<1>13. ASSUME NEW p \in Procs, SyncSave(p) PROVE LockHeld'
  <2>1. Quiet  BY <1>13 DEF SyncSave, AfterSync, Critical, history, bounds, local, world
  <2>. QED  BY <2>1, <1>q
<1>14. ASSUME NEW p \in Procs, AddLoad(p) PROVE LockHeld'
  <2>1. Quiet  BY <1>14 DEF AddLoad, Critical, history, bounds, local, world
  <2>. QED  BY <2>1, <1>q
<1>15. ASSUME NEW p \in Procs, AddSaveEmpty(p) PROVE LockHeld'
  <2>1. Quiet  BY <1>15 DEF AddSaveEmpty, Critical, history, bounds, local, world
  <2>. QED  BY <2>1, <1>q
<1>16. ASSUME NEW p \in Procs, AddSave(p) PROVE LockHeld'
  <2>1. Quiet  BY <1>16 DEF AddSave, Critical, history, bounds, local, world
  <2>. QED  BY <2>1, <1>q
<1>17. ASSUME NEW p \in Procs, AddLabel(p) PROVE LockHeld'
  <2>1. Quiet  BY <1>17 DEF AddLabel, Critical, history, bounds, local, world
  <2>. QED  BY <2>1, <1>q
<1>18. ASSUME NEW p \in Procs, IngestList(p) PROVE LockHeld'
  <2>1. Quiet  BY <1>18 DEF IngestList, Critical, history, bounds, local, world
  <2>. QED  BY <2>1, <1>q
<1>19. ASSUME NEW p \in Procs, IngestLoad(p) PROVE LockHeld'
  <2>1. Quiet  BY <1>19 DEF IngestLoad, Critical, history, bounds, local, world
  <2>. QED  BY <2>1, <1>q
<1>20. ASSUME NEW p \in Procs, IngestSave(p) PROVE LockHeld'
  <2>1. Quiet  BY <1>20 DEF IngestSave, Critical, history, bounds, local, world
  <2>. QED  BY <2>1, <1>q
<1>21. ASSUME NEW p \in Procs, ReleaseFails(p) PROVE LockHeld'
  BY <1>21 DEF ReleaseFails, Abandon, AfterRelease, LockHeld, Critical
<1>22. ASSUME NEW p \in Procs, Crash(p) PROVE LockHeld'
  BY <1>22 DEF Crash, Abandon, AfterRelease, LockHeld, Critical
<1>23. ASSUME NEW p \in Procs, Fails(p) PROVE LockHeld'
  <2>1. Quiet  BY <1>23 DEF Fails, AfterSync, Critical, history, bounds, local, world
  <2>. QED  BY <2>1, <1>q
<1>24. ASSUME NEW p \in Procs, LoadFails(p) PROVE LockHeld'
  <2>1. Quiet  BY <1>24 DEF LoadFails, Critical, history, bounds, local, world
  <2>. QED  BY <2>1, <1>q
<1>25. ASSUME NEW w \in Wallets, Delete(w) PROVE LockHeld'
  <2>1. Quiet  BY <1>25 DEF Delete, Critical, history, bounds, local, world
  <2>. QED  BY <2>1, <1>q
<1>26. ASSUME Clock PROVE LockHeld'
  <2>1. Quiet  BY <1>26 DEF Clock, Critical, history, bounds, local, world
  <2>. QED  BY <2>1, <1>q
<1>27. ASSUME UseNonce PROVE LockHeld'
  <2>1. Quiet  BY <1>27 DEF UseNonce, Critical, history, bounds, local, world
  <2>. QED  BY <2>1, <1>q
<1>28. ASSUME NEW q \in Permits, UseTransfer(q) PROVE LockHeld'
  <2>1. Quiet  BY <1>28 DEF UseTransfer, Critical, history, bounds, local, world
  <2>. QED  BY <2>1, <1>q
<1>29. ASSUME NEW o \in Orders, Place(o) PROVE LockHeld'
  <2>1. Quiet  BY <1>29 DEF Place, Critical, history, bounds, local, world
  <2>. QED  BY <2>1, <1>q
<1>30. ASSUME NEW o \in Orders, Close(o) PROVE LockHeld'
  <2>1. Quiet  BY <1>30 DEF Close, Critical, history, bounds, local, world
  <2>. QED  BY <2>1, <1>q
<1>31. ASSUME LockExpires PROVE LockHeld'
  BY <1>31 DEF LockExpires, LockHeld, Critical
<1>32. ASSUME UNCHANGED vars PROVE LockHeld'
  <2>1. Quiet  BY <1>32 DEF vars, Critical, history, bounds, local, world
  <2>. QED  BY <2>1, <1>q
<1>. QED  BY <1>1, <1>2, <1>3, <1>4, <1>5, <1>6, <1>7, <1>8, <1>9, <1>10, <1>11, <1>12, <1>13, <1>14, <1>15, <1>16, <1>17, <1>18, <1>19, <1>20, <1>21, <1>22, <1>23, <1>24, <1>25, <1>26, <1>27, <1>28, <1>29, <1>30, <1>31, <1>32 DEF Next, Step, Environment

\* SyncMutex: the worker and POST /sync exclude each other as long as no lock
\* runs out under its holder, and a holder whose lock did run out never
\* releases the lock of the next one (LockHeld).
THEOREM SyncMutex == Spec => []LockHeld
<1>1. Init => LockHeld
  BY DEF Init, LockHeld, Critical, Lockers, Procs, Requests
<1>2. TypeOK /\ LockHeld /\ [Next]_vars => LockHeld'
  BY LockStep
<1>. QED  BY <1>1, <1>2, SyncTypeCorrect, PTL DEF Spec

-----------------------------------------------------------------------------
(* What each step does to a process' copy of the row                         *)

LEMMA DiscoveryCopy ==
  ASSUME TypeOK, NEW p \in Procs, Preload(p) \/ AddLoad(p)
  PROVE  \E r \in State : /\ snap' = [snap EXCEPT ![p] = r]
                          /\ r.permits = stored[cur[p]].permits /\ r.orders = stored[cur[p]].orders
<1>1. PICK found \in BOOLEAN : snap' = [snap EXCEPT ![p] = [stored[cur[p]] EXCEPT !.tokens = @ \/ found]]
  BY DEF Preload, AddLoad
<1>2. stored[cur[p]] \in State  BY DEF TypeOK
<1> DEFINE b == stored[cur[p]].tokens \/ found
<1>3. b \in BOOLEAN  BY <1>2, RowParts
<1> DEFINE r == [stored[cur[p]] EXCEPT !.tokens = b]
<1>4. r \in State /\ r.permits = stored[cur[p]].permits /\ r.orders = stored[cur[p]].orders
  BY ONLY <1>2, <1>3, RowParts
<1>. QED  BY <1>1, <1>4

LEMMA IngestCopy ==
  ASSUME TypeOK, NEW p \in Procs, IngestLoad(p)
  PROVE  \E r \in State : /\ snap' = [snap EXCEPT ![p] = r]
                          /\ r.permits = stored[cur[p]].permits \cup {PermitOf[p]}
                          /\ r.orders = stored[cur[p]].orders
<1>1. stored[cur[p]] \in State /\ PermitOf[p] \in Permits  BY SyncAssumption DEF TypeOK, IngestLoad
<1> DEFINE P == stored[cur[p]].permits \cup {PermitOf[p]}
<1>2. P \in SUBSET Permits  BY <1>1, RowParts
<1> DEFINE r == [stored[cur[p]] EXCEPT !.permits = P]
<1>3. r \in State /\ r.permits = P /\ r.orders = stored[cur[p]].orders
  BY ONLY <1>1, <1>2, RowParts
<1>4. snap' = [snap EXCEPT ![p] = r]  BY DEF IngestLoad
<1>. QED  BY <1>3, <1>4

\* Orders that rows and copies know of were placed.
OrdersInv ==
  /\ open \subseteq Placed
  /\ \A w \in Wallets : stored[w].orders \subseteq Placed
  /\ \A p \in Procs : snap[p].orders \subseteq Placed /\ base[p].orders \subseteq Placed

\* What the venues do not answer is kept; what they answer, and what a complete
\* venue leaves out, decides.
LEMMA OrdersCopy ==
  ASSUME TypeOK, OrdersInv, NEW p \in Procs, SyncOrders(p)
  PROVE  \E r \in State : /\ snap' = [snap EXCEPT ![p] = r] /\ r.permits = snap[p].permits
                          /\ r.orders \subseteq Placed
                          /\ snap[p].orders \ r.orders \subseteq (Placed \ open) \cup skipped'[p]
<1>1. PICK got \in Fetches, failed \in SUBSET Venues :
        /\ snap' = [snap EXCEPT ![p].orders = ApplyOrders(@, got \ UNION {At(v) : v \in failed}, failed)]
        /\ skipped' = [skipped EXCEPT ![p] = Missing(got, failed)]
  BY Zenon DEF SyncOrders
<1> DEFINE seen == got \ UNION {At(v) : v \in failed}
           os == ApplyOrders(snap[p].orders, seen, failed)
           r == [snap[p] EXCEPT !.orders = os]
<1>2. snap[p] \in State /\ open \subseteq Orders  BY DEF TypeOK
<1>3. snap[p].orders \subseteq Placed /\ snap[p].orders \subseteq Orders /\ open \subseteq Placed
  BY <1>2, RowParts DEF OrdersInv
<1>4. os \subseteq snap[p].orders \cup open
  BY DEF ApplyOrders
<1>5. os \in SUBSET Orders  BY <1>2, <1>3, <1>4
<1>6. r \in State /\ r.permits = snap[p].permits /\ r.orders = os
  BY ONLY <1>2, <1>5, RowParts
<1>7. ASSUME NEW o \in snap[p].orders, o \notin os PROVE o \in (Placed \ open) \cup skipped'[p]
  <2>1. o \in seen \ open \/ \E v \in Complete \ failed : o \in At(v) \ seen
    BY <1>7 DEF ApplyOrders
  <2>2. CASE o \in seen \ open
    BY <2>2, <1>3
  <2>3. CASE \E v \in Complete \ failed : o \in At(v) \ seen
    <3>1. PICK v \in Complete \ failed : o \in At(v) \ seen  BY <2>3
    <3>2. o \notin got  BY <3>1 DEF At
    <3>3. o \in open => o \in Missing(got, failed)  BY <3>1, <3>2 DEF Missing, At
    <3>4. skipped'[p] = Missing(got, failed)  BY <1>1 DEF TypeOK
    <3>. QED  BY <3>3, <3>4, <1>3
  <2>. QED  BY <2>1, <2>2, <2>3
<1>8. snap' = [snap EXCEPT ![p] = r]  BY <1>1
<1>9. r.orders \subseteq Placed  BY <1>3, <1>4, <1>6
<1>. QED  BY <1>6, <1>7, <1>8, <1>9

LEMMA PermitsCopy ==
  ASSUME TypeOK, NEW p \in Procs, SyncPermits(p)
  PROVE  \E r \in State : /\ snap' = [snap EXCEPT ![p] = r] /\ r.orders = snap[p].orders
                          /\ \A q \in snap[p].permits \ r.permits : Expired(q, at[p]) \/ Consumed(q)
<1>1. PICK read \in SUBSET snap[p].permits :
        snap' = [snap EXCEPT ![p].permits = {q \in @ : ~Expired(q, at[p]) /\ ~(q \in read /\ Consumed(q))}]
  BY DEF SyncPermits
<1> DEFINE P == {q \in snap[p].permits : ~Expired(q, at[p]) /\ ~(q \in read /\ Consumed(q))}
           r == [snap[p] EXCEPT !.permits = P]
<1>2. snap[p] \in State  BY DEF TypeOK
<1>3. P \in SUBSET Permits  BY <1>2, RowParts
<1>4. r \in State /\ r.permits = P /\ r.orders = snap[p].orders  BY ONLY <1>2, <1>3, RowParts
<1>5. snap' = [snap EXCEPT ![p] = r]  BY <1>1
<1>. QED  BY <1>4, <1>5

LEMMA PlacedGrows ==
  ASSUME TypeOK, NEW o \in Orders, Place(o)
  PROVE  Placed' = Placed \cup {o}
<1>1. book \in Seq(Orders) /\ book' = <<o>> \o book  BY DEF TypeOK, Place
<1>2. /\ Len(book') = Len(book) + 1 /\ book' \in Seq(Orders)
      /\ book'[1] = o /\ \A i \in 1 .. Len(book) : book'[i + 1] = book[i]
  BY <1>1
<1>3. DOMAIN book = 1 .. Len(book) /\ DOMAIN book' = 1 .. Len(book') /\ Len(book) \in Nat
  BY <1>1, <1>2
<1>4. ASSUME NEW x \in Placed' PROVE x \in Placed \cup {o}
  <2>1. PICK i \in 1 .. Len(book') : x = book'[i]  BY <1>3, <1>4 DEF Placed
  <2>2. CASE i = 1  BY <2>1, <2>2, <1>2
  <2>3. CASE i # 1
    <3>1. i - 1 \in 1 .. Len(book) /\ book'[(i - 1) + 1] = book[i - 1]  BY <2>1, <2>3, <1>2, <1>3
    <3>. QED  BY <3>1, <2>1, <1>3 DEF Placed
  <2>. QED  BY <2>2, <2>3
<1>5. ASSUME NEW x \in Placed \cup {o} PROVE x \in Placed'
  <2>1. CASE x = o
    <3>1. 1 \in DOMAIN book'  BY <1>2, <1>3
    <3>. QED  BY <2>1, <3>1, <1>2 DEF Placed
  <2>2. CASE x \in Placed
    <3>1. PICK i \in 1 .. Len(book) : x = book[i]  BY <2>2, <1>3 DEF Placed
    <3>2. i + 1 \in DOMAIN book' /\ book'[i + 1] = x  BY <3>1, <1>2, <1>3
    <3>. QED  BY <3>2 DEF Placed
  <2>. QED  BY <1>5, <2>1, <2>2
<1>. QED  BY <1>4, <1>5

-----------------------------------------------------------------------------
(* The rows                                                                  *)

LEMMA OrdersStep ==
  ASSUME TypeOK, OrdersInv, [Next]_vars
  PROVE  OrdersInv'
<1>0. Fresh \in State /\ Fresh.orders = {}  BY RowParts
<1> USE SyncAssumption, <1>0 DEF TypeOK, Procs, Requests, Lockers, Go, Leave, Load, Save, Abandon, tables, local, world, bounds, history
<1>b. book' = book => Placed' = Placed  BY DEF Placed
<1>1. ASSUME NEW p \in Procs, TryLock(p) PROVE OrdersInv'
  <2>1. Placed' = Placed  BY <1>1, <1>b DEF TryLock
  <2>. QED  BY <1>1, <2>1 DEF TryLock, OrdersInv
<1>2. ASSUME NEW p \in Procs, Contended(p) PROVE OrdersInv'
  <2>1. Placed' = Placed  BY <1>2, <1>b DEF Contended
  <2>. QED  BY <1>2, <2>1 DEF Contended, OrdersInv
<1>3. ASSUME NEW p \in Procs, Release(p) PROVE OrdersInv'
  <2>1. Placed' = Placed  BY <1>3, <1>b DEF Release
  <2>. QED  BY <1>3, <2>1 DEF Release, AfterRelease, OrdersInv
<1>4. ASSUME NEW p \in Procs, ListTick(p) PROVE OrdersInv'
  <2>1. Placed' = Placed  BY <1>4, <1>b DEF ListTick
  <2>. QED  BY <1>4, <2>1 DEF ListTick, OrdersInv
<1>5. ASSUME NEW p \in Procs, NextWallet(p) PROVE OrdersInv'
  <2>1. Placed' = Placed  BY <1>5, <1>b DEF NextWallet
  <2>. QED  BY <1>5, <2>1 DEF NextWallet, OrdersInv
<1>6. ASSUME NEW p \in Procs, TickEnds(p) PROVE OrdersInv'
  <2>1. Placed' = Placed  BY <1>6, <1>b DEF TickEnds
  <2>. QED  BY <1>6, <2>1 DEF TickEnds, OrdersInv
<1>7. ASSUME NEW p \in Procs, ListOne(p) PROVE OrdersInv'
  <2>1. Placed' = Placed  BY <1>7, <1>b DEF ListOne
  <2>. QED  BY <1>7, <2>1 DEF ListOne, OrdersInv
<1>8. ASSUME NEW p \in Procs, Preload(p) PROVE OrdersInv'
  <2>r. PICK r \in State : /\ snap' = [snap EXCEPT ![p] = r]
                         /\ r.permits = stored[cur[p]].permits /\ r.orders = stored[cur[p]].orders
    BY <1>8, DiscoveryCopy
  <2>1. Placed' = Placed  BY <1>8, <1>b DEF Preload
  <2>. QED  BY <1>8, <2>r, <2>1 DEF Preload, OrdersInv
<1>9. ASSUME NEW p \in Procs, SeedSave(p) PROVE OrdersInv'
  <2>1. Placed' = Placed  BY <1>9, <1>b DEF SeedSave
  <2>. QED  BY <1>9, <2>1 DEF SeedSave, OrdersInv
<1>10. ASSUME NEW p \in Procs, SyncLoad(p) PROVE OrdersInv'
  <2>1. Placed' = Placed  BY <1>10, <1>b DEF SyncLoad
  <2>. QED  BY <1>10, <2>1 DEF SyncLoad, OrdersInv
<1>11. ASSUME NEW p \in Procs, SyncOrders(p) PROVE OrdersInv'
  <2>r. PICK r \in State : /\ snap' = [snap EXCEPT ![p] = r]
                         /\ r.permits = snap[p].permits /\ r.orders \subseteq Placed
                         /\ snap[p].orders \ r.orders \subseteq (Placed \ open) \cup skipped'[p]
    BY <1>11, OrdersCopy
  <2>1. Placed' = Placed  BY <1>11, <1>b DEF SyncOrders
  <2>. QED  BY <1>11, <2>r, <2>1 DEF SyncOrders, OrdersInv
<1>12. ASSUME NEW p \in Procs, SyncPermits(p) PROVE OrdersInv'
  <2>r. PICK r \in State : /\ snap' = [snap EXCEPT ![p] = r]
                         /\ r.orders = snap[p].orders
                         /\ \A q \in snap[p].permits \ r.permits : Expired(q, at[p]) \/ Consumed(q)
    BY <1>12, PermitsCopy
  <2>1. Placed' = Placed  BY <1>12, <1>b DEF SyncPermits
  <2>. QED  BY <1>12, <2>r, <2>1 DEF SyncPermits, OrdersInv
<1>13. ASSUME NEW p \in Procs, SyncSave(p) PROVE OrdersInv'
  <2>1. Placed' = Placed  BY <1>13, <1>b DEF SyncSave
  <2>. QED  BY <1>13, <2>1 DEF SyncSave, AfterSync, OrdersInv
<1>14. ASSUME NEW p \in Procs, AddLoad(p) PROVE OrdersInv'
  <2>r. PICK r \in State : /\ snap' = [snap EXCEPT ![p] = r]
                         /\ r.permits = stored[cur[p]].permits /\ r.orders = stored[cur[p]].orders
    BY <1>14, DiscoveryCopy
  <2>1. Placed' = Placed  BY <1>14, <1>b DEF AddLoad
  <2>. QED  BY <1>14, <2>r, <2>1 DEF AddLoad, OrdersInv
<1>15. ASSUME NEW p \in Procs, AddSaveEmpty(p) PROVE OrdersInv'
  <2>1. Placed' = Placed  BY <1>15, <1>b DEF AddSaveEmpty
  <2>. QED  BY <1>15, <2>1 DEF AddSaveEmpty, OrdersInv
<1>16. ASSUME NEW p \in Procs, AddSave(p) PROVE OrdersInv'
  <2>1. Placed' = Placed  BY <1>16, <1>b DEF AddSave
  <2>. QED  BY <1>16, <2>1 DEF AddSave, OrdersInv
<1>17. ASSUME NEW p \in Procs, AddLabel(p) PROVE OrdersInv'
  <2>1. Placed' = Placed  BY <1>17, <1>b DEF AddLabel
  <2>. QED  BY <1>17, <2>1 DEF AddLabel, OrdersInv
<1>18. ASSUME NEW p \in Procs, IngestList(p) PROVE OrdersInv'
  <2>1. Placed' = Placed  BY <1>18, <1>b DEF IngestList
  <2>. QED  BY <1>18, <2>1 DEF IngestList, OrdersInv
<1>19. ASSUME NEW p \in Procs, IngestLoad(p) PROVE OrdersInv'
  <2>r. PICK r \in State : /\ snap' = [snap EXCEPT ![p] = r]
                         /\ r.permits = stored[cur[p]].permits \cup {PermitOf[p]} /\ r.orders = stored[cur[p]].orders
    BY <1>19, IngestCopy
  <2>1. Placed' = Placed  BY <1>19, <1>b DEF IngestLoad
  <2>. QED  BY <1>19, <2>r, <2>1 DEF IngestLoad, OrdersInv
<1>20. ASSUME NEW p \in Procs, IngestSave(p) PROVE OrdersInv'
  <2>1. Placed' = Placed  BY <1>20, <1>b DEF IngestSave
  <2>. QED  BY <1>20, <2>1 DEF IngestSave, OrdersInv
<1>21. ASSUME NEW p \in Procs, ReleaseFails(p) PROVE OrdersInv'
  <2>1. Placed' = Placed  BY <1>21, <1>b DEF ReleaseFails
  <2>. QED  BY <1>21, <2>1 DEF ReleaseFails, AfterRelease, OrdersInv
<1>22. ASSUME NEW p \in Procs, Crash(p) PROVE OrdersInv'
  <2>1. Placed' = Placed  BY <1>22, <1>b DEF Crash
  <2>. QED  BY <1>22, <2>1 DEF Crash, AfterRelease, OrdersInv
<1>23. ASSUME NEW p \in Procs, Fails(p) PROVE OrdersInv'
  <2>1. Placed' = Placed  BY <1>23, <1>b DEF Fails
  <2>. QED  BY <1>23, <2>1 DEF Fails, AfterSync, OrdersInv
<1>24. ASSUME NEW p \in Procs, LoadFails(p) PROVE OrdersInv'
  <2>1. Placed' = Placed  BY <1>24, <1>b DEF LoadFails
  <2>. QED  BY <1>24, <2>1 DEF LoadFails, OrdersInv
<1>25. ASSUME NEW w \in Wallets, Delete(w) PROVE OrdersInv'
  <2>1. Placed' = Placed  BY <1>25, <1>b DEF Delete
  <2>. QED  BY <1>25, <2>1 DEF Delete, OrdersInv
<1>26. ASSUME Clock PROVE OrdersInv'
  <2>1. Placed' = Placed  BY <1>26, <1>b DEF Clock
  <2>. QED  BY <1>26, <2>1 DEF Clock, OrdersInv
<1>27. ASSUME UseNonce PROVE OrdersInv'
  <2>1. Placed' = Placed  BY <1>27, <1>b DEF UseNonce
  <2>. QED  BY <1>27, <2>1 DEF UseNonce, OrdersInv
<1>28. ASSUME NEW q \in Permits, UseTransfer(q) PROVE OrdersInv'
  <2>1. Placed' = Placed  BY <1>28, <1>b DEF UseTransfer
  <2>. QED  BY <1>28, <2>1 DEF UseTransfer, OrdersInv
<1>29. ASSUME NEW o \in Orders, Place(o) PROVE OrdersInv'
  BY ZenonT(60), SMTT(30), <1>29, PlacedGrows DEF Place, OrdersInv
<1>30. ASSUME NEW o \in Orders, Close(o) PROVE OrdersInv'
  <2>1. Placed' = Placed  BY <1>30, <1>b DEF Close
  <2>. QED  BY <1>30, <2>1 DEF Close, OrdersInv
<1>31. ASSUME LockExpires PROVE OrdersInv'
  <2>1. Placed' = Placed  BY <1>31, <1>b DEF LockExpires
  <2>. QED  BY <1>31, <2>1 DEF LockExpires, OrdersInv
<1>32. ASSUME UNCHANGED vars PROVE OrdersInv'
  <2>1. Placed' = Placed  BY <1>32, <1>b DEF vars
  <2>. QED  BY <1>32, <2>1 DEF vars, OrdersInv
<1>. QED  BY <1>1, <1>2, <1>3, <1>4, <1>5, <1>6, <1>7, <1>8, <1>9, <1>10, <1>11, <1>12, <1>13, <1>14, <1>15, <1>16, <1>17, <1>18, <1>19, <1>20, <1>21, <1>22, <1>23, <1>24, <1>25, <1>26, <1>27, <1>28, <1>29, <1>30, <1>31, <1>32 DEF Next, Step, Environment

\* What is dead stays dead, and a terminal order never opens again.
LEMMA WorldMoves ==
  ASSUME TypeOK, OrdersInv, [Next]_vars
  PROVE  /\ \A q \in Permits : Dead(q) => Dead(q)'
         /\ Placed \ open \subseteq (Placed \ open)'
         /\ now <= now' /\ now' \in Nat
<1> DEFINE Goal == /\ \A q \in Permits : Dead(q) => Dead(q)'
                   /\ Placed \ open \subseteq (Placed \ open)'
                   /\ now <= now' /\ now' \in Nat
<1> USE SyncAssumption DEF TypeOK
<1>b. book' = book => Placed' = Placed  BY DEF Placed
<1>0. ASSUME UNCHANGED world PROVE Goal  BY <1>0, <1>b DEF world, Dead
<1>1. ASSUME NEW p \in Procs, TryLock(p) PROVE Goal
  <2>1. UNCHANGED world  BY <1>1 DEF TryLock
  <2>. QED  BY <2>1, <1>0
<1>2. ASSUME NEW p \in Procs, Contended(p) PROVE Goal
  <2>1. UNCHANGED world  BY <1>2 DEF Contended
  <2>. QED  BY <2>1, <1>0
<1>3. ASSUME NEW p \in Procs, Release(p) PROVE Goal
  <2>1. UNCHANGED world  BY <1>3 DEF Release
  <2>. QED  BY <2>1, <1>0
<1>4. ASSUME NEW p \in Procs, ListTick(p) PROVE Goal
  <2>1. UNCHANGED world  BY <1>4 DEF ListTick
  <2>. QED  BY <2>1, <1>0
<1>5. ASSUME NEW p \in Procs, NextWallet(p) PROVE Goal
  <2>1. UNCHANGED world  BY <1>5 DEF NextWallet
  <2>. QED  BY <2>1, <1>0
<1>6. ASSUME NEW p \in Procs, TickEnds(p) PROVE Goal
  <2>1. UNCHANGED world  BY <1>6 DEF TickEnds
  <2>. QED  BY <2>1, <1>0
<1>7. ASSUME NEW p \in Procs, ListOne(p) PROVE Goal
  <2>1. UNCHANGED world  BY <1>7 DEF ListOne
  <2>. QED  BY <2>1, <1>0
<1>8. ASSUME NEW p \in Procs, Preload(p) PROVE Goal
  <2>1. UNCHANGED world  BY <1>8 DEF Preload
  <2>. QED  BY <2>1, <1>0
<1>9. ASSUME NEW p \in Procs, SeedSave(p) PROVE Goal
  <2>1. UNCHANGED world  BY <1>9 DEF SeedSave
  <2>. QED  BY <2>1, <1>0
<1>10. ASSUME NEW p \in Procs, SyncLoad(p) PROVE Goal
  <2>1. UNCHANGED world  BY <1>10 DEF SyncLoad
  <2>. QED  BY <2>1, <1>0
<1>11. ASSUME NEW p \in Procs, SyncOrders(p) PROVE Goal
  <2>1. UNCHANGED world  BY <1>11 DEF SyncOrders
  <2>. QED  BY <2>1, <1>0
<1>12. ASSUME NEW p \in Procs, SyncPermits(p) PROVE Goal
  <2>1. UNCHANGED world  BY <1>12 DEF SyncPermits
  <2>. QED  BY <2>1, <1>0
<1>13. ASSUME NEW p \in Procs, SyncSave(p) PROVE Goal
  <2>1. UNCHANGED world  BY <1>13 DEF SyncSave
  <2>. QED  BY <2>1, <1>0
<1>14. ASSUME NEW p \in Procs, AddLoad(p) PROVE Goal
  <2>1. UNCHANGED world  BY <1>14 DEF AddLoad
  <2>. QED  BY <2>1, <1>0
<1>15. ASSUME NEW p \in Procs, AddSaveEmpty(p) PROVE Goal
  <2>1. UNCHANGED world  BY <1>15 DEF AddSaveEmpty
  <2>. QED  BY <2>1, <1>0
<1>16. ASSUME NEW p \in Procs, AddSave(p) PROVE Goal
  <2>1. UNCHANGED world  BY <1>16 DEF AddSave
  <2>. QED  BY <2>1, <1>0
<1>17. ASSUME NEW p \in Procs, AddLabel(p) PROVE Goal
  <2>1. UNCHANGED world  BY <1>17 DEF AddLabel
  <2>. QED  BY <2>1, <1>0
<1>18. ASSUME NEW p \in Procs, IngestList(p) PROVE Goal
  <2>1. UNCHANGED world  BY <1>18 DEF IngestList
  <2>. QED  BY <2>1, <1>0
<1>19. ASSUME NEW p \in Procs, IngestLoad(p) PROVE Goal
  <2>1. UNCHANGED world  BY <1>19 DEF IngestLoad
  <2>. QED  BY <2>1, <1>0
<1>20. ASSUME NEW p \in Procs, IngestSave(p) PROVE Goal
  <2>1. UNCHANGED world  BY <1>20 DEF IngestSave
  <2>. QED  BY <2>1, <1>0
<1>21. ASSUME NEW p \in Procs, ReleaseFails(p) PROVE Goal
  <2>1. UNCHANGED world  BY <1>21 DEF ReleaseFails
  <2>. QED  BY <2>1, <1>0
<1>22. ASSUME NEW p \in Procs, Crash(p) PROVE Goal
  <2>1. UNCHANGED world  BY <1>22 DEF Crash
  <2>. QED  BY <2>1, <1>0
<1>23. ASSUME NEW p \in Procs, Fails(p) PROVE Goal
  <2>1. UNCHANGED world  BY <1>23 DEF Fails
  <2>. QED  BY <2>1, <1>0
<1>24. ASSUME NEW p \in Procs, LoadFails(p) PROVE Goal
  <2>1. UNCHANGED world  BY <1>24 DEF LoadFails
  <2>. QED  BY <2>1, <1>0
<1>25. ASSUME NEW w \in Wallets, Delete(w) PROVE Goal
  <2>1. UNCHANGED world  BY <1>25 DEF Delete
  <2>. QED  BY <2>1, <1>0
<1>26. ASSUME Clock PROVE Goal
  BY <1>26, <1>b DEF Clock, Dead
<1>27. ASSUME UseNonce PROVE Goal
  BY <1>27, <1>b DEF UseNonce, Dead
<1>28. ASSUME NEW q \in Permits, UseTransfer(q) PROVE Goal
  BY <1>28, <1>b DEF UseTransfer, Dead
<1>29. ASSUME NEW o \in Orders, Place(o) PROVE Goal
  <2>1. Placed' = Placed \cup {o}  BY <1>29, PlacedGrows
  <2>2. \A q \in Permits : Dead(q) => Dead(q)'  BY <1>29 DEF Place, Dead
  <2>. QED  BY <1>29, <2>1, <2>2 DEF Place
<1>30. ASSUME NEW o \in Orders, Close(o) PROVE Goal
  BY <1>30, <1>b DEF Close, Dead
<1>31. ASSUME LockExpires PROVE Goal
  <2>1. UNCHANGED world  BY <1>31 DEF LockExpires
  <2>. QED  BY <2>1, <1>0
<1>32. ASSUME UNCHANGED vars PROVE Goal
  <2>1. UNCHANGED world  BY <1>32 DEF vars
  <2>. QED  BY <2>1, <1>0
<1>. QED  BY <1>1, <1>2, <1>3, <1>4, <1>5, <1>6, <1>7, <1>8, <1>9, <1>10, <1>11, <1>12, <1>13, <1>14, <1>15, <1>16, <1>17, <1>18, <1>19, <1>20, <1>21, <1>22, <1>23, <1>24, <1>25, <1>26, <1>27, <1>28, <1>29, <1>30, <1>31, <1>32 DEF Next, Step, Environment

\* Where a process is, and how its copy relates to the row it read.
CopyInv ==
  \A p \in Procs :
    /\ at[p] <= now
    /\ pc[p] = "orders" => snap[p] = base[p]
    /\ pc[p] = "emptying" => base[p].permits = {}
    /\ pc[p] \in {"seeding", "emptying", "adding", "recording"} => base[p].permits \subseteq snap[p].permits
    /\ p \in Ingests /\ pc[p] = "recording" => PermitOf[p] \in snap[p].permits

LEMMA CopyStep ==
  ASSUME TypeOK, OrdersInv, CopyInv, [Next]_vars
  PROVE  CopyInv'
<1>0. Fresh \in State /\ Fresh.permits = {}  BY RowParts
<1>1a. now <= now' /\ now' \in Nat  BY WorldMoves
<1> USE SyncAssumption, <1>0, <1>1a DEF TypeOK, Procs, Requests, Lockers, Go, Leave, Load, Abandon, tables, local, world, bounds, history
<1>1. ASSUME NEW p \in Procs, TryLock(p) PROVE CopyInv'
  BY <1>1 DEF TryLock, CopyInv
<1>2. ASSUME NEW p \in Procs, Contended(p) PROVE CopyInv'
  BY <1>2 DEF Contended, CopyInv
<1>3. ASSUME NEW p \in Procs, Release(p) PROVE CopyInv'
  BY <1>3 DEF Release, AfterRelease, CopyInv
<1>4. ASSUME NEW p \in Procs, ListTick(p) PROVE CopyInv'
  BY <1>4 DEF ListTick, CopyInv
<1>5. ASSUME NEW p \in Procs, NextWallet(p) PROVE CopyInv'
  BY <1>5 DEF NextWallet, CopyInv
<1>6. ASSUME NEW p \in Procs, TickEnds(p) PROVE CopyInv'
  BY <1>6 DEF TickEnds, CopyInv
<1>7. ASSUME NEW p \in Procs, ListOne(p) PROVE CopyInv'
  BY <1>7 DEF ListOne, CopyInv
<1>8. ASSUME NEW p \in Procs, Preload(p) PROVE CopyInv'
  <2>r. PICK r \in State : /\ snap' = [snap EXCEPT ![p] = r]
                         /\ r.permits = stored[cur[p]].permits /\ r.orders = stored[cur[p]].orders
    BY <1>8, DiscoveryCopy
  <2>. QED  BY SMTT(30), ZenonT(60), <1>8, <2>r DEF Preload, CopyInv
<1>9. ASSUME NEW p \in Procs, SeedSave(p) PROVE CopyInv'
  BY <1>9 DEF SeedSave, CopyInv
<1>10. ASSUME NEW p \in Procs, SyncLoad(p) PROVE CopyInv'
  BY <1>10 DEF SyncLoad, CopyInv
<1>11. ASSUME NEW p \in Procs, SyncOrders(p) PROVE CopyInv'
  <2>r. PICK r \in State : /\ snap' = [snap EXCEPT ![p] = r]
                         /\ r.permits = snap[p].permits /\ r.orders \subseteq Placed
                         /\ snap[p].orders \ r.orders \subseteq (Placed \ open) \cup skipped'[p]
    BY <1>11, OrdersCopy
  <2>. QED  BY <1>11, <2>r DEF SyncOrders, CopyInv
<1>12. ASSUME NEW p \in Procs, SyncPermits(p) PROVE CopyInv'
  <2>r. PICK r \in State : /\ snap' = [snap EXCEPT ![p] = r]
                         /\ r.orders = snap[p].orders
                         /\ \A q \in snap[p].permits \ r.permits : Expired(q, at[p]) \/ Consumed(q)
    BY <1>12, PermitsCopy
  <2>. QED  BY <1>12, <2>r DEF SyncPermits, CopyInv
<1>13. ASSUME NEW p \in Procs, SyncSave(p) PROVE CopyInv'
  BY <1>13 DEF SyncSave, AfterSync, CopyInv
<1>14. ASSUME NEW p \in Procs, AddLoad(p) PROVE CopyInv'
  <2>r. PICK r \in State : /\ snap' = [snap EXCEPT ![p] = r]
                         /\ r.permits = stored[cur[p]].permits /\ r.orders = stored[cur[p]].orders
    BY <1>14, DiscoveryCopy
  <2>. QED  BY SMTT(30), ZenonT(60), <1>14, <2>r DEF AddLoad, CopyInv
<1>15. ASSUME NEW p \in Procs, AddSaveEmpty(p) PROVE CopyInv'
  BY <1>15 DEF AddSaveEmpty, CopyInv
<1>16. ASSUME NEW p \in Procs, AddSave(p) PROVE CopyInv'
  BY <1>16 DEF AddSave, CopyInv
<1>17. ASSUME NEW p \in Procs, AddLabel(p) PROVE CopyInv'
  BY <1>17 DEF AddLabel, CopyInv
<1>18. ASSUME NEW p \in Procs, IngestList(p) PROVE CopyInv'
  BY <1>18 DEF IngestList, CopyInv
<1>19. ASSUME NEW p \in Procs, IngestLoad(p) PROVE CopyInv'
  <2>r. PICK r \in State : /\ snap' = [snap EXCEPT ![p] = r]
                         /\ r.permits = stored[cur[p]].permits \cup {PermitOf[p]} /\ r.orders = stored[cur[p]].orders
    BY <1>19, IngestCopy
  <2>. QED  BY <1>19, <2>r DEF IngestLoad, CopyInv
<1>20. ASSUME NEW p \in Procs, IngestSave(p) PROVE CopyInv'
  BY <1>20 DEF IngestSave, CopyInv
<1>21. ASSUME NEW p \in Procs, ReleaseFails(p) PROVE CopyInv'
  BY <1>21 DEF ReleaseFails, AfterRelease, CopyInv
<1>22. ASSUME NEW p \in Procs, Crash(p) PROVE CopyInv'
  BY <1>22 DEF Crash, AfterRelease, CopyInv
<1>23. ASSUME NEW p \in Procs, Fails(p) PROVE CopyInv'
  BY <1>23 DEF Fails, AfterSync, CopyInv
<1>24. ASSUME NEW p \in Procs, LoadFails(p) PROVE CopyInv'
  BY <1>24 DEF LoadFails, CopyInv
<1>25. ASSUME NEW w \in Wallets, Delete(w) PROVE CopyInv'
  BY <1>25 DEF Delete, CopyInv
<1>26. ASSUME Clock PROVE CopyInv'
  BY <1>26 DEF Clock, CopyInv
<1>27. ASSUME UseNonce PROVE CopyInv'
  BY <1>27 DEF UseNonce, CopyInv
<1>28. ASSUME NEW q \in Permits, UseTransfer(q) PROVE CopyInv'
  BY <1>28 DEF UseTransfer, CopyInv
<1>29. ASSUME NEW o \in Orders, Place(o) PROVE CopyInv'
  BY <1>29 DEF Place, CopyInv
<1>30. ASSUME NEW o \in Orders, Close(o) PROVE CopyInv'
  BY <1>30 DEF Close, CopyInv
<1>31. ASSUME LockExpires PROVE CopyInv'
  BY <1>31 DEF LockExpires, CopyInv
<1>32. ASSUME UNCHANGED vars PROVE CopyInv'
  BY <1>32 DEF vars, CopyInv
<1>. QED  BY <1>1, <1>2, <1>3, <1>4, <1>5, <1>6, <1>7, <1>8, <1>9, <1>10, <1>11, <1>12, <1>13, <1>14, <1>15, <1>16, <1>17, <1>18, <1>19, <1>20, <1>21, <1>22, <1>23, <1>24, <1>25, <1>26, <1>27, <1>28, <1>29, <1>30, <1>31, <1>32 DEF Next, Step, Environment

LEMMA DropsStep ==
  ASSUME TypeOK, OrdersInv, CopyInv, SyncDropsOnlyDead, [Next]_vars, TypeOK'
  PROVE  SyncDropsOnlyDead'
<1>0. Fresh \in State /\ Fresh.permits = {}  BY RowParts
<1>1a. /\ \A q \in Permits : Dead(q) => Dead(q)'
       /\ Placed \ open \subseteq (Placed \ open)'
  BY WorldMoves
<1>2a. \A p \in Procs : base[p].permits \subseteq Permits  BY RowParts DEF TypeOK
<1>3a. ASSUME NEW p \in Procs, pc'[p] \notin {"permits", "saving"},
              \A u \in Procs \ {p} : pc'[u] = pc[u] /\ snap'[u] = snap[u] /\ base'[u] = base[u] /\ skipped'[u] = skipped[u]
       PROVE  SyncDropsOnlyDead'
  BY <1>1a, <1>2a, <1>3a DEF SyncDropsOnlyDead
<1>4a. ASSUME UNCHANGED <<pc, snap, base, skipped>> PROVE SyncDropsOnlyDead'
  BY <1>1a, <1>2a, <1>4a DEF SyncDropsOnlyDead
<1> USE SyncAssumption, <1>0 DEF TypeOK, Procs, Requests, Lockers, PcStates, Go, Leave, Load, Abandon, tables, local, world, bounds, history
<1>1. ASSUME NEW p \in Procs, TryLock(p) PROVE SyncDropsOnlyDead'
  <2>1. pc'[p] \notin {"permits", "saving"}  BY <1>1 DEF TryLock
  <2>2. \A u \in Procs \ {p} : pc'[u] = pc[u] /\ snap'[u] = snap[u] /\ base'[u] = base[u] /\ skipped'[u] = skipped[u]
    BY <1>1 DEF TryLock
  <2>. QED  BY <2>1, <2>2, <1>3a
<1>2. ASSUME NEW p \in Procs, Contended(p) PROVE SyncDropsOnlyDead'
  <2>1. pc'[p] \notin {"permits", "saving"}  BY <1>2 DEF Contended
  <2>2. \A u \in Procs \ {p} : pc'[u] = pc[u] /\ snap'[u] = snap[u] /\ base'[u] = base[u] /\ skipped'[u] = skipped[u]
    BY <1>2 DEF Contended
  <2>. QED  BY <2>1, <2>2, <1>3a
<1>3. ASSUME NEW p \in Procs, Release(p) PROVE SyncDropsOnlyDead'
  <2>1. pc'[p] \notin {"permits", "saving"}  BY <1>3 DEF Release, AfterRelease
  <2>2. \A u \in Procs \ {p} : pc'[u] = pc[u] /\ snap'[u] = snap[u] /\ base'[u] = base[u] /\ skipped'[u] = skipped[u]
    BY <1>3 DEF Release, AfterRelease
  <2>. QED  BY <2>1, <2>2, <1>3a
<1>4. ASSUME NEW p \in Procs, ListTick(p) PROVE SyncDropsOnlyDead'
  <2>1. pc'[p] \notin {"permits", "saving"}  BY <1>4 DEF ListTick
  <2>2. \A u \in Procs \ {p} : pc'[u] = pc[u] /\ snap'[u] = snap[u] /\ base'[u] = base[u] /\ skipped'[u] = skipped[u]
    BY <1>4 DEF ListTick
  <2>. QED  BY <2>1, <2>2, <1>3a
<1>5. ASSUME NEW p \in Procs, NextWallet(p) PROVE SyncDropsOnlyDead'
  <2>1. pc'[p] \notin {"permits", "saving"}  BY <1>5 DEF NextWallet
  <2>2. \A u \in Procs \ {p} : pc'[u] = pc[u] /\ snap'[u] = snap[u] /\ base'[u] = base[u] /\ skipped'[u] = skipped[u]
    BY <1>5 DEF NextWallet
  <2>. QED  BY <2>1, <2>2, <1>3a
<1>6. ASSUME NEW p \in Procs, TickEnds(p) PROVE SyncDropsOnlyDead'
  <2>1. pc'[p] \notin {"permits", "saving"}  BY <1>6 DEF TickEnds
  <2>2. \A u \in Procs \ {p} : pc'[u] = pc[u] /\ snap'[u] = snap[u] /\ base'[u] = base[u] /\ skipped'[u] = skipped[u]
    BY <1>6 DEF TickEnds
  <2>. QED  BY <2>1, <2>2, <1>3a
<1>7. ASSUME NEW p \in Procs, ListOne(p) PROVE SyncDropsOnlyDead'
  <2>1. pc'[p] \notin {"permits", "saving"}  BY <1>7 DEF ListOne
  <2>2. \A u \in Procs \ {p} : pc'[u] = pc[u] /\ snap'[u] = snap[u] /\ base'[u] = base[u] /\ skipped'[u] = skipped[u]
    BY <1>7 DEF ListOne
  <2>. QED  BY <2>1, <2>2, <1>3a
<1>8. ASSUME NEW p \in Procs, Preload(p) PROVE SyncDropsOnlyDead'
  <2>1. pc'[p] \notin {"permits", "saving"}  BY <1>8 DEF Preload
  <2>2. \A u \in Procs \ {p} : pc'[u] = pc[u] /\ snap'[u] = snap[u] /\ base'[u] = base[u] /\ skipped'[u] = skipped[u]
    BY <1>8 DEF Preload
  <2>. QED  BY <2>1, <2>2, <1>3a
<1>9. ASSUME NEW p \in Procs, SeedSave(p) PROVE SyncDropsOnlyDead'
  <2>1. pc'[p] \notin {"permits", "saving"}  BY <1>9 DEF SeedSave
  <2>2. \A u \in Procs \ {p} : pc'[u] = pc[u] /\ snap'[u] = snap[u] /\ base'[u] = base[u] /\ skipped'[u] = skipped[u]
    BY <1>9 DEF SeedSave
  <2>. QED  BY <2>1, <2>2, <1>3a
<1>10. ASSUME NEW p \in Procs, SyncLoad(p) PROVE SyncDropsOnlyDead'
  <2>1. pc'[p] \notin {"permits", "saving"}  BY <1>10 DEF SyncLoad
  <2>2. \A u \in Procs \ {p} : pc'[u] = pc[u] /\ snap'[u] = snap[u] /\ base'[u] = base[u] /\ skipped'[u] = skipped[u]
    BY <1>10 DEF SyncLoad
  <2>. QED  BY <2>1, <2>2, <1>3a
<1>11. ASSUME NEW p \in Procs, SyncOrders(p) PROVE SyncDropsOnlyDead'
  <2>r. PICK r \in State : /\ snap' = [snap EXCEPT ![p] = r]
                         /\ r.permits = snap[p].permits /\ r.orders \subseteq Placed
                         /\ snap[p].orders \ r.orders \subseteq (Placed \ open) \cup skipped'[p]
    BY <1>11, OrdersCopy
  <2>1. snap[p] = base[p] /\ UNCHANGED world /\ base' = base
    BY <1>11 DEF SyncOrders, CopyInv
  <2>2. base'[p].permits \ snap'[p].permits = {} /\ base'[p].orders \ snap'[p].orders \subseteq (Placed \ open)' \cup skipped'[p]
    BY <2>r, <2>1, <1>1a
  <2>3. \A u \in Procs \ {p} : pc'[u] = pc[u] /\ snap'[u] = snap[u] /\ base'[u] = base[u] /\ skipped'[u] = skipped[u]
    BY <1>11, <2>r DEF SyncOrders
  <2>. QED  BY <2>2, <2>3, <1>1a, <1>2a DEF SyncDropsOnlyDead
<1>12. ASSUME NEW p \in Procs, SyncPermits(p) PROVE SyncDropsOnlyDead'
  <2>r. PICK r \in State : /\ snap' = [snap EXCEPT ![p] = r]
                         /\ r.orders = snap[p].orders
                         /\ \A q \in snap[p].permits \ r.permits : Expired(q, at[p]) \/ Consumed(q)
    BY <1>12, PermitsCopy
  <2>1. UNCHANGED world /\ base' = base /\ skipped' = skipped /\ pc[p] = "permits" /\ at[p] <= now
    BY <1>12 DEF SyncPermits, CopyInv
  <2>2. base'[p].orders \ snap'[p].orders \subseteq (Placed \ open)' \cup skipped'[p]
    BY <2>r, <2>1, <1>1a DEF SyncDropsOnlyDead
  <2>3. ASSUME NEW q \in base[p].permits, q \notin r.permits PROVE Dead(q)
    <3>1. q \in Permits  BY <1>2a
    <3>2. CASE q \notin snap[p].permits  BY <2>1, <3>2 DEF SyncDropsOnlyDead
    <3>3. CASE q \in snap[p].permits
      <4>1. Expired(q, at[p]) \/ Consumed(q)  BY <2>r, <2>3, <3>3
      <4>. QED  BY <4>1, <3>1, <2>1 DEF Expired, Consumed, NonceUsed, BitSet, Dead
    <3>. QED  BY <3>2, <3>3
  <2>4. \A q \in base'[p].permits \ snap'[p].permits : Dead(q)'
    BY <2>r, <2>1, <2>3, <1>1a, <1>2a
  <2>5. \A u \in Procs \ {p} : pc'[u] = pc[u] /\ snap'[u] = snap[u] /\ base'[u] = base[u] /\ skipped'[u] = skipped[u]
    BY <1>12, <2>r DEF SyncPermits
  <2>. QED  BY <2>2, <2>4, <2>5, <1>1a, <1>2a DEF SyncDropsOnlyDead
<1>13. ASSUME NEW p \in Procs, SyncSave(p) PROVE SyncDropsOnlyDead'
  <2>1. pc'[p] \notin {"permits", "saving"}  BY <1>13 DEF SyncSave, AfterSync
  <2>2. \A u \in Procs \ {p} : pc'[u] = pc[u] /\ snap'[u] = snap[u] /\ base'[u] = base[u] /\ skipped'[u] = skipped[u]
    BY <1>13 DEF SyncSave, AfterSync
  <2>. QED  BY <2>1, <2>2, <1>3a
<1>14. ASSUME NEW p \in Procs, AddLoad(p) PROVE SyncDropsOnlyDead'
  <2>1. pc'[p] \notin {"permits", "saving"}  BY <1>14 DEF AddLoad
  <2>2. \A u \in Procs \ {p} : pc'[u] = pc[u] /\ snap'[u] = snap[u] /\ base'[u] = base[u] /\ skipped'[u] = skipped[u]
    BY <1>14 DEF AddLoad
  <2>. QED  BY <2>1, <2>2, <1>3a
<1>15. ASSUME NEW p \in Procs, AddSaveEmpty(p) PROVE SyncDropsOnlyDead'
  <2>1. pc'[p] \notin {"permits", "saving"}  BY <1>15 DEF AddSaveEmpty
  <2>2. \A u \in Procs \ {p} : pc'[u] = pc[u] /\ snap'[u] = snap[u] /\ base'[u] = base[u] /\ skipped'[u] = skipped[u]
    BY <1>15 DEF AddSaveEmpty
  <2>. QED  BY <2>1, <2>2, <1>3a
<1>16. ASSUME NEW p \in Procs, AddSave(p) PROVE SyncDropsOnlyDead'
  <2>1. pc'[p] \notin {"permits", "saving"}  BY <1>16 DEF AddSave
  <2>2. \A u \in Procs \ {p} : pc'[u] = pc[u] /\ snap'[u] = snap[u] /\ base'[u] = base[u] /\ skipped'[u] = skipped[u]
    BY <1>16 DEF AddSave
  <2>. QED  BY <2>1, <2>2, <1>3a
<1>17. ASSUME NEW p \in Procs, AddLabel(p) PROVE SyncDropsOnlyDead'
  <2>1. pc'[p] \notin {"permits", "saving"}  BY <1>17 DEF AddLabel
  <2>2. \A u \in Procs \ {p} : pc'[u] = pc[u] /\ snap'[u] = snap[u] /\ base'[u] = base[u] /\ skipped'[u] = skipped[u]
    BY <1>17 DEF AddLabel
  <2>. QED  BY <2>1, <2>2, <1>3a
<1>18. ASSUME NEW p \in Procs, IngestList(p) PROVE SyncDropsOnlyDead'
  <2>1. pc'[p] \notin {"permits", "saving"}  BY <1>18 DEF IngestList
  <2>2. \A u \in Procs \ {p} : pc'[u] = pc[u] /\ snap'[u] = snap[u] /\ base'[u] = base[u] /\ skipped'[u] = skipped[u]
    BY <1>18 DEF IngestList
  <2>. QED  BY <2>1, <2>2, <1>3a
<1>19. ASSUME NEW p \in Procs, IngestLoad(p) PROVE SyncDropsOnlyDead'
  <2>1. pc'[p] \notin {"permits", "saving"}  BY <1>19 DEF IngestLoad
  <2>2. \A u \in Procs \ {p} : pc'[u] = pc[u] /\ snap'[u] = snap[u] /\ base'[u] = base[u] /\ skipped'[u] = skipped[u]
    BY <1>19 DEF IngestLoad
  <2>. QED  BY <2>1, <2>2, <1>3a
<1>20. ASSUME NEW p \in Procs, IngestSave(p) PROVE SyncDropsOnlyDead'
  <2>1. pc'[p] \notin {"permits", "saving"}  BY <1>20 DEF IngestSave
  <2>2. \A u \in Procs \ {p} : pc'[u] = pc[u] /\ snap'[u] = snap[u] /\ base'[u] = base[u] /\ skipped'[u] = skipped[u]
    BY <1>20 DEF IngestSave
  <2>. QED  BY <2>1, <2>2, <1>3a
<1>21. ASSUME NEW p \in Procs, ReleaseFails(p) PROVE SyncDropsOnlyDead'
  <2>1. pc'[p] \notin {"permits", "saving"}  BY <1>21 DEF ReleaseFails, AfterRelease
  <2>2. \A u \in Procs \ {p} : pc'[u] = pc[u] /\ snap'[u] = snap[u] /\ base'[u] = base[u] /\ skipped'[u] = skipped[u]
    BY <1>21 DEF ReleaseFails, AfterRelease
  <2>. QED  BY <2>1, <2>2, <1>3a
<1>22. ASSUME NEW p \in Procs, Crash(p) PROVE SyncDropsOnlyDead'
  <2>1. pc'[p] \notin {"permits", "saving"}  BY <1>22 DEF Crash, AfterRelease
  <2>2. \A u \in Procs \ {p} : pc'[u] = pc[u] /\ snap'[u] = snap[u] /\ base'[u] = base[u] /\ skipped'[u] = skipped[u]
    BY <1>22 DEF Crash, AfterRelease
  <2>. QED  BY <2>1, <2>2, <1>3a
<1>23. ASSUME NEW p \in Procs, Fails(p) PROVE SyncDropsOnlyDead'
  <2>1. pc'[p] \notin {"permits", "saving"}  BY <1>23 DEF Fails, AfterSync
  <2>2. \A u \in Procs \ {p} : pc'[u] = pc[u] /\ snap'[u] = snap[u] /\ base'[u] = base[u] /\ skipped'[u] = skipped[u]
    BY <1>23 DEF Fails, AfterSync
  <2>. QED  BY <2>1, <2>2, <1>3a
<1>24. ASSUME NEW p \in Procs, LoadFails(p) PROVE SyncDropsOnlyDead'
  BY <1>24, <1>4a DEF LoadFails
<1>25. ASSUME NEW w \in Wallets, Delete(w) PROVE SyncDropsOnlyDead'
  BY <1>25, <1>4a DEF Delete
<1>26. ASSUME Clock PROVE SyncDropsOnlyDead'
  BY <1>26, <1>4a DEF Clock
<1>27. ASSUME UseNonce PROVE SyncDropsOnlyDead'
  BY <1>27, <1>4a DEF UseNonce
<1>28. ASSUME NEW q \in Permits, UseTransfer(q) PROVE SyncDropsOnlyDead'
  BY <1>28, <1>4a DEF UseTransfer
<1>29. ASSUME NEW o \in Orders, Place(o) PROVE SyncDropsOnlyDead'
  BY <1>29, <1>4a DEF Place
<1>30. ASSUME NEW o \in Orders, Close(o) PROVE SyncDropsOnlyDead'
  BY <1>30, <1>4a DEF Close
<1>31. ASSUME LockExpires PROVE SyncDropsOnlyDead'
  BY <1>31, <1>4a DEF LockExpires
<1>32. ASSUME UNCHANGED vars PROVE SyncDropsOnlyDead'
  BY <1>32, <1>4a DEF vars
<1>. QED  BY <1>1, <1>2, <1>3, <1>4, <1>5, <1>6, <1>7, <1>8, <1>9, <1>10, <1>11, <1>12, <1>13, <1>14, <1>15, <1>16, <1>17, <1>18, <1>19, <1>20, <1>21, <1>22, <1>23, <1>24, <1>25, <1>26, <1>27, <1>28, <1>29, <1>30, <1>31, <1>32 DEF Next, Step, Environment

\* A save loses a permit only if the writer had seen it and found it dead, or
\* had not seen it.
LEMMA LostStep ==
  ASSUME TypeOK, OrdersInv, CopyInv, SyncDropsOnlyDead, LostOnlyByOverlap, [Next]_vars
  PROVE  LostOnlyByOverlap'
<1>0. Fresh \in State /\ Fresh.permits = {}  BY RowParts
<1>1a. \A q \in Permits : Dead(q) => Dead(q)'  BY WorldMoves
<1>2a. \A w \in Wallets : ingested[w] \subseteq Permits  BY DEF TypeOK
<1>3a. ASSUME UNCHANGED <<stored, ingested, overwritten>> PROVE LostOnlyByOverlap'
  BY <1>1a, <1>2a, <1>3a DEF LostOnlyByOverlap
<1>4a. ASSUME NEW p \in Procs, NEW t \in State, Save(p, t),
              \A q \in base[p].permits \ t.permits : Dead(q),
              \A w \in Wallets : ingested'[w] = ingested[w] \/ (w = cur[p] /\ ingested'[w] \subseteq ingested[w] \cup t.permits)
       PROVE  LostOnlyByOverlap'
  <2> SUFFICES ASSUME NEW w \in Wallets, NEW q \in ingested'[w], q \notin stored'[w].permits
               PROVE  Dead(q)' \/ q \in overwritten'[w]
    BY DEF LostOnlyByOverlap
  <2>1. CASE w # cur[p]
    <3>1. stored'[w] = stored[w] /\ overwritten'[w] = overwritten[w] /\ ingested'[w] = ingested[w]
      BY <1>4a, <2>1 DEF Save, TypeOK
    <3>. QED  BY <3>1, <1>1a, <1>2a DEF LostOnlyByOverlap
  <2>2. CASE w = cur[p]
    <3>1. /\ stored'[w] = t
          /\ overwritten'[w] = (overwritten[w] \cup (stored[w].permits \ base[p].permits)) \ t.permits
      BY <1>4a, <2>2 DEF Save, TypeOK
    <3>2. q \in ingested[w] /\ q \notin t.permits /\ q \in Permits  BY <1>4a, <2>2, <3>1, <1>2a
    <3>3. CASE q \in stored[w].permits
      BY <3>1, <3>2, <3>3, <1>4a, <1>1a
    <3>4. CASE q \notin stored[w].permits
      BY <3>1, <3>2, <3>4, <1>1a DEF LostOnlyByOverlap
    <3>. QED  BY <3>3, <3>4
  <2>. QED  BY <2>1, <2>2
<1> USE SyncAssumption, <1>0 DEF TypeOK, Procs, Requests, Lockers, tables, local, world, bounds, history
<1>1. ASSUME NEW p \in Procs, TryLock(p) PROVE LostOnlyByOverlap'
  BY <1>1, <1>3a DEF TryLock
<1>2. ASSUME NEW p \in Procs, Contended(p) PROVE LostOnlyByOverlap'
  BY <1>2, <1>3a DEF Contended
<1>3. ASSUME NEW p \in Procs, Release(p) PROVE LostOnlyByOverlap'
  BY <1>3, <1>3a DEF Release
<1>4. ASSUME NEW p \in Procs, ListTick(p) PROVE LostOnlyByOverlap'
  BY <1>4, <1>3a DEF ListTick
<1>5. ASSUME NEW p \in Procs, NextWallet(p) PROVE LostOnlyByOverlap'
  BY <1>5, <1>3a DEF NextWallet
<1>6. ASSUME NEW p \in Procs, TickEnds(p) PROVE LostOnlyByOverlap'
  BY <1>6, <1>3a DEF TickEnds
<1>7. ASSUME NEW p \in Procs, ListOne(p) PROVE LostOnlyByOverlap'
  BY <1>7, <1>3a DEF ListOne
<1>8. ASSUME NEW p \in Procs, Preload(p) PROVE LostOnlyByOverlap'
  BY <1>8, <1>3a DEF Preload
<1>9. ASSUME NEW p \in Procs, SeedSave(p) PROVE LostOnlyByOverlap'
  BY <1>9, <1>4a DEF SeedSave, CopyInv, Leave, Go
<1>10. ASSUME NEW p \in Procs, SyncLoad(p) PROVE LostOnlyByOverlap'
  BY <1>10, <1>3a DEF SyncLoad
<1>11. ASSUME NEW p \in Procs, SyncOrders(p) PROVE LostOnlyByOverlap'
  BY <1>11, <1>3a DEF SyncOrders
<1>12. ASSUME NEW p \in Procs, SyncPermits(p) PROVE LostOnlyByOverlap'
  BY <1>12, <1>3a DEF SyncPermits
<1>13. ASSUME NEW p \in Procs, SyncSave(p) PROVE LostOnlyByOverlap'
  BY <1>13, <1>4a DEF SyncSave, SyncDropsOnlyDead, Leave, Go
<1>14. ASSUME NEW p \in Procs, AddLoad(p) PROVE LostOnlyByOverlap'
  BY <1>14, <1>3a DEF AddLoad
<1>15. ASSUME NEW p \in Procs, AddSaveEmpty(p) PROVE LostOnlyByOverlap'
  BY <1>15, <1>4a DEF AddSaveEmpty, CopyInv
<1>16. ASSUME NEW p \in Procs, AddSave(p) PROVE LostOnlyByOverlap'
  BY <1>16, <1>4a DEF AddSave, CopyInv, Leave, Go
<1>17. ASSUME NEW p \in Procs, AddLabel(p) PROVE LostOnlyByOverlap'
  BY <1>17, <1>3a DEF AddLabel
<1>18. ASSUME NEW p \in Procs, IngestList(p) PROVE LostOnlyByOverlap'
  BY <1>18, <1>3a DEF IngestList
<1>19. ASSUME NEW p \in Procs, IngestLoad(p) PROVE LostOnlyByOverlap'
  BY <1>19, <1>3a DEF IngestLoad
<1>20. ASSUME NEW p \in Procs, IngestSave(p) PROVE LostOnlyByOverlap'
  <2>1. /\ Save(p, snap[p]) /\ snap[p] \in State /\ base[p].permits \subseteq snap[p].permits
        /\ PermitOf[p] \in snap[p].permits /\ ingested' = [ingested EXCEPT ![cur[p]] = @ \cup {PermitOf[p]}]
    BY <1>20 DEF IngestSave, CopyInv
  <2>2. \A w \in Wallets : ingested'[w] = ingested[w] \/ (w = cur[p] /\ ingested'[w] \subseteq ingested[w] \cup snap[p].permits)
    BY <2>1
  <2>. QED  BY <2>1, <2>2, <1>4a
<1>21. ASSUME NEW p \in Procs, ReleaseFails(p) PROVE LostOnlyByOverlap'
  BY <1>21, <1>3a DEF ReleaseFails, Leave, Abandon
<1>22. ASSUME NEW p \in Procs, Crash(p) PROVE LostOnlyByOverlap'
  BY <1>22, <1>3a DEF Crash, Leave, Abandon
<1>23. ASSUME NEW p \in Procs, Fails(p) PROVE LostOnlyByOverlap'
  BY <1>23, <1>3a DEF Fails, Leave, Abandon
<1>24. ASSUME NEW p \in Procs, LoadFails(p) PROVE LostOnlyByOverlap'
  BY <1>24, <1>3a DEF LoadFails, Leave, Abandon
<1>25. ASSUME NEW w \in Wallets, Delete(w) PROVE LostOnlyByOverlap'
  BY <1>25, <1>3a DEF Delete
<1>26. ASSUME Clock PROVE LostOnlyByOverlap'
  BY <1>26, <1>3a DEF Clock
<1>27. ASSUME UseNonce PROVE LostOnlyByOverlap'
  BY <1>27, <1>3a DEF UseNonce
<1>28. ASSUME NEW q \in Permits, UseTransfer(q) PROVE LostOnlyByOverlap'
  BY <1>28, <1>3a DEF UseTransfer
<1>29. ASSUME NEW o \in Orders, Place(o) PROVE LostOnlyByOverlap'
  BY <1>29, <1>3a DEF Place
<1>30. ASSUME NEW o \in Orders, Close(o) PROVE LostOnlyByOverlap'
  BY <1>30, <1>3a DEF Close
<1>31. ASSUME LockExpires PROVE LostOnlyByOverlap'
  BY <1>31, <1>3a DEF LockExpires
<1>32. ASSUME UNCHANGED vars PROVE LostOnlyByOverlap'
  BY <1>32, <1>3a DEF vars
<1>. QED  BY <1>1, <1>2, <1>3, <1>4, <1>5, <1>6, <1>7, <1>8, <1>9, <1>10, <1>11, <1>12, <1>13, <1>14, <1>15, <1>16, <1>17, <1>18, <1>19, <1>20, <1>21, <1>22, <1>23, <1>24, <1>25, <1>26, <1>27, <1>28, <1>29, <1>30, <1>31, <1>32 DEF Next, Step, Environment

\* The inductive invariant of the rows.
RowInv == OrdersInv /\ CopyInv /\ SyncDropsOnlyDead /\ LostOnlyByOverlap

LEMMA RowInvariant == Spec => []RowInv
<1>1. Init => RowInv
  <2> SUFFICES ASSUME Init PROVE RowInv  OBVIOUS
  <2>1. /\ Fresh.orders = {} /\ Fresh.permits = {} /\ Fresh \in State
        /\ \A w \in Wallets : stored[w].orders = {}
    BY RowParts DEF Init, Fresh
  <2>2. OrdersInv  BY <2>1 DEF Init, OrdersInv
  <2>3. CopyInv  BY <2>1 DEF Init, CopyInv
  <2>4. SyncDropsOnlyDead  BY DEF Init, SyncDropsOnlyDead
  <2>5. LostOnlyByOverlap  BY DEF Init, LostOnlyByOverlap
  <2>. QED  BY <2>2, <2>3, <2>4, <2>5 DEF RowInv
<1>2. TypeOK /\ TypeOK' /\ RowInv /\ [Next]_vars => RowInv'
  BY OrdersStep, CopyStep, DropsStep, LostStep DEF RowInv
<1>. QED  BY <1>1, <1>2, SyncTypeCorrect, PTL DEF Spec

\* DropsAreDead: reconcile_permits never drops a permit that can still be used,
\* and apply_intent_orders drops an order that can still be filled only when a
\* fetcher with an authoritative_prefix left it out of an answer that was Ok,
\* whichever chain, venue or page could not be read (SyncDropsOnlyDead).
THEOREM DropsAreDead == Spec => []SyncDropsOnlyDead
<1>1. RowInv => SyncDropsOnlyDead  BY DEF RowInv
<1>. QED  BY <1>1, RowInvariant, PTL

\* LossNeedsOverlap: a live permit whose POST /permits was answered with OK goes
\* missing only through a writer that had read the row before it and saved it
\* after (LostOnlyByOverlap).
THEOREM LossNeedsOverlap == Spec => []LostOnlyByOverlap
<1>1. RowInv => LostOnlyByOverlap  BY DEF RowInv
<1>. QED  BY <1>1, RowInvariant, PTL

-----------------------------------------------------------------------------
(* Deleted wallets                                                           *)

\* Whoever is still at a deleted wallet was there when it was deleted.
GraceInv == \A w \in Wallets : row[w] = "archived" => Busy(w) \ Adds \subseteq grace[w]

\* A request stays with the wallet it names.
NamedInv == \A p \in Requests : cur[p] = WalletOf[p]

LEMMA NamedStep ==
  ASSUME TypeOK, NamedInv, [Next]_vars
  PROVE  NamedInv'
<1>0. ASSUME cur' = cur PROVE NamedInv'  BY <1>0 DEF NamedInv
<1> USE DEF tables, local, world, bounds, history
<1>1. ASSUME NEW p \in Procs, TryLock(p) PROVE NamedInv'
  BY <1>1, <1>0 DEF TryLock
<1>2. ASSUME NEW p \in Procs, Contended(p) PROVE NamedInv'
  BY <1>2, <1>0 DEF Contended
<1>3. ASSUME NEW p \in Procs, Release(p) PROVE NamedInv'
  BY <1>3, <1>0 DEF Release
<1>4. ASSUME NEW p \in Procs, ListTick(p) PROVE NamedInv'
  BY <1>4, <1>0 DEF ListTick
<1>5. ASSUME NEW p \in Procs, NextWallet(p) PROVE NamedInv'
  BY <1>5, SyncAssumption DEF NextWallet, NamedInv, TypeOK, Procs
<1>6. ASSUME NEW p \in Procs, TickEnds(p) PROVE NamedInv'
  BY <1>6, <1>0 DEF TickEnds
<1>7. ASSUME NEW p \in Procs, ListOne(p) PROVE NamedInv'
  BY <1>7, <1>0 DEF ListOne
<1>8. ASSUME NEW p \in Procs, Preload(p) PROVE NamedInv'
  BY <1>8, <1>0 DEF Preload
<1>9. ASSUME NEW p \in Procs, SeedSave(p) PROVE NamedInv'
  BY <1>9, <1>0 DEF SeedSave
<1>10. ASSUME NEW p \in Procs, SyncLoad(p) PROVE NamedInv'
  BY <1>10, <1>0 DEF SyncLoad
<1>11. ASSUME NEW p \in Procs, SyncOrders(p) PROVE NamedInv'
  BY <1>11, <1>0 DEF SyncOrders
<1>12. ASSUME NEW p \in Procs, SyncPermits(p) PROVE NamedInv'
  BY <1>12, <1>0 DEF SyncPermits
<1>13. ASSUME NEW p \in Procs, SyncSave(p) PROVE NamedInv'
  BY <1>13, <1>0 DEF SyncSave
<1>14. ASSUME NEW p \in Procs, AddLoad(p) PROVE NamedInv'
  BY <1>14, <1>0 DEF AddLoad
<1>15. ASSUME NEW p \in Procs, AddSaveEmpty(p) PROVE NamedInv'
  BY <1>15, <1>0 DEF AddSaveEmpty
<1>16. ASSUME NEW p \in Procs, AddSave(p) PROVE NamedInv'
  BY <1>16, <1>0 DEF AddSave
<1>17. ASSUME NEW p \in Procs, AddLabel(p) PROVE NamedInv'
  BY <1>17, <1>0 DEF AddLabel
<1>18. ASSUME NEW p \in Procs, IngestList(p) PROVE NamedInv'
  BY <1>18, <1>0 DEF IngestList
<1>19. ASSUME NEW p \in Procs, IngestLoad(p) PROVE NamedInv'
  BY <1>19, <1>0 DEF IngestLoad
<1>20. ASSUME NEW p \in Procs, IngestSave(p) PROVE NamedInv'
  BY <1>20, <1>0 DEF IngestSave
<1>21. ASSUME NEW p \in Procs, ReleaseFails(p) PROVE NamedInv'
  BY <1>21, <1>0 DEF ReleaseFails
<1>22. ASSUME NEW p \in Procs, Crash(p) PROVE NamedInv'
  BY <1>22, <1>0 DEF Crash
<1>23. ASSUME NEW p \in Procs, Fails(p) PROVE NamedInv'
  BY <1>23, <1>0 DEF Fails
<1>24. ASSUME NEW p \in Procs, LoadFails(p) PROVE NamedInv'
  BY <1>24, <1>0 DEF LoadFails
<1>25. ASSUME NEW w \in Wallets, Delete(w) PROVE NamedInv'
  BY <1>25, <1>0 DEF Delete
<1>26. ASSUME Clock PROVE NamedInv'
  BY <1>26, <1>0 DEF Clock
<1>27. ASSUME UseNonce PROVE NamedInv'
  BY <1>27, <1>0 DEF UseNonce
<1>28. ASSUME NEW q \in Permits, UseTransfer(q) PROVE NamedInv'
  BY <1>28, <1>0 DEF UseTransfer
<1>29. ASSUME NEW o \in Orders, Place(o) PROVE NamedInv'
  BY <1>29, <1>0 DEF Place
<1>30. ASSUME NEW o \in Orders, Close(o) PROVE NamedInv'
  BY <1>30, <1>0 DEF Close
<1>31. ASSUME LockExpires PROVE NamedInv'
  BY <1>31, <1>0 DEF LockExpires
<1>32. ASSUME UNCHANGED vars PROVE NamedInv'
  BY <1>32, <1>0 DEF vars
<1>. QED  BY <1>1, <1>2, <1>3, <1>4, <1>5, <1>6, <1>7, <1>8, <1>9, <1>10, <1>11, <1>12, <1>13, <1>14, <1>15, <1>16, <1>17, <1>18, <1>19, <1>20, <1>21, <1>22, <1>23, <1>24, <1>25, <1>26, <1>27, <1>28, <1>29, <1>30, <1>31, <1>32 DEF Next, Step, Environment

LEMMA GraceStep ==
  ASSUME TypeOK, NamedInv, GraceInv, NoLateRevival, [Next]_vars
  PROVE  GraceInv' /\ NoLateRevival'
<1> DEFINE Goal == GraceInv' /\ NoLateRevival'
<1>1a. ASSUME row' = row, grace' = grace, revived' = revived,
              \A w \in Wallets : row[w] = "archived" => Busy(w)' \ Adds \subseteq Busy(w) \ Adds
       PROVE  Goal
  BY <1>1a DEF GraceInv, NoLateRevival
<1>2a. ASSUME NEW p \in Procs, NEW t, Save(p, t), grace' = grace, p \in Busy(cur[p]),
              \A w \in Wallets : w # cur[p] => Busy(w)' \subseteq Busy(w)
       PROVE  Goal
  <2>1. cur[p] \in Wallets  BY DEF TypeOK
  <2>2. row'[cur[p]] = "tracked" /\ \A w \in Wallets : w # cur[p] => row'[w] = row[w]
    BY <1>2a, <2>1 DEF Save, RowAfterSave, TypeOK
  <2>3. GraceInv'  BY <1>2a, <2>1, <2>2 DEF GraceInv
  <2>4. row[cur[p]] = "archived" /\ p \notin Adds => p \in grace[cur[p]]
    BY <1>2a, <2>1 DEF GraceInv
  <2>5. revived' = revived  BY <1>2a, <2>4 DEF Save
  <2>. QED  BY <2>3, <2>5 DEF NoLateRevival
<1> USE SyncAssumption DEF TypeOK, Procs, Requests, Lockers, PcStates, Go, Leave, Load, Abandon, tables, local, world, bounds, history
<1>1. ASSUME NEW p \in Procs, TryLock(p) PROVE Goal
  <2>1. row' = row /\ grace' = grace /\ revived' = revived  BY <1>1 DEF TryLock
  <2>2. \A w \in Wallets : row[w] = "archived" => Busy(w)' \ Adds \subseteq Busy(w) \ Adds
    BY <1>1 DEF TryLock, Busy
  <2>. QED  BY <2>1, <2>2, <1>1a
<1>2. ASSUME NEW p \in Procs, Contended(p) PROVE Goal
  <2>1. row' = row /\ grace' = grace /\ revived' = revived  BY <1>2 DEF Contended
  <2>2. \A w \in Wallets : row[w] = "archived" => Busy(w)' \ Adds \subseteq Busy(w) \ Adds
    BY <1>2 DEF Contended, Busy
  <2>. QED  BY <2>1, <2>2, <1>1a
<1>3. ASSUME NEW p \in Procs, Release(p) PROVE Goal
  <2>1. row' = row /\ grace' = grace /\ revived' = revived  BY <1>3 DEF Release
  <2>2. \A w \in Wallets : row[w] = "archived" => Busy(w)' \ Adds \subseteq Busy(w) \ Adds
    BY <1>3 DEF Release, AfterRelease, Busy
  <2>. QED  BY <2>1, <2>2, <1>1a
<1>4. ASSUME NEW p \in Procs, ListTick(p) PROVE Goal
  <2>1. row' = row /\ grace' = grace /\ revived' = revived  BY <1>4 DEF ListTick
  <2>2. \A w \in Wallets : row[w] = "archived" => Busy(w)' \ Adds \subseteq Busy(w) \ Adds
    BY <1>4 DEF ListTick, Busy, ListWallets, NamedInv
  <2>. QED  BY <2>1, <2>2, <1>1a
<1>5. ASSUME NEW p \in Procs, NextWallet(p) PROVE Goal
  <2>1. row' = row /\ grace' = grace /\ revived' = revived  BY <1>5 DEF NextWallet
  <2>2. \A w \in Wallets : row[w] = "archived" => Busy(w)' \ Adds \subseteq Busy(w) \ Adds
    BY <1>5 DEF NextWallet, Busy
  <2>. QED  BY <2>1, <2>2, <1>1a
<1>6. ASSUME NEW p \in Procs, TickEnds(p) PROVE Goal
  <2>1. row' = row /\ grace' = grace /\ revived' = revived  BY <1>6 DEF TickEnds
  <2>2. \A w \in Wallets : row[w] = "archived" => Busy(w)' \ Adds \subseteq Busy(w) \ Adds
    BY <1>6 DEF TickEnds, Busy
  <2>. QED  BY <2>1, <2>2, <1>1a
<1>7. ASSUME NEW p \in Procs, ListOne(p) PROVE Goal
  <2>1. row' = row /\ grace' = grace /\ revived' = revived  BY <1>7 DEF ListOne
  <2>2. \A w \in Wallets : row[w] = "archived" => Busy(w)' \ Adds \subseteq Busy(w) \ Adds
    BY <1>7 DEF ListOne, Busy, ListWallets, NamedInv
  <2>. QED  BY <2>1, <2>2, <1>1a
<1>8. ASSUME NEW p \in Procs, Preload(p) PROVE Goal
  <2>1. row' = row /\ grace' = grace /\ revived' = revived  BY <1>8 DEF Preload
  <2>2. \A w \in Wallets : row[w] = "archived" => Busy(w)' \ Adds \subseteq Busy(w) \ Adds
    BY <1>8 DEF Preload, Busy
  <2>. QED  BY <2>1, <2>2, <1>1a
<1>9. ASSUME NEW p \in Procs, SeedSave(p) PROVE Goal
  <2>1. Save(p, snap[p]) /\ grace' = grace  BY <1>9 DEF SeedSave
  <2>2. p \in Busy(cur[p])  BY <1>9 DEF SeedSave, Busy
  <2>3. \A w \in Wallets : w # cur[p] => Busy(w)' \subseteq Busy(w)
    BY <1>9 DEF SeedSave, Busy
  <2>. QED  BY <2>1, <2>2, <2>3, <1>2a
<1>10. ASSUME NEW p \in Procs, SyncLoad(p) PROVE Goal
  <2>1. row' = row /\ grace' = grace /\ revived' = revived  BY <1>10 DEF SyncLoad
  <2>2. \A w \in Wallets : row[w] = "archived" => Busy(w)' \ Adds \subseteq Busy(w) \ Adds
    BY <1>10 DEF SyncLoad, Busy
  <2>. QED  BY <2>1, <2>2, <1>1a
<1>11. ASSUME NEW p \in Procs, SyncOrders(p) PROVE Goal
  <2>1. row' = row /\ grace' = grace /\ revived' = revived  BY <1>11 DEF SyncOrders
  <2>2. \A w \in Wallets : row[w] = "archived" => Busy(w)' \ Adds \subseteq Busy(w) \ Adds
    BY <1>11 DEF SyncOrders, Busy
  <2>. QED  BY <2>1, <2>2, <1>1a
<1>12. ASSUME NEW p \in Procs, SyncPermits(p) PROVE Goal
  <2>1. row' = row /\ grace' = grace /\ revived' = revived  BY <1>12 DEF SyncPermits
  <2>2. \A w \in Wallets : row[w] = "archived" => Busy(w)' \ Adds \subseteq Busy(w) \ Adds
    BY <1>12 DEF SyncPermits, Busy
  <2>. QED  BY <2>1, <2>2, <1>1a
<1>13. ASSUME NEW p \in Procs, SyncSave(p) PROVE Goal
  <2>1. Save(p, snap[p]) /\ grace' = grace  BY <1>13 DEF SyncSave
  <2>2. p \in Busy(cur[p])  BY <1>13 DEF SyncSave, Busy
  <2>3. \A w \in Wallets : w # cur[p] => Busy(w)' \subseteq Busy(w)
    BY <1>13 DEF SyncSave, AfterSync, Busy
  <2>. QED  BY <2>1, <2>2, <2>3, <1>2a
<1>14. ASSUME NEW p \in Procs, AddLoad(p) PROVE Goal
  <2>1. row' = row /\ grace' = grace /\ revived' = revived  BY <1>14 DEF AddLoad
  <2>2. \A w \in Wallets : row[w] = "archived" => Busy(w)' \ Adds \subseteq Busy(w) \ Adds
    BY <1>14 DEF AddLoad, Busy
  <2>. QED  BY <2>1, <2>2, <1>1a
<1>15. ASSUME NEW p \in Procs, AddSaveEmpty(p) PROVE Goal
  <2>1. Save(p, Fresh) /\ grace' = grace  BY <1>15 DEF AddSaveEmpty
  <2>2. p \in Busy(cur[p])  BY <1>15 DEF AddSaveEmpty, Busy
  <2>3. \A w \in Wallets : w # cur[p] => Busy(w)' \subseteq Busy(w)
    BY <1>15 DEF AddSaveEmpty, Busy
  <2>. QED  BY <2>1, <2>2, <2>3, <1>2a
<1>16. ASSUME NEW p \in Procs, AddSave(p) PROVE Goal
  <2>1. Save(p, snap[p]) /\ grace' = grace  BY <1>16 DEF AddSave
  <2>2. p \in Busy(cur[p])  BY <1>16 DEF AddSave, Busy
  <2>3. \A w \in Wallets : w # cur[p] => Busy(w)' \subseteq Busy(w)
    BY <1>16 DEF AddSave, Busy
  <2>. QED  BY <2>1, <2>2, <2>3, <1>2a
<1>17. ASSUME NEW p \in Procs, AddLabel(p) PROVE Goal
  <2>1. row' = row /\ grace' = grace /\ revived' = revived  BY <1>17 DEF AddLabel
  <2>2. \A w \in Wallets : row[w] = "archived" => Busy(w)' \ Adds \subseteq Busy(w) \ Adds
    BY <1>17 DEF AddLabel, Busy
  <2>. QED  BY <2>1, <2>2, <1>1a
<1>18. ASSUME NEW p \in Procs, IngestList(p) PROVE Goal
  <2>1. row' = row /\ grace' = grace /\ revived' = revived  BY <1>18 DEF IngestList
  <2>2. \A w \in Wallets : row[w] = "archived" => Busy(w)' \ Adds \subseteq Busy(w) \ Adds
    BY <1>18 DEF IngestList, Busy, ListWallets, NamedInv
  <2>. QED  BY <2>1, <2>2, <1>1a
<1>19. ASSUME NEW p \in Procs, IngestLoad(p) PROVE Goal
  <2>1. row' = row /\ grace' = grace /\ revived' = revived  BY <1>19 DEF IngestLoad
  <2>2. \A w \in Wallets : row[w] = "archived" => Busy(w)' \ Adds \subseteq Busy(w) \ Adds
    BY <1>19 DEF IngestLoad, Busy
  <2>. QED  BY <2>1, <2>2, <1>1a
<1>20. ASSUME NEW p \in Procs, IngestSave(p) PROVE Goal
  <2>1. Save(p, snap[p]) /\ grace' = grace  BY <1>20 DEF IngestSave
  <2>2. p \in Busy(cur[p])  BY <1>20 DEF IngestSave, Busy
  <2>3. \A w \in Wallets : w # cur[p] => Busy(w)' \subseteq Busy(w)
    BY <1>20 DEF IngestSave, Busy
  <2>. QED  BY <2>1, <2>2, <2>3, <1>2a
<1>21. ASSUME NEW p \in Procs, ReleaseFails(p) PROVE Goal
  <2>1. row' = row /\ grace' = grace /\ revived' = revived  BY <1>21 DEF ReleaseFails
  <2>2. \A w \in Wallets : row[w] = "archived" => Busy(w)' \ Adds \subseteq Busy(w) \ Adds
    BY <1>21 DEF ReleaseFails, AfterRelease, Busy
  <2>. QED  BY <2>1, <2>2, <1>1a
<1>22. ASSUME NEW p \in Procs, Crash(p) PROVE Goal
  <2>1. row' = row /\ grace' = grace /\ revived' = revived  BY <1>22 DEF Crash
  <2>2. \A w \in Wallets : row[w] = "archived" => Busy(w)' \ Adds \subseteq Busy(w) \ Adds
    BY <1>22 DEF Crash, AfterRelease, Busy
  <2>. QED  BY <2>1, <2>2, <1>1a
<1>23. ASSUME NEW p \in Procs, Fails(p) PROVE Goal
  <2>1. row' = row /\ grace' = grace /\ revived' = revived  BY <1>23 DEF Fails
  <2>2. \A w \in Wallets : row[w] = "archived" => Busy(w)' \ Adds \subseteq Busy(w) \ Adds
    BY <1>23 DEF Fails, AfterSync, Busy
  <2>. QED  BY <2>1, <2>2, <1>1a
<1>24. ASSUME NEW p \in Procs, LoadFails(p) PROVE Goal
  <2>1. row' = row /\ grace' = grace /\ revived' = revived  BY <1>24 DEF LoadFails
  <2>2. \A w \in Wallets : row[w] = "archived" => Busy(w)' \ Adds \subseteq Busy(w) \ Adds
    BY <1>24 DEF LoadFails, Busy
  <2>. QED  BY <2>1, <2>2, <1>1a
<1>25. ASSUME NEW w \in Wallets, Delete(w) PROVE Goal
  <2>1. Busy(w)' = Busy(w) /\ \A u \in Wallets : Busy(u)' = Busy(u)  BY <1>25 DEF Delete, Busy
  <2>2. GraceInv'  BY <1>25, <2>1 DEF Delete, GraceInv
  <2>. QED  BY <1>25, <2>2 DEF Delete, NoLateRevival
<1>26. ASSUME Clock PROVE Goal
  <2>1. row' = row /\ grace' = grace /\ revived' = revived  BY <1>26 DEF Clock
  <2>2. \A w \in Wallets : row[w] = "archived" => Busy(w)' \ Adds \subseteq Busy(w) \ Adds
    BY <1>26 DEF Clock, Busy
  <2>. QED  BY <2>1, <2>2, <1>1a
<1>27. ASSUME UseNonce PROVE Goal
  <2>1. row' = row /\ grace' = grace /\ revived' = revived  BY <1>27 DEF UseNonce
  <2>2. \A w \in Wallets : row[w] = "archived" => Busy(w)' \ Adds \subseteq Busy(w) \ Adds
    BY <1>27 DEF UseNonce, Busy
  <2>. QED  BY <2>1, <2>2, <1>1a
<1>28. ASSUME NEW q \in Permits, UseTransfer(q) PROVE Goal
  <2>1. row' = row /\ grace' = grace /\ revived' = revived  BY <1>28 DEF UseTransfer
  <2>2. \A w \in Wallets : row[w] = "archived" => Busy(w)' \ Adds \subseteq Busy(w) \ Adds
    BY <1>28 DEF UseTransfer, Busy
  <2>. QED  BY <2>1, <2>2, <1>1a
<1>29. ASSUME NEW o \in Orders, Place(o) PROVE Goal
  <2>1. row' = row /\ grace' = grace /\ revived' = revived  BY <1>29 DEF Place
  <2>2. \A w \in Wallets : row[w] = "archived" => Busy(w)' \ Adds \subseteq Busy(w) \ Adds
    BY <1>29 DEF Place, Busy
  <2>. QED  BY <2>1, <2>2, <1>1a
<1>30. ASSUME NEW o \in Orders, Close(o) PROVE Goal
  <2>1. row' = row /\ grace' = grace /\ revived' = revived  BY <1>30 DEF Close
  <2>2. \A w \in Wallets : row[w] = "archived" => Busy(w)' \ Adds \subseteq Busy(w) \ Adds
    BY <1>30 DEF Close, Busy
  <2>. QED  BY <2>1, <2>2, <1>1a
<1>31. ASSUME LockExpires PROVE Goal
  <2>1. row' = row /\ grace' = grace /\ revived' = revived  BY <1>31 DEF LockExpires
  <2>2. \A w \in Wallets : row[w] = "archived" => Busy(w)' \ Adds \subseteq Busy(w) \ Adds
    BY <1>31 DEF LockExpires, Busy
  <2>. QED  BY <2>1, <2>2, <1>1a
<1>32. ASSUME UNCHANGED vars PROVE Goal
  <2>1. row' = row /\ grace' = grace /\ revived' = revived  BY <1>32 DEF vars
  <2>2. \A w \in Wallets : row[w] = "archived" => Busy(w)' \ Adds \subseteq Busy(w) \ Adds
    BY <1>32 DEF vars, Busy
  <2>. QED  BY <2>1, <2>2, <1>1a
<1>. QED  BY <1>1, <1>2, <1>3, <1>4, <1>5, <1>6, <1>7, <1>8, <1>9, <1>10, <1>11, <1>12, <1>13, <1>14, <1>15, <1>16, <1>17, <1>18, <1>19, <1>20, <1>21, <1>22, <1>23, <1>24, <1>25, <1>26, <1>27, <1>28, <1>29, <1>30, <1>31, <1>32 DEF Next, Step, Environment

\* DeletesHold: a deleted wallet comes back only through the user's own POST
\* /wallets or through a writer that had begun before the deletion
\* (NoLateRevival).
THEOREM DeletesHold == Spec => []NoLateRevival
<1>1. Init => NamedInv /\ GraceInv /\ NoLateRevival
  BY DEF Init, NamedInv, GraceInv, NoLateRevival
<1>2. TypeOK /\ NamedInv /\ GraceInv /\ NoLateRevival /\ [Next]_vars => (NamedInv /\ GraceInv /\ NoLateRevival)'
  BY NamedStep, GraceStep
<1>. QED  BY <1>1, <1>2, SyncTypeCorrect, PTL DEF Spec
=============================================================================
