------------------------- MODULE DecisionLogsProofs -------------------------
(***************************************************************************)
(* Proofs about DecisionLogs, for every number of decisions, every cap and *)
(* every number of worker deaths.  LogsInv is about the pending map and    *)
(* the audit log, RowInv about the verdict rows, DeltaInv about the state  *)
(* deltas and RestTypes about what TypeOK says of the rest.                *)
(***************************************************************************)
EXTENDS DecisionLogs, Integers, TLAPS

-----------------------------------------------------------------------------
(* Sequences *)

\* Append, read by index.
LEMMA AppendIndex ==
  ASSUME NEW S, NEW s \in Seq(S), NEW e \in S
  PROVE  /\ Append(s, e) \in Seq(S)
         /\ Len(Append(s, e)) = Len(s) + 1
         /\ \A i \in 1 .. Len(s) + 1 : Append(s, e)[i] = IF i <= Len(s) THEN s[i] ELSE e
  OBVIOUS

\* The last n elements of a sequence, read by index.
LEMMA LastIndex ==
  ASSUME NEW S, NEW s \in Seq(S), NEW n \in Nat \ {0}
  PROVE  /\ LastN(s, n) \in Seq(S)
         /\ Len(LastN(s, n)) = IF Len(s) > n THEN n ELSE Len(s)
         /\ \A i \in 1 .. Len(LastN(s, n)) :
               LastN(s, n)[i] = s[i + (Len(s) - Len(LastN(s, n)))]
<1>1. CASE Len(s) > n
  <2>1. LastN(s, n) = SubSeq(s, Len(s) - n + 1, Len(s))
    BY <1>1 DEF LastN
  <2>2. Len(s) - n + 1 \in Nat /\ Len(s) \in Nat /\ Len(s) - n + 1 >= 1
    BY <1>1
  <2>. QED  BY <2>1, <2>2, <1>1
<1>2. CASE ~(Len(s) > n)
  BY <1>2 DEF LastN
<1>. QED  BY <1>1, <1>2

\* Cutting before an append does not change what is left after the next cut:
\* auditAppend may work on the log it cut the last time.
LEMMA LastAppend ==
  ASSUME NEW S, NEW s \in Seq(S), NEW e \in S, NEW n \in Nat \ {0}
  PROVE  LastN(Append(LastN(s, n), e), n) = LastN(Append(s, e), n)
<1>. DEFINE t == LastN(s, n)
            u == Append(t, e)
            v == Append(s, e)
            a == LastN(u, n)
            b == LastN(v, n)
<1>1. /\ t \in Seq(S) /\ Len(t) = IF Len(s) > n THEN n ELSE Len(s)
      /\ \A i \in 1 .. Len(t) : t[i] = s[i + (Len(s) - Len(t))]
  BY LastIndex
<1>. HIDE DEF t
<1>2. /\ u \in Seq(S) /\ Len(u) = Len(t) + 1
      /\ \A i \in 1 .. Len(t) + 1 : u[i] = IF i <= Len(t) THEN t[i] ELSE e
  BY <1>1, AppendIndex
<1>3. /\ v \in Seq(S) /\ Len(v) = Len(s) + 1
      /\ \A i \in 1 .. Len(s) + 1 : v[i] = IF i <= Len(s) THEN s[i] ELSE e
  BY AppendIndex
<1>. HIDE DEF u, v
<1>4. /\ a \in Seq(S) /\ Len(a) = IF Len(u) > n THEN n ELSE Len(u)
      /\ \A i \in 1 .. Len(a) : a[i] = u[i + (Len(u) - Len(a))]
  BY <1>2, LastIndex
<1>5. /\ b \in Seq(S) /\ Len(b) = IF Len(v) > n THEN n ELSE Len(v)
      /\ \A i \in 1 .. Len(b) : b[i] = v[i + (Len(v) - Len(b))]
  BY <1>3, LastIndex
<1>. HIDE DEF a, b
<1>6. Len(s) \in Nat /\ Len(t) \in Nat /\ Len(a) \in Nat /\ Len(b) \in Nat
  BY <1>1, <1>4, <1>5
<1>7. Len(a) = Len(b)
  BY <1>1, <1>2, <1>3, <1>4, <1>5, <1>6
<1>8. ASSUME NEW i \in 1 .. Len(a) PROVE a[i] = b[i]
  <2>. DEFINE j == i + (Len(u) - Len(a))
              k == i + (Len(v) - Len(b))
  <2>1. j \in Int /\ j = i + (Len(u) - Len(a))
    BY <1>2, <1>6
  <2>2. k \in Int /\ k = i + (Len(v) - Len(b))
    BY <1>3, <1>6
  <2>3. a[i] = u[j] /\ b[i] = v[k]
    BY <1>4, <1>5, <1>7
  <2>. HIDE DEF j, k
  <2>4. j \in 1 .. Len(t) + 1 /\ k \in 1 .. Len(s) + 1 /\ k = j + (Len(s) - Len(t))
    <3>1. Len(u) = Len(t) + 1 /\ Len(v) = Len(s) + 1 /\ Len(a) <= Len(u) /\ Len(b) <= Len(v)
      BY <1>2, <1>3, <1>4, <1>5, <1>6
    <3>2. i \in Int /\ 1 <= i /\ i <= Len(a)
      BY <1>6
    <3>. QED  BY <2>1, <2>2, <3>1, <3>2, <1>6, <1>7
  <2>5. CASE j <= Len(t)
    <3>1. j \in 1 .. Len(t) /\ k <= Len(s)
      BY <2>4, <2>5, <1>6
    <3>2. t[j] = s[k]
      BY <3>1, <2>4, <1>1
    <3>3. u[j] = t[j] /\ v[k] = s[k]
      BY <3>1, <2>4, <2>5, <1>2, <1>3
    <3>. QED  BY <3>2, <3>3, <2>3
  <2>6. CASE ~(j <= Len(t))
    <3>1. ~(k <= Len(s))
      BY <2>4, <2>6, <1>6
    <3>2. u[j] = e /\ v[k] = e
      BY <3>1, <2>4, <2>6, <1>2, <1>3
    <3>. QED  BY <3>2, <2>3
  <2>. QED  BY <2>5, <2>6
<1>9. a = b
  BY <1>4, <1>5, <1>7, <1>8
<1>. QED  BY <1>9 DEF a, b, t, u, v

-----------------------------------------------------------------------------
(* The pending map and the audit log *)

LEMMA LogsInit == Init => LogsInv
<1>. SUFFICES ASSUME Init PROVE LogsInv
  OBVIOUS
<1>1. LogTypes
  BY LogsAssumption DEF Init, LogTypes, PcStates
<1>2. TurnInv
  BY DEF Init, TurnInv, Inside
<1>3. OnceInv
  BY DEF Init, OnceInv, AuditedOnce
<1>4. audit = <<>> /\ audited = <<>> /\ Len(<<>>) = 0 /\ ~(0 > AuditMax)
  BY LogsAssumption DEF Init
<1>5. AuditIsRecent
  BY <1>4 DEF AuditIsRecent, LastN
<1>6. TurnsInv
  BY <1>5 DEF Init, TurnsInv, FreshCopy, PendingCoversRunning, Inside
<1>. QED  BY <1>1, <1>2, <1>3, <1>6 DEF LogsInv

\* The detached writers and the dashboard touch neither of the two.
LEMMA LogsFrame ==
  LogsInv /\ UNCHANGED <<pc, pending, psnap, audit, asnap, audited>> => LogsInv'
BY DEF LogsInv, LogTypes, TurnInv, OnceInv, AuditedOnce, TurnsInv, FreshCopy,
       AuditIsRecent, PendingCoversRunning

LEMMA LogsTypeStep == LogsInv /\ (\E d \in Dec : Decide(d)) => LogTypes'
<1>. SUFFICES ASSUME LogsInv, NEW d \in Dec, Decide(d) PROVE LogTypes'
  OBVIOUS
<1>. USE LogsAssumption DEF LogsInv, LogTypes, PcStates, Go, pendingVars, auditVars, rowVars, deltaVars, dashVars
<1>1. CASE PendingGet(d)  BY <1>1 DEF PendingGet
<1>2. CASE PendingPut(d)  BY <1>2 DEF PendingPut
<1>3. CASE PendingPutFails(d)  BY <1>3 DEF PendingPutFails
<1>4. CASE AuditGet(d)  BY <1>4 DEF AuditGet
<1>5. CASE AuditSet(d)
  <2>1. Append(asnap[d], d) \in Seq(Dec)
    BY <1>5
  <2>2. Capped(Append(asnap[d], d)) \in Seq(Dec)
    BY <2>1, LastIndex DEF Capped
  <2>. HIDE DEF LogsInv
  <2>. QED  BY <1>5, <2>2 DEF AuditSet, LogsInv
<1>6. CASE Throws(d)  BY <1>6 DEF Throws
<1>7. CASE DeleteGet(d)  BY <1>7 DEF DeleteGet
<1>8. CASE PendingDelete(d)  BY <1>8 DEF PendingDelete
<1>. QED  BY <1>1, <1>2, <1>3, <1>4, <1>5, <1>6, <1>7, <1>8 DEF Decide

\* A decision that begins finds nobody of its actor inside; the other steps
\* keep a decision inside or take it out.
LEMMA LogsTurnStep == LogsInv /\ (\E d \in Dec : Decide(d)) => TurnInv'
<1>. SUFFICES ASSUME LogsInv, NEW d \in Dec, Decide(d) PROVE TurnInv'
  OBVIOUS
<1>. USE DEF LogsInv, LogTypes, TurnInv, PcStates, Go, Inside
<1>1. CASE PendingGet(d)
  BY <1>1 DEF PendingGet, Turn
<1>2. CASE ~PendingGet(d)
  <2>1. \E p \in PcStates : pc' = [pc EXCEPT ![d] = p]
    BY <1>2 DEF Decide, PendingPut, PendingPutFails, AuditGet, AuditSet, Throws, DeleteGet, PendingDelete
  <2>2. pc[d] \in Inside \cup {"putting"}
    BY <1>2 DEF Decide, PendingPut, PendingPutFails, AuditGet, AuditSet, Throws, DeleteGet, PendingDelete
  <2>. QED  BY <2>1, <2>2
<1>. QED  BY <1>1, <1>2

LEMMA LogsOnceStep == LogsInv /\ (\E d \in Dec : Decide(d)) => OnceInv'
<1>. SUFFICES ASSUME LogsInv, NEW d \in Dec, Decide(d) PROVE OnceInv'
  OBVIOUS
<1>. DEFINE Past == {"deleting", "removing", "done", "dead"}
<1>1. CASE AuditSet(d)
  <2>1. /\ audited' = Append(audited, d) /\ pc' = [pc EXCEPT ![d] = "deleting"]
        /\ pc[d] = "appending" /\ audited \in Seq(Dec) /\ pc \in [Dec -> PcStates]
    BY <1>1 DEF AuditSet, Go, LogsInv, LogTypes
  <2>2. /\ Len(audited') = Len(audited) + 1 /\ Len(audited) \in Nat
        /\ \A i \in 1 .. Len(audited) + 1 :
              audited'[i] = IF i <= Len(audited) THEN audited[i] ELSE d
    BY <2>1, AppendIndex
  <2>3. \A i \in 1 .. Len(audited) : audited[i] \in Dec /\ audited[i] # d /\ pc[audited[i]] \in Past
    BY <2>1 DEF LogsInv, OnceInv
  <2>4. \A i \in 1 .. Len(audited') : pc'[audited'[i]] \in Past
    BY <2>1, <2>2, <2>3
  <2>5. AuditedOnce'
    BY <2>2, <2>3 DEF LogsInv, OnceInv, AuditedOnce
  <2>. QED  BY <2>4, <2>5 DEF OnceInv
<1>2. CASE ~AuditSet(d)
  <2>1. audited' = audited
    BY <1>2 DEF Decide, PendingGet, PendingPut, PendingPutFails, AuditGet, Throws, DeleteGet,
                PendingDelete, auditVars
  <2>2. /\ \E p \in PcStates : pc' = [pc EXCEPT ![d] = p]
        /\ pc[d] \in Past => pc'[d] \in Past
    BY <1>2 DEF Decide, PendingGet, PendingPut, PendingPutFails, AuditGet, Throws, DeleteGet,
                PendingDelete, Go, LogsInv, LogTypes, PcStates
  <2>3. \A q \in Dec : pc[q] \in Past => pc'[q] \in Past
    BY <2>2 DEF LogsInv, LogTypes
  <2>4. \A i \in 1 .. Len(audited) : audited[i] \in Dec
    BY DEF LogsInv, LogTypes
  <2>. QED  BY <2>1, <2>3, <2>4 DEF LogsInv, OnceInv, AuditedOnce
<1>. QED  BY <1>1, <1>2

\* When all decisions take turns, the one that writes is the only one inside,
\* so its copies are what is stored.
LEMMA LogsTurnsStep == LogsInv /\ (\E d \in Dec : Decide(d)) => TurnsInv'
<1>. SUFFICES ASSUME LogsInv, NEW d \in Dec, Decide(d), OneActor
              PROVE  FreshCopy' /\ AuditIsRecent' /\ PendingCoversRunning'
  BY DEF TurnsInv, OneActor
<1>1. /\ LogTypes /\ TurnInv /\ FreshCopy /\ AuditIsRecent /\ PendingCoversRunning
      /\ IdOf \in [Dec -> Ids] /\ AuditMax \in Nat \ {0}
  BY LogsAssumption DEF LogsInv, TurnsInv
<1>2. \A q \in Dec \ {d} : pc[d] \in Inside \cup {"putting"} => pc[q] \notin Inside \cup {"putting"}
  BY <1>1 DEF TurnInv, OneActor
<1>3. CASE PendingGet(d)
  <2>. USE <1>3 DEF PendingGet, Go, auditVars
  <2>1. FreshCopy'  BY <1>1 DEF FreshCopy, LogTypes
  <2>2. AuditIsRecent'  BY <1>1 DEF AuditIsRecent
  <2>3. PendingCoversRunning'  BY <1>1 DEF PendingCoversRunning, LogTypes, Inside
  <2>. QED  BY <2>1, <2>2, <2>3
<1>4. CASE PendingPut(d)
  <2>. USE <1>4 DEF PendingPut, Go, auditVars
  <2>1. FreshCopy'  BY <1>1 DEF FreshCopy, LogTypes
  <2>2. AuditIsRecent'  BY <1>1 DEF AuditIsRecent
  <2>3. PendingCoversRunning'  BY <1>1, <1>2 DEF PendingCoversRunning, LogTypes, Inside
  <2>. QED  BY <2>1, <2>2, <2>3
<1>5. CASE PendingPutFails(d)
  <2>. USE <1>5 DEF PendingPutFails, Go, auditVars
  <2>1. FreshCopy'  BY <1>1 DEF FreshCopy, LogTypes
  <2>2. AuditIsRecent'  BY <1>1 DEF AuditIsRecent
  <2>3. PendingCoversRunning'  BY <1>1 DEF PendingCoversRunning, LogTypes, Inside
  <2>. QED  BY <2>1, <2>2, <2>3
<1>6. CASE AuditGet(d)
  <2>. USE <1>6 DEF AuditGet, Go, pendingVars
  <2>1. FreshCopy'  BY <1>1 DEF FreshCopy, LogTypes
  <2>2. AuditIsRecent'  BY <1>1 DEF AuditIsRecent
  <2>3. PendingCoversRunning'  BY <1>1 DEF PendingCoversRunning, LogTypes, Inside
  <2>. QED  BY <2>1, <2>2, <2>3
<1>7. CASE AuditSet(d)
  <2>1. FreshCopy'
    BY <1>1, <1>2, <1>7 DEF AuditSet, Go, FreshCopy, LogTypes, Inside
  <2>2. AuditIsRecent'
    <3>1. /\ audit' = LastN(Append(asnap[d], d), AuditMax) /\ asnap[d] = audit
          /\ audited' = Append(audited, d) /\ audit = LastN(audited, AuditMax)
          /\ audited \in Seq(Dec)
      BY <1>1, <1>7 DEF AuditSet, Capped, FreshCopy, AuditIsRecent, LogTypes
    <3>2. LastN(Append(LastN(audited, AuditMax), d), AuditMax) = LastN(Append(audited, d), AuditMax)
      BY <3>1, <1>1, LastAppend
    <3>. QED  BY <3>1, <3>2 DEF AuditIsRecent
  <2>3. PendingCoversRunning'
    BY <1>1, <1>7 DEF AuditSet, Go, pendingVars, PendingCoversRunning, LogTypes, Inside
  <2>. QED  BY <2>1, <2>2, <2>3
<1>8. CASE Throws(d)
  <2>. USE <1>8 DEF Throws, Go, pendingVars
  <2>1. FreshCopy'  BY <1>1 DEF FreshCopy, LogTypes
  <2>2. AuditIsRecent'  BY <1>1 DEF AuditIsRecent
  <2>3. PendingCoversRunning'  BY <1>1 DEF PendingCoversRunning, LogTypes, Inside
  <2>. QED  BY <2>1, <2>2, <2>3
<1>9. CASE DeleteGet(d)
  <2>. USE <1>9 DEF DeleteGet, Go, auditVars
  <2>1. FreshCopy'  BY <1>1 DEF FreshCopy, LogTypes
  <2>2. AuditIsRecent'  BY <1>1 DEF AuditIsRecent
  <2>3. PendingCoversRunning'  BY <1>1 DEF PendingCoversRunning, LogTypes, Inside
  <2>. QED  BY <2>1, <2>2, <2>3
<1>10. CASE PendingDelete(d)
  <2>. USE <1>10 DEF PendingDelete, Go, auditVars
  <2>1. FreshCopy'  BY <1>1 DEF FreshCopy, LogTypes
  <2>2. AuditIsRecent'  BY <1>1 DEF AuditIsRecent
  <2>3. PendingCoversRunning'  BY <1>1, <1>2 DEF PendingCoversRunning, LogTypes, Inside
  <2>. QED  BY <2>1, <2>2, <2>3
<1>. QED  BY <1>3, <1>4, <1>5, <1>6, <1>7, <1>8, <1>9, <1>10 DEF Decide

LEMMA LogsDie == LogsInv /\ Die => LogsInv'
<1>. SUFFICES ASSUME LogsInv, Die PROVE LogsInv'
  OBVIOUS
<1>. USE DEF LogsInv, Die, Inside
<1>1. LogTypes'  BY DEF LogTypes, PcStates
<1>2. TurnInv'  BY DEF LogTypes, TurnInv
<1>3. OnceInv'
  <2>1. \A i \in 1 .. Len(audited) : audited[i] \in Dec
    BY DEF LogTypes
  <2>. QED  BY <2>1 DEF LogTypes, OnceInv, AuditedOnce
<1>4. TurnsInv'
  BY DEF LogTypes, TurnsInv, OneActor, FreshCopy, AuditIsRecent, PendingCoversRunning
<1>. QED  BY <1>1, <1>2, <1>3, <1>4

LEMMA LogsNext == LogsInv /\ [Next]_vars => LogsInv'
<1>. SUFFICES ASSUME LogsInv, [Next]_vars PROVE LogsInv'
  OBVIOUS
<1>1. CASE \E d \in Dec : Decide(d)
  BY <1>1, LogsTypeStep, LogsTurnStep, LogsOnceStep, LogsTurnsStep DEF LogsInv
<1>2. CASE (\E d \in Dec : Detached(d)) \/ Dashboard
  <2>1. UNCHANGED <<pc, pending, psnap, audit, asnap, audited>>
    BY <1>2 DEF Detached, RowGet, RowSet, RowFails, Simulate, DeltaGet, DeltaSet, Dashboard,
                MarkGet, MarkSet, ClearRows, ClearDeltas, pendingVars, auditVars
  <2>. QED  BY <2>1, LogsFrame
<1>3. CASE Die
  BY <1>3, LogsDie
<1>4. CASE UNCHANGED vars
  BY <1>4, LogsFrame DEF vars, pendingVars, auditVars
<1>. QED  BY <1>1, <1>2, <1>3, <1>4 DEF Next

LEMMA LogsHold == Spec => []LogsInv
<1>. QED  BY LogsInit, LogsNext, PTL DEF Spec

\* decideInner audits a decision at most once, however often its storage calls
\* throw, whatever takes turns with whom, and wherever the worker dies.
THEOREM SingleAudit == Spec => []AuditedOnce
<1>1. LogsInv => AuditedOnce
  BY DEF LogsInv, OnceInv
<1>. QED  BY <1>1, LogsHold, PTL

\* If all decisions share an actor, withActorLock is all the protection the
\* unguarded get and set of storage.ts need: the audit log is exactly the tail
\* of the audited decisions.
THEOREM TurnsProtectAudit == Spec => [](OneActor => AuditIsRecent)
<1>1. LogsInv => (OneActor => AuditIsRecent)
  BY DEF LogsInv, TurnsInv
<1>. QED  BY <1>1, LogsHold, PTL

\* If all decisions share an actor, every request under decision is in the map of
\* pending requests, whatever pendingPut and pendingDelete of others read before.
THEOREM TurnsProtectPending == Spec => [](OneActor => PendingCoversRunning)
<1>1. LogsInv => (OneActor => PendingCoversRunning)
  BY DEF LogsInv, TurnsInv
<1>. QED  BY <1>1, LogsHold, PTL

-----------------------------------------------------------------------------
(* The verdict rows *)

\* What RowInv says of one list, where w[d] rows of decision d are written.
Good(s, w) == /\ s \in Seq(Row) /\ NewestFirst(s)
              /\ \A i \in 1 .. Len(s) : s[i].k <= w[s[i].dec]

LEMMA RowInvGood ==
  RowInv <=> /\ Good(rows, written) /\ Good(msnap, written) /\ written \in [Dec -> Nat]
             /\ rsnap \in [Dec -> Seq(Row)] /\ \A d \in Dec : Good(rsnap[d], written)
BY DEF RowInv, RowLists, Good

\* Cutting a list at its end.
LEMMA GoodCut ==
  ASSUME NEW s, NEW w, Good(s, w), NEW n \in Nat \ {0}
  PROVE  Good(IF Len(s) > n THEN SubSeq(s, 1, n) ELSE s, w)
<1>1. CASE Len(s) > n
  <2>. DEFINE c == SubSeq(s, 1, n)
  <2>1. s \in Seq(Row) /\ Len(s) \in Nat
    BY DEF Good
  <2>2. c \in Seq(Row) /\ Len(c) = n /\ \A i \in 1 .. n : c[i] = s[i]
    BY <1>1, <2>1
  <2>. HIDE DEF c
  <2>3. 1 .. n \subseteq 1 .. Len(s)
    BY <1>1, <2>1
  <2>4. NewestFirst(c)
    BY <2>2, <2>3 DEF Good, NewestFirst
  <2>5. Good(c, w)
    BY <2>2, <2>3, <2>4 DEF Good
  <2>. QED  BY <1>1, <2>5 DEF c
<1>. QED  BY <1>1

\* A list stays good when its decisions write on.
LEMMA GoodLater ==
  ASSUME NEW w \in [Dec -> Nat], NEW x \in [Dec -> Nat], \A d \in Dec : w[d] <= x[d],
         NEW s, Good(s, w)
  PROVE  Good(s, x)
<1>1. \A i \in 1 .. Len(s) : s[i] \in Row
  BY DEF Good
<1>2. ASSUME NEW i \in 1 .. Len(s) PROVE s[i].k <= x[s[i].dec]
  <2>1. s[i].dec \in Dec /\ s[i].k \in Nat
    BY <1>1 DEF Row
  <2>2. s[i].k <= w[s[i].dec] /\ w[s[i].dec] <= x[s[i].dec]
    BY <2>1 DEF Good
  <2>3. w[s[i].dec] \in Nat /\ x[s[i].dec] \in Nat
    BY <2>1
  <2>. QED  BY <2>1, <2>2, <2>3
<1>. QED  BY <1>2 DEF Good

\* Unshifting the next row of a decision.
LEMMA GoodUnshift ==
  ASSUME NEW w \in [Dec -> Nat], NEW x \in [Dec -> Nat], NEW d \in Dec,
         x = [w EXCEPT ![d] = @ + 1], NEW s, Good(s, w),
         NEW row \in Row, row.dec = d, row.k = w[d] + 1
  PROVE  Good(Unshifted(row, s), x)
<1>. DEFINE u == Unshifted(row, s)
<1>0. s \in Seq(Row) /\ Len(s) \in Nat
  BY DEF Good
<1>1. ASSUME NEW i \in 1 .. Len(s) PROVE s[i].dec \in Dec /\ s[i].k \in Nat
  <2>1. s[i] \in Row
    BY <1>0
  <2>. QED  BY <2>1 DEF Row
<1>2. /\ u \in Seq(Row) /\ Len(u) = Len(s) + 1 /\ u[1] = row
      /\ \A i \in 2 .. Len(s) + 1 : i - 1 \in 1 .. Len(s) /\ u[i] = s[i - 1]
  <2>1. u = <<row>> \o s /\ <<row>> \in Seq(Row) /\ Len(<<row>>) = 1 /\ <<row>>[1] = row
    BY DEF Unshifted
  <2>2. u \in Seq(Row) /\ Len(u) = Len(s) + 1
    BY <1>0, <2>1
  <2>3. \A i \in 1 .. Len(s) + 1 : u[i] = IF i <= 1 THEN <<row>>[i] ELSE s[i - 1]
    BY <1>0, <2>1
  <2>. QED  BY <1>0, <2>1, <2>2, <2>3
<1>. HIDE DEF u
<1>3. x[d] = w[d] + 1 /\ w[d] \in Nat /\ Good(s, x)
  <2>1. x[d] = w[d] + 1 /\ w[d] \in Nat /\ \A q \in Dec : w[q] <= x[q]
    OBVIOUS
  <2>. QED  BY <2>1, GoodLater
<1>4. ASSUME NEW i \in 1 .. Len(u), NEW j \in 1 .. Len(u), i < j, u[i].dec = u[j].dec
      PROVE  u[i].k > u[j].k
  <2>1. j \in 2 .. Len(s) + 1 /\ j - 1 \in 1 .. Len(s) /\ u[j] = s[j - 1]
    BY <1>0, <1>2, <1>4
  <2>2. CASE i = 1
    <3>1. s[j - 1].dec = d /\ s[j - 1].k <= w[d] /\ s[j - 1].k \in Nat
      BY <2>1, <2>2, <1>1, <1>2, <1>4 DEF Good
    <3>. QED  BY <3>1, <2>1, <2>2, <1>2, <1>3
  <2>3. CASE i # 1
    <3>1. i - 1 \in 1 .. Len(s) /\ u[i] = s[i - 1] /\ i - 1 < j - 1
      BY <1>0, <1>2, <1>4, <2>3
    <3>. QED  BY <3>1, <2>1, <1>4 DEF Good, NewestFirst
  <2>. QED  BY <2>2, <2>3
<1>5. ASSUME NEW i \in 1 .. Len(u) PROVE u[i].k <= x[u[i].dec]
  <2>1. CASE i = 1
    BY <2>1, <1>2, <1>3
  <2>2. CASE i # 1
    <3>1. i - 1 \in 1 .. Len(s) /\ u[i] = s[i - 1]
      BY <1>0, <1>2, <2>2
    <3>. QED  BY <3>1, <1>3 DEF Good
  <2>. QED  BY <2>1, <2>2
<1>6. Good(u, x)
  BY <1>2, <1>4, <1>5 DEF Good, NewestFirst
<1>. QED  BY <1>6 DEF u

\* Deciding a row of a list.
LEMMA GoodMark ==
  ASSUME NEW w, NEW s, Good(s, w), NEW m
  PROVE  Good([i \in 1 .. Len(s) |->
                 IF s[i] = m THEN [s[i] EXCEPT !.decided = TRUE] ELSE s[i]], w)
<1>. DEFINE u == [i \in 1 .. Len(s) |->
                    IF s[i] = m THEN [s[i] EXCEPT !.decided = TRUE] ELSE s[i]]
<1>1. s \in Seq(Row) /\ Len(s) \in Nat
  BY DEF Good
<1>2. ASSUME NEW i \in 1 .. Len(s)
      PROVE  u[i] \in Row /\ u[i].dec = s[i].dec /\ u[i].k = s[i].k
  <2>1. s[i] \in Row
    BY <1>1
  <2>2. PICK r \in Row : r = s[i]
    BY <2>1
  <2>. DEFINE e == [r EXCEPT !.decided = TRUE]
  <2>3. e \in Row /\ e.dec = r.dec /\ e.k = r.k
    BY DEF Row
  <2>. HIDE DEF e
  <2>4. u[i] = IF r = m THEN e ELSE r
    BY <2>2 DEF e
  <2>. QED  BY <2>2, <2>3, <2>4
<1>3. DOMAIN u = 1 .. Len(s)
  OBVIOUS
<1>4. u \in [1 .. Len(s) -> Row]
  BY <1>2
<1>. HIDE DEF u
<1>5. u \in Seq(Row) /\ Len(u) = Len(s)
  BY <1>1, <1>3, <1>4
<1>6. Good(u, w)
  BY <1>2, <1>5 DEF Good, NewestFirst
<1>. QED  BY <1>6 DEF u

LEMMA GoodEmpty == \A w : Good(<<>>, w)
BY DEF Good, NewestFirst

LEMMA RowNext == RowInv /\ [Next]_vars => RowInv'
<1>. SUFFICES ASSUME RowInv, [Next]_vars PROVE RowInv'
  OBVIOUS
<1>. DEFINE Frame == UNCHANGED <<rows, rsnap, msnap, written>>
<1>0. /\ Good(rows, written) /\ Good(msnap, written) /\ written \in [Dec -> Nat]
      /\ rsnap \in [Dec -> Seq(Row)] /\ \A d \in Dec : Good(rsnap[d], written)
  BY RowInvGood
<1>f. ASSUME Frame PROVE RowInv'
  BY <1>f DEF RowInv, RowLists
<1>1. CASE UNCHANGED vars
  BY <1>1, <1>f DEF vars, rowVars, dashVars
<1>2. ASSUME NEW d \in Dec, Decide(d) PROVE RowInv'
  <2>1. Frame
    BY <1>2 DEF Decide, PendingGet, PendingPut, PendingPutFails, AuditGet, AuditSet, Throws,
                DeleteGet, PendingDelete, rowVars, dashVars
  <2>. QED  BY <2>1, <1>f
<1>3. ASSUME NEW d \in Dec, RowGet(d) PROVE RowInv'
  <2>1. rsnap' = [rsnap EXCEPT ![d] = rows] /\ UNCHANGED <<rows, msnap, written>>
    BY <1>3 DEF RowGet, dashVars
  <2>2. rsnap' \in [Dec -> Seq(Row)] /\ \A q \in Dec : Good(rsnap'[q], written')
    BY <2>1, <1>0 DEF Good
  <2>3. Good(rows', written') /\ Good(msnap', written') /\ written' \in [Dec -> Nat]
    BY <2>1, <1>0
  <2>. QED  BY <2>2, <2>3 DEF RowInv, RowLists, Good
<1>4. ASSUME NEW d \in Dec, RowSet(d) PROVE RowInv'
  <2>. DEFINE row == [dec |-> d, k |-> written[d] + 1, decided |-> FALSE]
              all == Unshifted(row, rsnap[d])
  <2>1. /\ written' = [written EXCEPT ![d] = @ + 1] /\ msnap' = msnap
        /\ rsnap' = [rsnap EXCEPT ![d] = <<>>]
        /\ rows' = IF Len(all) > RowsMax THEN SubSeq(all, 1, RowsMax) ELSE all
    BY <1>4 DEF RowSet, dashVars
  <2>2. row \in Row /\ row.dec = d /\ row.k = written[d] + 1
    BY <1>0 DEF Row
  <2>. HIDE DEF row
  <2>3. written' \in [Dec -> Nat] /\ \A q \in Dec : written[q] <= written'[q]
    BY <2>1, <1>0
  <2>4. Good(all, written')
    BY <2>1, <2>2, <2>3, <1>0, GoodUnshift
  <2>. HIDE DEF all
  <2>5. Good(rows', written')
    BY <2>1, <2>4, GoodCut, LogsAssumption
  <2>6. Good(msnap', written') /\ \A q \in Dec : Good(rsnap[q], written')
    BY <2>1, <2>3, <1>0, GoodLater
  <2>7. rsnap' \in [Dec -> Seq(Row)] /\ \A q \in Dec : Good(rsnap'[q], written')
    <3>1. rsnap' \in [Dec -> Seq(Row)]
      BY <2>1, <1>0
    <3>2. \A q \in Dec : rsnap'[q] = IF q = d THEN <<>> ELSE rsnap[q]
      BY <2>1, <1>0
    <3>. QED  BY <3>1, <3>2, <2>6, GoodEmpty
  <2>. QED  BY <2>3, <2>5, <2>6, <2>7 DEF RowInv, RowLists, Good
<1>5. ASSUME NEW d \in Dec, RowFails(d) PROVE RowInv'
  <2>1. rsnap' = [rsnap EXCEPT ![d] = <<>>] /\ UNCHANGED <<rows, msnap, written>>
    BY <1>5 DEF RowFails, dashVars
  <2>2. rsnap' \in [Dec -> Seq(Row)] /\ \A q \in Dec : Good(rsnap'[q], written')
    BY <2>1, <1>0, GoodEmpty
  <2>3. Good(rows', written') /\ Good(msnap', written') /\ written' \in [Dec -> Nat]
    BY <2>1, <1>0
  <2>. QED  BY <2>2, <2>3 DEF RowInv, RowLists, Good
<1>6. ASSUME NEW d \in Dec, Simulate(d) \/ DeltaGet(d) \/ DeltaSet(d) PROVE RowInv'
  BY <1>6, <1>f DEF Simulate, DeltaGet, DeltaSet, rowVars, dashVars
<1>7. CASE Dashboard
  <2>1. ASSUME NEW i \in 1 .. RowsMax, MarkGet(i) PROVE RowInv'
    <3>1. msnap' = rows /\ UNCHANGED <<rows, rsnap, written>>
      BY <2>1 DEF MarkGet, rowVars
    <3>. QED  BY <3>1, <1>0 DEF RowInv, RowLists, Good
  <2>2. CASE MarkSet
    <3>1. /\ rows' = [i \in 1 .. Len(msnap) |->
                        IF msnap[i] = mark THEN [msnap[i] EXCEPT !.decided = TRUE] ELSE msnap[i]]
          /\ msnap' = <<>> /\ UNCHANGED <<rsnap, written>>
      BY <2>2 DEF MarkSet
    <3>2. Good(rows', written') /\ Good(msnap', written')
      BY <3>1, <1>0, GoodMark, GoodEmpty
    <3>. QED  BY <3>1, <3>2, <1>0 DEF RowInv, RowLists, Good
  <2>3. CASE ClearRows
    <3>1. rows' = <<>> /\ UNCHANGED <<rsnap, msnap, written>>
      BY <2>3 DEF ClearRows
    <3>. QED  BY <3>1, <1>0, GoodEmpty DEF RowInv, RowLists, Good
  <2>4. CASE ClearDeltas
    BY <2>4, <1>f DEF ClearDeltas, rowVars
  <2>. QED  BY <1>7, <2>1, <2>2, <2>3, <2>4 DEF Dashboard
<1>8. CASE Die
  <2>1. rsnap' = [d \in Dec |-> <<>>] /\ msnap' = <<>> /\ UNCHANGED <<rows, written>>
    BY <1>8 DEF Die
  <2>. QED  BY <2>1, <1>0, GoodEmpty DEF RowInv, RowLists, Good
<1>. QED  BY <1>1, <1>2, <1>3, <1>4, <1>5, <1>6, <1>7, <1>8 DEF Next, Detached

\* A race of verdict-storage.ts can lose rows: no interleaving of the detached
\* writers, the dashboard and deaths duplicates or reorders the rows of a decision.
THEOREM RowOrder == Spec => []RowsNewestFirst
<1>1. Init => RowInv
  BY DEF Init, RowInv, RowLists, NewestFirst
<1>2. RowInv => RowsNewestFirst
  BY DEF RowInv, RowLists, RowsNewestFirst
<1>. QED  BY <1>1, <1>2, RowNext, PTL DEF Spec

-----------------------------------------------------------------------------
(* The state deltas *)

\* One step of the filter in appendStateDelta, and the facts about its fold.
KeepOthers(id, kept, x) == IF x.id = id THEN kept ELSE Append(kept, x)
Filter == INSTANCE Folding WITH Op <- KeepOthers

LEMMA WithoutIsFold == \A s, id : Without(s, id) = Filter!Fold(id, <<>>, s)
BY DEF Without, KeepOthers, FoldLeft, MapThenFoldSet, Max,
       Filter!Fold, Filter!FoldLeft, Filter!MapThenFoldSet, Filter!Max

\* What the filter leaves has an id once, and not the one filtered out.
LEMMA WithoutOnce ==
  ASSUME NEW s \in Seq(DeltaRow), OncePerId(s), NEW id
  PROVE  LET w == Without(s, id)
         IN  w \in Seq(DeltaRow) /\ OncePerId(w) /\ \A i \in 1 .. Len(w) : w[i].id # id
<1> DEFINE n == Len(s)
<1>1. n \in Nat /\ DOMAIN s = 1 .. n /\ \A j \in 1 .. n : s[j] \in DeltaRow  OBVIOUS
<1> HIDE DEF n
<1>2. PICK tr : Filter!Trace(tr, id, <<>>, s, n) /\ Filter!Fold(id, <<>>, s) = tr[n]
  BY <1>1, Filter!FoldTrace
<1>3. tr[0] = <<>> /\ \A j \in 1 .. n : tr[j] = KeepOthers(id, tr[j - 1], s[j])
  BY <1>2 DEF Filter!Trace
\* The part filtered so far has elements of the part read so far.
<1> DEFINE Ok(k) == /\ tr[k] \in Seq(DeltaRow) /\ OncePerId(tr[k])
                    /\ \A i \in 1 .. Len(tr[k]) : tr[k][i].id # id /\ \E j \in 1 .. k : tr[k][i] = s[j]
           H == {k \in 0 .. n : Ok(k)}
<1>4. 0 \in H
  <2>1. <<>> \in Seq(DeltaRow) /\ Len(<<>>) = 0  OBVIOUS
  <2>2. OncePerId(<<>>)  BY <2>1 DEF OncePerId
  <2>3. tr[0] \in Seq(DeltaRow) /\ OncePerId(tr[0]) /\ Len(tr[0]) = 0  BY <1>3, <2>1, <2>2
  <2>4. Ok(0)  BY <2>3
  <2> HIDE DEF Ok
  <2>. QED  BY <1>1, <2>4
<1>5. ASSUME NEW k \in 0 .. n - 1, k \in H PROVE k + 1 \in H
  <2> DEFINE j == k + 1
  <2>1. j \in 1 .. n /\ j - 1 = k /\ j \in 0 .. n /\ \A i \in 1 .. k : i \in 1 .. j /\ i \in 1 .. n /\ i # j /\ j \in 1 .. j  BY <1>1
  <2>2. Ok(k) /\ tr[j] = KeepOthers(id, tr[k], s[j]) /\ s[j] \in DeltaRow  BY <1>1, <1>3, <1>5, <2>1
  <2> HIDE DEF j
  <2>3. CASE s[j].id = id
    <3>1. tr[j] = tr[k]  BY <2>2, <2>3 DEF KeepOthers
    <3>2. Ok(j)  BY <2>1, <2>2, <3>1
    <3>. QED  BY <2>1, <3>2 DEF j
  <2>4. CASE s[j].id # id
    <3> DEFINE u == tr[k]
               v == tr[j]
    <3>1. v = Append(u, s[j])  BY <2>2, <2>4 DEF KeepOthers
    <3>2. u \in Seq(DeltaRow) /\ Len(u) \in Nat /\ OncePerId(u)
          /\ \A i \in 1 .. Len(u) : u[i].id # id /\ \E m \in 1 .. k : u[i] = s[m]
      BY <2>2
    <3> HIDE DEF u, v
    <3>3. /\ v \in Seq(DeltaRow) /\ Len(v) = Len(u) + 1
          /\ \A i \in 1 .. Len(u) + 1 : v[i] = IF i <= Len(u) THEN u[i] ELSE s[j]
      BY <2>2, <3>1, <3>2, AppendIndex
    <3>4. ASSUME NEW i \in 1 .. Len(v)  PROVE v[i].id # id /\ \E m \in 1 .. j : v[i] = s[m]
      <4>1. CASE i \in 1 .. Len(u)  BY <2>1, <3>2, <3>3, <4>1
      <4>2. CASE i = Len(u) + 1
        <5>1. v[i] = s[j]  BY <3>2, <3>3, <4>2
        <5>2. j \in 1 .. j  BY <2>1
        <5>. QED  BY <2>4, <5>1, <5>2
      <4>. QED  BY <3>2, <3>3, <4>1, <4>2
    <3>5. \A i \in 1 .. Len(u) : u[i].id # s[j].id
      BY <2>1, <3>2 DEF OncePerId, n
    <3>6. OncePerId(v)
      <4> SUFFICES ASSUME NEW a \in 1 .. Len(v), NEW b \in 1 .. Len(v), v[a].id = v[b].id PROVE a = b  BY DEF OncePerId
      <4>1. (a \in 1 .. Len(u) \/ a = Len(u) + 1) /\ (b \in 1 .. Len(u) \/ b = Len(u) + 1)  BY <3>2, <3>3
      <4>. QED  BY SMTT(30), ZenonT(60), <3>2, <3>3, <3>5, <4>1 DEF OncePerId
    <3>7. Ok(j)  BY <3>3, <3>4, <3>6 DEF v
    <3>. QED  BY <2>1, <3>7 DEF j
  <2>. QED  BY <2>3, <2>4
<1> HIDE DEF H
<1>6. \A k \in 0 .. n : k \in H  BY <1>1, <1>4, <1>5, Filter!Upto
<1>7. n \in H  BY <1>1, <1>6
<1>. QED  BY <1>2, <1>7, WithoutIsFold DEF H

\* appendStateDelta: filter, append, cut from the front.
LEMMA DeltaAppended ==
  ASSUME NEW s \in Seq(DeltaRow), OncePerId(s), NEW r \in DeltaRow, NEW n \in Nat \ {0}
  PROVE  LET t == LastN(Append(Without(s, r.id), r), n)
         IN  t \in Seq(DeltaRow) /\ Len(t) <= n /\ OncePerId(t)
<1> DEFINE w == Without(s, r.id)
           u == Append(w, r)
           t == LastN(u, n)
<1>1. w \in Seq(DeltaRow) /\ OncePerId(w) /\ \A i \in 1 .. Len(w) : w[i].id # r.id  BY WithoutOnce
<1> HIDE DEF w
<1>2. /\ u \in Seq(DeltaRow) /\ Len(u) = Len(w) + 1 /\ Len(w) \in Nat
      /\ \A i \in 1 .. Len(w) + 1 : u[i] = IF i <= Len(w) THEN w[i] ELSE r
  BY <1>1, AppendIndex
<1> HIDE DEF u
<1>3. OncePerId(u)
  <2> SUFFICES ASSUME NEW a \in 1 .. Len(u), NEW b \in 1 .. Len(u), u[a].id = u[b].id PROVE a = b  BY DEF OncePerId
  <2>1. (a \in 1 .. Len(w) \/ a = Len(w) + 1) /\ (b \in 1 .. Len(w) \/ b = Len(w) + 1)  BY <1>2
  <2>. QED  BY <1>1, <1>2, <2>1 DEF OncePerId
<1>4. /\ t \in Seq(DeltaRow) /\ Len(t) = IF Len(u) > n THEN n ELSE Len(u)
      /\ \A i \in 1 .. Len(t) : t[i] = u[i + (Len(u) - Len(t))]
  BY <1>2, LastIndex
<1> HIDE DEF t
<1>5. Len(t) \in Nat /\ Len(u) \in Nat /\ Len(t) <= n /\ Len(t) <= Len(u)  BY <1>2, <1>4
<1>6. OncePerId(t)
  <2> SUFFICES ASSUME NEW a \in 1 .. Len(t), NEW b \in 1 .. Len(t), t[a].id = t[b].id PROVE a = b  BY DEF OncePerId
  <2> DEFINE c == a + (Len(u) - Len(t))
             e == b + (Len(u) - Len(t))
  <2>1. c \in 1 .. Len(u) /\ e \in 1 .. Len(u) /\ (c = e => a = b)  BY <1>5
  <2>2. u[c].id = u[e].id
    <3>1. t[a] = u[c] /\ t[b] = u[e]  BY <1>4
    <3>. QED  BY <3>1
  <2> HIDE DEF c, e
  <2>3. c = e  BY <2>1, <1>3, <2>2 DEF OncePerId
  <2>. QED  BY <2>1, <2>3
<1>. QED  BY <1>4, <1>5, <1>6 DEF t, u, w

LEMMA DeltaNext == DeltaInv /\ [Next]_vars => DeltaInv'
<1> SUFFICES ASSUME DeltaInv, [Next]_vars PROVE DeltaInv'  OBVIOUS
<1>0. \A n \in Nat \ {0} : <<>> \in Seq(DeltaRow) /\ OncePerId(<<>>) /\ Len(<<>>) <= n  BY DEF OncePerId
<1>1. ASSUME UNCHANGED <<deltas, dsnap>> PROVE DeltaInv'  BY <1>1 DEF DeltaInv
<1>2. ASSUME NEW d \in Dec, Decide(d) \/ RowGet(d) \/ RowSet(d) \/ RowFails(d) \/ Simulate(d)  PROVE DeltaInv'
  BY <1>1, <1>2 DEF Decide, PendingGet, PendingPut, PendingPutFails, AuditGet, AuditSet, Throws, DeleteGet,
     PendingDelete, RowGet, RowSet, RowFails, Simulate, deltaVars
<1>3. ASSUME NEW d \in Dec, DeltaGet(d)  PROVE DeltaInv'
  BY <1>3 DEF DeltaGet, DeltaInv
<1>4. ASSUME NEW d \in Dec, DeltaSet(d)  PROVE DeltaInv'
  <2> DEFINE r == [id |-> IdOf[d], dec |-> d]
  <2>1. r \in DeltaRow /\ r.id = IdOf[d]  BY LogsAssumption DEF DeltaRow
  <2>2. /\ deltas' = LastN(Append(Without(dsnap[d], r.id), r), DeltasMax)
        /\ dsnap' = [dsnap EXCEPT ![d] = <<>>]
    BY <1>4 DEF DeltaSet
  <2> HIDE DEF r
  <2>3. deltas' \in Seq(DeltaRow) /\ Len(deltas') <= DeltasMax /\ OncePerId(deltas')
    BY <2>1, <2>2, DeltaAppended, LogsAssumption DEF DeltaInv
  <2>4. dsnap' \in [Dec -> Seq(DeltaRow)] /\ \A q \in Dec : OncePerId(dsnap'[q])
    <3>1. \A q \in Dec : dsnap'[q] = IF q = d THEN <<>> ELSE dsnap[q]  BY <2>2 DEF DeltaInv
    <3>2. <<>> \in Seq(DeltaRow) /\ OncePerId(<<>>)  BY <1>0, LogsAssumption
    <3>. QED  BY <2>2, <3>1, <3>2 DEF DeltaInv
  <2>. QED  BY <2>3, <2>4 DEF DeltaInv
<1>5. CASE Dashboard
  <2>1. CASE ClearDeltas  BY <1>0, <2>1, LogsAssumption DEF ClearDeltas, DeltaInv
  <2>2. CASE ~ClearDeltas  BY <1>1, <1>5, <2>2 DEF Dashboard, MarkGet, MarkSet, ClearRows, deltaVars
  <2>. QED  BY <2>1, <2>2
<1>6. CASE Die  BY <1>0, <1>6, LogsAssumption DEF Die, DeltaInv
<1>7. CASE UNCHANGED vars  BY <1>1, <1>7 DEF vars, deltaVars
<1>. QED  BY <1>2, <1>3, <1>4, <1>5, <1>6, <1>7 DEF Next, Detached

LEMMA DeltaHolds == Spec => []DeltaInv
<1>1. Init => DeltaInv
  <2>1. <<>> \in Seq(DeltaRow) /\ Len(<<>>) = 0 /\ OncePerId(<<>>)  BY DEF OncePerId
  <2>. QED  BY <2>1, LogsAssumption DEF Init, DeltaInv
<1>. QED  BY <1>1, DeltaNext, PTL DEF Spec

\* appendStateDelta, "Newest wins": for any number of detached writers, with
\* copies of any age, an id never has two deltas.
THEOREM OneDelta == Spec => []DeltaPerId
<1>1. DeltaInv => DeltaPerId  BY DEF DeltaInv, DeltaPerId
<1>. QED  BY <1>1, DeltaHolds, PTL

-----------------------------------------------------------------------------
(* Types *)

LEMMA RowHolds == Spec => []RowInv
<1>1. Init => RowInv
  BY DEF Init, RowInv, RowLists, NewestFirst
<1>. QED  BY <1>1, RowNext, PTL DEF Spec

LEMMA RestNext == LogsInv /\ RowInv /\ RestTypes /\ [Next]_vars => RestTypes'
<1> SUFFICES ASSUME LogsInv, RowInv, RestTypes, [Next]_vars PROVE RestTypes'  OBVIOUS
<1> USE LogsAssumption DEF RestTypes, pendingVars, auditVars, rowVars, deltaVars, dashVars
<1>1. ASSUME NEW d \in Dec, AuditSet(d)  PROVE RestTypes'
  <2>1. Append(asnap[d], d) \in Seq(Dec)  BY DEF LogsInv, LogTypes
  <2>2. Len(audit') <= AuditMax
    <3>1. audit' = LastN(Append(asnap[d], d), AuditMax)  BY <1>1 DEF AuditSet, Capped
    <3>2. Len(LastN(Append(asnap[d], d), AuditMax)) <= AuditMax
      <4> DEFINE a == Append(asnap[d], d)
      <4>1. Len(a) \in Nat /\ AuditMax \in Nat  BY <2>1
      <4> HIDE DEF a
      <4>2. Len(LastN(a, AuditMax)) = IF Len(a) > AuditMax THEN AuditMax ELSE Len(a)  BY <2>1, LastIndex DEF a
      <4>. QED  BY <4>1, <4>2 DEF a
    <3>. QED  BY <3>1, <3>2
  <2>. QED  BY <1>1, <2>2 DEF AuditSet
<1>2. ASSUME NEW d \in Dec, Decide(d), ~AuditSet(d)  PROVE RestTypes'
  BY <1>2 DEF Decide, PendingGet, PendingPut, PendingPutFails, AuditGet, Throws, DeleteGet, PendingDelete
<1>3. ASSUME NEW d \in Dec, RowGet(d) \/ RowFails(d) \/ Simulate(d) \/ DeltaGet(d) \/ DeltaSet(d)  PROVE RestTypes'
  BY <1>3 DEF RowGet, RowFails, Simulate, DeltaGet, DeltaSet
<1>4. ASSUME NEW d \in Dec, RowSet(d)  PROVE RestTypes'
  <2> DEFINE row == [dec |-> d, k |-> written[d] + 1, decided |-> FALSE]
             all == Unshifted(row, rsnap[d])
             cut == IF Len(all) > RowsMax THEN SubSeq(all, 1, RowsMax) ELSE all
  <2>1. rows' = cut  BY <1>4 DEF RowSet
  <2>2. row \in Row /\ rsnap[d] \in Seq(Row)
    <3>1. written[d] \in Nat /\ rsnap[d] \in Seq(Row)  BY DEF RowInv
    <3>2. written[d] + 1 \in Nat \ {0}  BY <3>1
    <3>. QED  BY <3>1, <3>2 DEF Row
  <2> HIDE DEF row
  <2>3. all \in Seq(Row)  BY <2>2 DEF Unshifted
  <2> HIDE DEF all
  <2>4. Len(cut) <= RowsMax
    <3>1. Len(all) \in Nat  BY <2>3
    <3>2. CASE Len(all) > RowsMax
      <4>1. Len(SubSeq(all, 1, RowsMax)) = RowsMax  BY <2>3, <3>1, <3>2
      <4>. QED  BY <3>2, <4>1
    <3>. QED  BY <3>1, <3>2
  <2> HIDE DEF cut
  <2>. QED  BY <1>4, <2>1, <2>4 DEF RowSet
<1>5. CASE Dashboard
  <2>1. ASSUME NEW i \in 1 .. RowsMax, MarkGet(i)  PROVE RestTypes'
    <3>1. rows[i] \in Row  BY <2>1 DEF MarkGet, RowInv
    <3>. QED  BY <2>1, <3>1 DEF MarkGet
  <2>2. CASE MarkSet
    <3> DEFINE u == [i \in 1 .. Len(msnap) |->
                       IF msnap[i] = mark THEN [msnap[i] EXCEPT !.decided = TRUE] ELSE msnap[i]]
    <3>1. msnap \in Seq(Row) /\ Len(msnap) \in Nat  BY DEF RowInv
    <3>2. DOMAIN u = 1 .. Len(msnap)  OBVIOUS
    <3>3. Len(u) = Len(msnap)
      <4>1. Good(msnap, written)  BY DEF Good, RowInv, RowLists
      <4>2. Good(u, written)  BY <4>1, GoodMark
      <4> HIDE DEF u
      <4>3. u \in Seq(Row)  BY <4>2 DEF Good
      <4>4. Len(u) \in Nat /\ DOMAIN u = 1 .. Len(u)  BY <4>3
      <4>. QED  BY <3>1, <3>2, <4>4
    <3>4. rows' = u /\ msnap' = <<>> /\ Len(<<>>) = 0 /\ mark' = NoRow  BY <2>2 DEF MarkSet
    <3> HIDE DEF u
    <3>5. Len(rows') <= RowsMax /\ Len(msnap') <= RowsMax  BY <3>3, <3>4
    <3>. QED  BY <2>2, <3>4, <3>5 DEF MarkSet
  <2>3. CASE ClearRows
    <3>1. rows' = <<>> /\ Len(<<>>) = 0  BY <2>3 DEF ClearRows
    <3>. QED  BY <2>3, <3>1 DEF ClearRows
  <2>4. CASE ClearDeltas  BY <2>4 DEF ClearDeltas
  <2>. QED  BY <1>5, <2>1, <2>2, <2>3, <2>4 DEF Dashboard
<1>6. CASE Die
  <2>1. msnap' = <<>> /\ Len(<<>>) = 0  BY <1>6 DEF Die
  <2>. QED  BY <1>6, <2>1 DEF Die
<1>7. CASE UNCHANGED vars  BY <1>7 DEF vars
<1>. QED  BY <1>1, <1>2, <1>3, <1>4, <1>5, <1>6, <1>7 DEF Next, Detached

\* The logs keep their types and stay within their caps (AUDIT_MAX and the two
\* MAX_ROWS), also when the dashboard writes back a copy.
THEOREM LogsTypes == Spec => []TypeOK
<1>1. Init => RestTypes
  <2>1. Len(<<>>) = 0  OBVIOUS
  <2>. QED  BY <2>1, LogsAssumption DEF Init, RestTypes
<1>2. Spec => []RestTypes  BY <1>1, LogsHold, RowHolds, RestNext, PTL DEF Spec
<1>3. LogsInv /\ RowInv /\ DeltaInv /\ RestTypes => TypeOK
  BY DEF LogsInv, LogTypes, RowInv, DeltaInv, RestTypes, TypeOK
<1>. QED  BY <1>2, <1>3, LogsHold, RowHolds, DeltaHolds, PTL
=============================================================================
