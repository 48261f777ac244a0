--------------------------- MODULE DecisionLogs ---------------------------
(***************************************************************************)
(* The rows a decision leaves in extension storage: the map of pending     *)
(* requests (storage.session), the audit log, the verdict rows and the     *)
(* state deltas (storage.local).  Every writer gets the whole value, edits *)
(* its copy and sets the whole value back, with an await in between.       *)
(*                                                                         *)
(* Decisions of one actor take turns (module VerdictGate); the verdict     *)
(* rows and the delta are written by promises nobody awaits, so they can   *)
(* outlive the decision and its turn.  Besides the decisions, the          *)
(* dashboard marks and clears verdict rows.                                *)
(***************************************************************************)
EXTENDS Naturals, Sequences, FiniteSets, SequencesExt

CONSTANTS Dec,       \* decisions
          Ids,       \* request ids (payload hashes)
          IdOf, ActorOf,
          NoActor,   \* a decision without an actor does not take turns
          RowsOf,    \* verdict rows of a decision: one per matched policy, or one
          Simulated, \* decisions whose lifecycle posts its action to the server
          AuditMax,  \* AUDIT_MAX
          RowsMax,   \* MAX_ROWS of verdict-storage.ts
          DeltasMax, \* MAX_ROWS of state-delta-storage.ts
          MaxMarks,  \* bound on what the dashboard does to the rows
          MaxDeaths, \* bound on service-worker deaths
          Faulty     \* bound: decisions whose storage calls may reject

ASSUME LogsAssumption ==
  /\ IdOf \in [Dec -> Ids]
  /\ RowsOf \in [Dec -> Nat \ {0}]
  /\ AuditMax \in Nat \ {0} /\ RowsMax \in Nat \ {0} /\ DeltasMax \in Nat \ {0}
  /\ MaxMarks \in Nat /\ MaxDeaths \in Nat
  /\ Simulated \subseteq Dec /\ Faulty \subseteq Dec

VARIABLES
  pc,        \* the await decideInner is at
  caught,    \* whether its catch block runs
  pending,   \* requests:pending
  psnap,     \* the decision's copy of it
  audit,     \* requests:audit, oldest first
  asnap,
  rows,      \* verdicts:log, newest first
  rsnap,
  rowPc,     \* the detached loop over the matched policies
  written,   \* rows of the decision written so far
  deltas,    \* state-deltas:log, oldest first
  dsnap,
  deltaPc,   \* the detached recordSimulationOnServer
  mark,      \* the dashboard's set-decision: the row it decides, or none
  msnap,
  marks,     \* dashboard operations so far
  deaths,    \* service-worker deaths so far
  audited    \* history: decisions in the order of their audit writes

pendingVars == <<pending, psnap>>
auditVars   == <<audit, asnap, audited>>
rowVars     == <<rows, rsnap, rowPc, written>>
deltaVars   == <<deltas, dsnap, deltaPc>>
dashVars    == <<mark, msnap, marks, deaths>>
vars == <<pc, caught, pendingVars, auditVars, rowVars, deltaVars, dashVars>>

Row      == [dec : Dec, k : Nat \ {0}, decided : BOOLEAN]
NoRow    == [dec |-> NoActor, k |-> 0, decided |-> FALSE]
DeltaRow == [id : Ids, dec : Dec]
PcStates == {"idle", "putting", "deciding", "appending", "deleting", "removing", "done", "failed", "dead"}
\* Inside the try block of decideInner.
Inside   == {"deciding", "appending", "deleting", "removing"}

LastN(s, n) == IF Len(s) > n THEN SubSeq(s, Len(s) - n + 1, Len(s)) ELSE s

TypeOK ==
  /\ pc      \in [Dec -> PcStates]
  /\ caught  \subseteq Dec
  /\ pending \subseteq Ids /\ psnap \in [Dec -> SUBSET Ids]
  /\ audit   \in Seq(Dec)  /\ asnap \in [Dec -> Seq(Dec)] /\ audited \in Seq(Dec)
  /\ Len(audit) <= AuditMax
  /\ rows    \in Seq(Row)  /\ rsnap \in [Dec -> Seq(Row)]
  /\ Len(rows) <= RowsMax
  /\ rowPc   \in [Dec -> {"off", "reading", "writing"}]
  /\ written \in [Dec -> Nat]
  /\ deltas  \in Seq(DeltaRow) /\ dsnap \in [Dec -> Seq(DeltaRow)]
  /\ Len(deltas) <= DeltasMax
  /\ deltaPc \in [Dec -> {"none", "sent", "writing", "stored", "lost"}]
  /\ mark    \in Row \cup {NoRow} /\ msnap \in Seq(Row) /\ marks \in 0 .. MaxMarks
  /\ deaths  \in 0 .. MaxDeaths

Init ==
  /\ pc = [d \in Dec |-> "idle"] /\ caught = {}
  /\ pending = {} /\ psnap = [d \in Dec |-> {}]
  /\ audit = <<>> /\ asnap = [d \in Dec |-> <<>>] /\ audited = <<>>
  /\ rows = <<>> /\ rsnap = [d \in Dec |-> <<>>]
  /\ rowPc = [d \in Dec |-> "off"] /\ written = [d \in Dec |-> 0]
  /\ deltas = <<>> /\ dsnap = [d \in Dec |-> <<>>] /\ deltaPc = [d \in Dec |-> "none"]
  /\ mark = NoRow /\ msnap = <<>> /\ marks = 0 /\ deaths = 0

Go(d, p) == pc' = [pc EXCEPT ![d] = p]

-----------------------------------------------------------------------------
(* decideInner: pendingPut, the audit of the try or catch block, pendingDelete *)

\* Decisions that do not take turns.
NoTurn(d) == TRUE

\* withActorLock: nobody else of this actor is at it.
Turn(d) == \A q \in Dec \ {d} : ActorOf[q] = ActorOf[d] /\ ActorOf[d] # NoActor
                                => pc[q] \notin Inside \cup {"putting"}

PendingGet(d) ==
  /\ pc[d] = "idle" /\ Turn(d)
  /\ Go(d, "putting")
  /\ psnap' = [psnap EXCEPT ![d] = pending]
  /\ UNCHANGED <<caught, pending, auditVars, rowVars, deltaVars, dashVars>>

PendingPut(d) ==
  /\ pc[d] = "putting"
  /\ Go(d, "deciding")
  /\ pending' = psnap[d] \cup {IdOf[d]}
  /\ psnap' = [psnap EXCEPT ![d] = {}]
  /\ UNCHANGED <<caught, auditVars, rowVars, deltaVars, dashVars>>

\* pendingPut stands before the try block: nothing is cleaned up.
PendingPutFails(d) ==
  /\ d \in Faulty /\ pc[d] = "putting"
  /\ Go(d, "failed")
  /\ psnap' = [psnap EXCEPT ![d] = {}]
  /\ UNCHANGED <<caught, pending, auditVars, rowVars, deltaVars, dashVars>>

\* The verdict is there: auditAppend gets the log.
AuditGet(d) ==
  /\ pc[d] = "deciding"
  /\ Go(d, "appending")
  /\ asnap' = [asnap EXCEPT ![d] = audit]
  /\ UNCHANGED <<caught, pendingVars, audit, audited, rowVars, deltaVars, dashVars>>

\* A cap that keeps the oldest entries, and one that keeps one too many.
KeepOldest(s) == IF Len(s) > AuditMax THEN SubSeq(s, 1, AuditMax) ELSE s
CapPlusOne(s) == LastN(s, AuditMax + 1)
Capped(s) == LastN(s, AuditMax)

\* auditAppend sets the log, and appendAudit starts the verdict rows.
AuditSet(d) ==
  /\ pc[d] = "appending"
  /\ Go(d, "deleting")
  /\ audit' = Capped(Append(asnap[d], d))
  /\ audited' = Append(audited, d)
  /\ asnap' = [asnap EXCEPT ![d] = <<>>]
  /\ rowPc' = [rowPc EXCEPT ![d] = "reading"]
  /\ UNCHANGED <<caught, pendingVars, rows, rsnap, written, deltaVars, dashVars>>

\* A catch block that has the audit of the try block behind it.
ThrowsAudited(d) ==
  /\ d \in Faulty /\ pc[d] \in {"deciding", "appending", "deleting"}
  /\ Go(d, IF d \in caught THEN "deleting" ELSE "deciding")
  /\ caught' = caught \cup {d}
  /\ asnap' = [asnap EXCEPT ![d] = <<>>]
  /\ UNCHANGED <<pendingVars, audit, audited, rowVars, deltaVars, dashVars>>

\* Something in the try block throws: the catch block audits the engine error;
\* if that throws as well the decision rejects.  finally runs in both cases.
Throws(d) ==
  /\ d \in Faulty /\ pc[d] \in {"deciding", "appending"}
  /\ Go(d, IF d \in caught THEN "deleting" ELSE "deciding")
  /\ caught' = caught \cup {d}
  /\ asnap' = [asnap EXCEPT ![d] = <<>>]
  /\ UNCHANGED <<pendingVars, audit, audited, rowVars, deltaVars, dashVars>>

DeleteGet(d) ==
  /\ pc[d] = "deleting"
  /\ Go(d, "removing")
  /\ psnap' = [psnap EXCEPT ![d] = pending]
  /\ UNCHANGED <<caught, pending, auditVars, rowVars, deltaVars, dashVars>>

PendingDelete(d) ==
  /\ pc[d] = "removing"
  /\ Go(d, "done")
  /\ pending' \in {psnap[d] \ {IdOf[d]}} \cup IF d \in Faulty THEN {pending} ELSE {}
  /\ psnap' = [psnap EXCEPT ![d] = {}]
  /\ UNCHANGED <<caught, auditVars, rowVars, deltaVars, dashVars>>

-----------------------------------------------------------------------------
(* appendVerdictsForMessage: one row per matched policy, detached *)

RowGet(d) ==
  /\ rowPc[d] = "reading"
  /\ rowPc' = [rowPc EXCEPT ![d] = "writing"]
  /\ rsnap' = [rsnap EXCEPT ![d] = rows]
  /\ UNCHANGED <<pc, caught, pendingVars, auditVars, rows, written, deltaVars, dashVars>>

\* An engine error has one match.
RowCount(d) == IF d \in caught THEN 1 ELSE RowsOf[d]

\* push instead of unshift.
Pushed(row, s)    == Append(s, row)
Unshifted(row, s) == <<row>> \o s

\* unshift, cut to MAX_ROWS, set; then the next policy.
RowSet(d) ==
  /\ rowPc[d] = "writing"
  /\ LET all == Unshifted([dec |-> d, k |-> written[d] + 1, decided |-> FALSE], rsnap[d])
     IN  rows' = IF Len(all) > RowsMax THEN SubSeq(all, 1, RowsMax) ELSE all
  /\ written' = [written EXCEPT ![d] = @ + 1]
  /\ rowPc' = [rowPc EXCEPT ![d] = IF written[d] + 1 = RowCount(d) THEN "off" ELSE "reading"]
  /\ rsnap' = [rsnap EXCEPT ![d] = <<>>]
  /\ UNCHANGED <<pc, caught, pendingVars, auditVars, deltaVars, dashVars>>

\* The rest of the rows is given up with a warning.
RowFails(d) ==
  /\ d \in Faulty /\ rowPc[d] \in {"reading", "writing"}
  /\ rowPc' = [rowPc EXCEPT ![d] = "off"]
  /\ rsnap' = [rsnap EXCEPT ![d] = <<>>]
  /\ UNCHANGED <<pc, caught, pendingVars, auditVars, rows, written, deltaVars, dashVars>>

-----------------------------------------------------------------------------
(* recordSimulationOnServer, detached from the lifecycle *)

\* The lifecycle, possibly one that lost its race, posts the action.
Simulate(d) ==
  /\ d \in Simulated /\ pc[d] \in Inside \cup {"done"} /\ deltaPc[d] = "none"
  /\ deltaPc' = [deltaPc EXCEPT ![d] = "sent"]
  /\ UNCHANGED <<pc, caught, pendingVars, auditVars, rowVars, deltas, dsnap, dashVars>>

\* The server answers with a delta: appendStateDelta gets the log.
DeltaGet(d) ==
  /\ deltaPc[d] = "sent"
  /\ deltaPc' = [deltaPc EXCEPT ![d] = "writing"]
  /\ dsnap' = [dsnap EXCEPT ![d] = deltas]
  /\ UNCHANGED <<pc, caught, pendingVars, auditVars, rowVars, deltas, dashVars>>

\* The delta log without the rows of an id; a slip that keeps them.
Unfiltered(s, id) == s
Without(s, id)    == FoldLeft(LAMBDA kept, x : IF x.id = id THEN kept ELSE Append(kept, x), <<>>, s)

\* Replace the row with this id, cut from the front, set.
DeltaSet(d) ==
  /\ deltaPc[d] = "writing"
  /\ deltaPc' = [deltaPc EXCEPT ![d] = "stored"]
  /\ deltas' = LastN(Append(Without(dsnap[d], IdOf[d]), [id |-> IdOf[d], dec |-> d]), DeltasMax)
  /\ dsnap' = [dsnap EXCEPT ![d] = <<>>]
  /\ UNCHANGED <<pc, caught, pendingVars, auditVars, rowVars, dashVars>>

-----------------------------------------------------------------------------
(* The dashboard *)

\* setVerdictDecision gets the log and finds the row.
MarkGet(i) ==
  /\ mark = NoRow /\ marks < MaxMarks /\ i \in 1 .. Len(rows)
  /\ marks' = marks + 1
  /\ mark' = rows[i]
  /\ msnap' = rows
  /\ UNCHANGED <<pc, caught, pendingVars, auditVars, rowVars, deltaVars, deaths>>

\* It sets the log with that row decided.
MarkSet ==
  /\ mark # NoRow
  /\ rows' = [i \in 1 .. Len(msnap) |->
                IF msnap[i] = mark THEN [msnap[i] EXCEPT !.decided = TRUE] ELSE msnap[i]]
  /\ mark' = NoRow /\ msnap' = <<>>
  /\ UNCHANGED <<pc, caught, pendingVars, auditVars, rsnap, rowPc, written, deltaVars, marks, deaths>>

\* clearVerdicts.
ClearRows ==
  /\ marks < MaxMarks /\ rows # <<>>
  /\ marks' = marks + 1
  /\ rows' = <<>>
  /\ UNCHANGED <<pc, caught, pendingVars, auditVars, rsnap, rowPc, written, deltaVars, mark, msnap, deaths>>

\* clearStateDeltas.
ClearDeltas ==
  /\ marks < MaxMarks /\ deltas # <<>>
  /\ marks' = marks + 1
  /\ deltas' = <<>>
  /\ UNCHANGED <<pc, caught, pendingVars, auditVars, rowVars, dsnap, deltaPc, mark, msnap, deaths>>

-----------------------------------------------------------------------------
(* The worker is terminated *)

\* Every handler and every detached promise of the worker is lost with the
\* copies it holds; what was set stays.
Die ==
  /\ deaths < MaxDeaths
  /\ deaths' = deaths + 1
  /\ pc' = [d \in Dec |-> IF pc[d] \in Inside \cup {"putting"} THEN "dead" ELSE pc[d]]
  /\ psnap' = [d \in Dec |-> {}] /\ asnap' = [d \in Dec |-> <<>>]
  /\ rsnap' = [d \in Dec |-> <<>>] /\ dsnap' = [d \in Dec |-> <<>>]
  /\ rowPc' = [d \in Dec |-> "off"]
  /\ deltaPc' = [d \in Dec |-> IF pc[d] = "idle" \/ deltaPc[d] = "stored" THEN deltaPc[d] ELSE "lost"]
  /\ mark' = NoRow /\ msnap' = <<>>
  /\ UNCHANGED <<caught, pending, audit, audited, rows, written, deltas, marks>>

-----------------------------------------------------------------------------
Decide(d) == \/ PendingGet(d) \/ PendingPut(d) \/ PendingPutFails(d)
             \/ AuditGet(d) \/ AuditSet(d) \/ Throws(d)
             \/ DeleteGet(d) \/ PendingDelete(d)
Detached(d) == \/ RowGet(d) \/ RowSet(d) \/ RowFails(d)
               \/ Simulate(d) \/ DeltaGet(d) \/ DeltaSet(d)
Dashboard == (\E i \in 1 .. RowsMax : MarkGet(i)) \/ MarkSet \/ ClearRows \/ ClearDeltas

Next == (\E d \in Dec : Decide(d) \/ Detached(d)) \/ Dashboard \/ Die
Spec == Init /\ [][Next]_vars

-----------------------------------------------------------------------------
(* Properties *)

\* While the decisions take turns, the audit log is exactly the most recent
\* AUDIT_MAX audited decisions in their order: no entry is lost between the
\* get and the set of auditAppend, or pushed out too early.
AuditIsRecent == audit = LastN(audited, AuditMax)

\* While the decisions take turns, a request under decision is in the map of
\* pending requests, whatever failed before it.
PendingCoversRunning == \A d \in Dec : pc[d] \in Inside => IdOf[d] \in pending

\* No decision is audited twice, also when its first audit threw.
AuditedOnce == \A i, j \in 1 .. Len(audited) : audited[i] = audited[j] => i = j

\* However the writers of the verdict rows interleave, the log shows a row once
\* and the rows of one decision newest first: a race can lose rows, it cannot
\* duplicate or reorder them.
NewestFirst(s) ==
  \A i, j \in 1 .. Len(s) : i < j /\ s[i].dec = s[j].dec => s[i].k > s[j].k
RowsNewestFirst == NewestFirst(rows)

\* However the detached writers interleave, an id has at most one delta
\* (appendStateDelta replaces: "newest wins").
OncePerId(s) == \A i, j \in 1 .. Len(s) : s[i].id = s[j].id => i = j
DeltaPerId == OncePerId(deltas)

-----------------------------------------------------------------------------
(* The inductive invariants behind the safety properties *)

LogTypes ==
  /\ pc      \in [Dec -> PcStates]
  /\ pending \subseteq Ids /\ psnap \in [Dec -> SUBSET Ids]
  /\ audit   \in Seq(Dec)  /\ asnap \in [Dec -> Seq(Dec)] /\ audited \in Seq(Dec)

\* Decisions of one actor are never between pendingPut and pendingDelete together.
TurnInv == \A d, q \in Dec : d # q /\ ActorOf[d] = ActorOf[q] /\ ActorOf[d] # NoActor
             => ~(pc[d] \in Inside \cup {"putting"} /\ pc[q] \in Inside \cup {"putting"})

\* An audited decision has its audit behind it.
OnceInv == /\ AuditedOnce
           /\ \A i \in 1 .. Len(audited) :
                 pc[audited[i]] \in {"deleting", "removing", "done", "dead"}

\* Nobody else writes while a decision holds its copy of the audit log.
OneActor == \A d, q \in Dec : ActorOf[d] = ActorOf[q] /\ ActorOf[d] # NoActor
FreshCopy == \A d \in Dec : pc[d] = "appending" => asnap[d] = audit
TurnsInv  == OneActor => FreshCopy /\ AuditIsRecent /\ PendingCoversRunning

LogsInv == LogTypes /\ TurnInv /\ OnceInv /\ TurnsInv

\* Every list of rows, stored or copied, is ordered and older than what its
\* decisions will write next.
RowLists == {rows, msnap} \cup {rsnap[d] : d \in Dec}
RowInv ==
  /\ rows \in Seq(Row) /\ msnap \in Seq(Row) /\ rsnap \in [Dec -> Seq(Row)]
  /\ written \in [Dec -> Nat]
  /\ \A s \in RowLists : /\ NewestFirst(s)
                         /\ \A i \in 1 .. Len(s) : s[i].k <= written[s[i].dec]

\* Every list of deltas, stored or copied, has an id once.
DeltaInv ==
  /\ deltas \in Seq(DeltaRow) /\ Len(deltas) <= DeltasMax /\ OncePerId(deltas)
  /\ dsnap \in [Dec -> Seq(DeltaRow)] /\ \A d \in Dec : OncePerId(dsnap[d])

\* The rest of the types.  The dashboard's copy is no longer than the log.
RestTypes ==
  /\ caught \subseteq Dec /\ Len(audit) <= AuditMax
  /\ Len(rows) <= RowsMax /\ Len(msnap) <= RowsMax
  /\ rowPc   \in [Dec -> {"off", "reading", "writing"}]
  /\ deltaPc \in [Dec -> {"none", "sent", "writing", "stored", "lost"}]
  /\ mark \in Row \cup {NoRow} /\ marks \in 0 .. MaxMarks /\ deaths \in 0 .. MaxDeaths
=============================================================================
