----------------------- MODULE VerdictPipelineProofs -----------------------
(***************************************************************************)
(* Proofs about VerdictPipeline: for every library of policies, every      *)
(* decoded action list and every pattern of failures, a pass is earned, a  *)
(* computed deny of an action stands and an order is denied on a fault.    *)
(* PipelineInv is inductive; the lists own and verdicts stand in for the   *)
(* positions already evaluated (Covered, Remembered).                      *)
(***************************************************************************)
EXTENDS VerdictPipeline, TLAPS

\* What Yields leaves behind, for the five conjuncts it can disturb.
LEMMA GuardedType ==
  ASSUME NEW L \in Decodes
  PROVE  /\ Guarded(L) \in Seq(Seq(Bodies))
         /\ L \in Seq(Seq(Bodies))
         /\ \A i \in 1 .. Len(L) : Len(L[i]) >= 1
         /\ \A i \in 1 .. Len(Guarded(L)) : Len(Guarded(L)[i]) >= 1
<1>1. L \in Seq(Seq(Bodies)) /\ \A i \in 1 .. Len(L) : Len(L[i]) >= 1
  BY PipelineAssumption
<1>2. Len(L) \in Nat /\ \A i \in 1 .. Len(L) : L[i] \in Seq(Bodies)
  BY <1>1
<1>3. <<"unknown">> \in Seq(Bodies) /\ Len(<<"unknown">>) = 1
  BY DEF Bodies
<1>4. Guarded(L) \in [1 .. Len(L) -> Seq(Bodies)]
  BY <1>2, <1>3 DEF Guarded
<1>5. Guarded(L) \in Seq(Seq(Bodies)) /\ Len(Guarded(L)) = Len(L)
  BY <1>2, <1>4
<1>6. ASSUME NEW i \in 1 .. Len(Guarded(L)) PROVE Len(Guarded(L)[i]) >= 1
  <2>1. Guarded(L)[i] = <<"unknown">> \/ Guarded(L)[i] = L[i]
    BY <1>2, <1>5 DEF Guarded
  <2>2. CASE Guarded(L)[i] = <<"unknown">>
    BY <1>3, <2>2
  <2>3. CASE Guarded(L)[i] = L[i]
    BY <1>1, <1>5, <2>3
  <2> QED
    BY <2>1, <2>2, <2>3
<1> QED
  BY <1>1, <1>5, <1>6

LEMMA PipelineInit == Init => PipelineInv
<1> SUFFICES ASSUME Init PROVE PipelineInv
  OBVIOUS
<1>1. legs \in Seq(Seq(Bodies)) /\ Len(legs) = 0
  BY DEF Init
<1>2. TypeOK
  <2>1. kind \in Kinds /\ step \in Steps /\ leg \in Nat \ {0} /\ pos \in Nat \ {0}
        /\ verdict \in Verdicts \cup {"none"}
    BY DEF Init, Steps
  <2>3. threw \in BOOLEAN /\ denied \in BOOLEAN
    BY DEF Init
  <2>2. bundles \subseteq Policies /\ matched \subseteq bundles /\ results \subseteq Calls
        /\ own \subseteq Verdicts /\ verdicts \subseteq Verdicts
        /\ hits \subseteq (Nat \X Nat \X Policies)
    BY DEF Init
  <2> QED
    BY <1>1, <2>1, <2>2, <2>3 DEF TypeOK
<1>3. StartInv /\ CursorInv /\ ListInv
  BY <1>1 DEF Init, StartInv, CursorInv, ListInv, Covered, Remembered, InTree
<1>4. PassIsEarned /\ ActionDenyStands /\ VenueWarnIsPolicy
  BY DEF Init, PassIsEarned, ActionDenyStands, VenueWarnIsPolicy
<1> QED
  BY <1>2, <1>3, <1>4 DEF PipelineInv

\* The positions of a running evaluation are numbers inside their sequences.
LEMMA Cursor ==
  ASSUME PipelineInv
  PROVE  /\ Len(legs) \in Nat /\ leg \in Nat /\ pos \in Nat /\ leg >= 1 /\ pos >= 1
         /\ \A i \in 1 .. Len(legs) : Len(legs[i]) \in Nat /\ legs[i] \in Seq(Bodies)
         /\ InTree => leg \in 1 .. Len(legs) /\ pos \in 1 .. Len(legs[leg])
BY DEF PipelineInv, TypeOK, CursorInv, InTree

\* At the first position of a tree, or past the last tree, the cursor is right.
LEMMA FreshCursor ==
  ASSUME legs' \in Seq(Seq(Bodies)), \A i \in 1 .. Len(legs') : Len(legs'[i]) >= 1,
         leg' \in Nat \ {0}, pos' = 1, own' = {},
         step' \in {"route", "resolve", "plan", "done"}, step' = "plan" => bundles' # {}
  PROVE  CursorInv'
<1>1. InTree' => leg' \in 1 .. Len(legs')
  BY DEF InTree
<1>2. InTree' => pos' <= Len(legs'[leg'])
  BY <1>1
<1> QED
  BY <1>2 DEF CursorInv

LEMMA RouteStep ==
  ASSUME PipelineInv, Untyped \/ RouteFails \/ ConvertOrder \/ ResolveThrows
                      \/ (\E L \in Decodes : RouteTx(L) \/ RouteTyped(L))
                      \/ (\E B \in SUBSET Policies : Resolve(B))
  PROVE  PipelineInv'
<1> USE DEF PipelineInv, TypeOK, StartInv, CursorInv, ListInv, Covered, Remembered, Seen,
            PassIsEarned, ActionDenyStands, VenueWarnIsPolicy, InTree, Body, Kinds, Steps, Verdicts,
            Return
<1>1. CASE Untyped
  BY <1>1 DEF Untyped
<1>2. CASE RouteFails
  BY <1>2 DEF RouteFails
<1>3. CASE ConvertOrder
  <2>1. TypeOK'
    BY <1>3 DEF ConvertOrder, Bodies
  <2>0. Len(legs') = 1 /\ legs'[1][1] = "action" /\ Len(legs'[1]) = 1
    BY <1>3 DEF ConvertOrder
  <2>4. \A i \in 1 .. Len(legs') : Len(legs'[i]) >= 1
    BY <2>0
  <2>5. StartInv'
    BY <1>3, <2>0 DEF ConvertOrder
  <2>6. leg' = 1 /\ pos' = 1 /\ own' = {} /\ step' = "resolve"
    BY <1>3 DEF ConvertOrder
  <2>2. StartInv' /\ CursorInv'
    BY <2>1, <2>4, <2>5, <2>6, FreshCursor
  <2>3. ListInv' /\ PassIsEarned' /\ ActionDenyStands' /\ VenueWarnIsPolicy'
    BY <1>3 DEF ConvertOrder, Bodies
  <2> QED
    BY <2>1, <2>2, <2>3
<1>4. CASE ResolveThrows
  BY <1>4 DEF ResolveThrows
<1>5. ASSUME NEW L \in Decodes, RouteTx(L) PROVE PipelineInv'
  <2>1. TypeOK'
    BY <1>5, GuardedType DEF RouteTx
  <2>4. \A i \in 1 .. Len(legs') : Len(legs'[i]) >= 1
    BY <1>5, GuardedType DEF RouteTx
  <2>6. leg' = 1 /\ pos' = 1 /\ own' = {} /\ step' \in {"resolve", "done"}
    BY <1>5 DEF RouteTx
  <2>5. StartInv'
    BY <1>5 DEF RouteTx
  <2>2. StartInv' /\ CursorInv'
    BY <2>1, <2>4, <2>5, <2>6, FreshCursor
  <2>3. ListInv' /\ PassIsEarned' /\ ActionDenyStands' /\ VenueWarnIsPolicy'
    BY <1>5, GuardedType DEF RouteTx
  <2> QED
    BY <2>1, <2>2, <2>3
<1>6. ASSUME NEW L \in Decodes, RouteTyped(L) PROVE PipelineInv'
  <2>1. TypeOK'
    BY <1>6, GuardedType DEF RouteTyped
  <2>2. StartInv' /\ CursorInv'
    BY <1>6, GuardedType DEF RouteTyped
  <2>3. ListInv' /\ PassIsEarned' /\ ActionDenyStands' /\ VenueWarnIsPolicy'
    BY <1>6, GuardedType DEF RouteTyped
  <2> QED
    BY <2>1, <2>2, <2>3
<1>7. ASSUME NEW B \in SUBSET Policies, Resolve(B) PROVE PipelineInv'
  <2>1. /\ bundles' = B /\ matched = {} /\ matched' = matched
        /\ step' \in {"plan", "done"} /\ (step' = "plan" => B # {})
        /\ verdict' \in Verdicts \cup {"none"} /\ (step' = "plan" => verdict' = "none")
    BY <1>7 DEF Resolve
  <2>2. UNCHANGED <<kind, legs, leg, pos, results, own, verdicts, threw, hits, denied>>
    BY <1>7 DEF Resolve
  <2>3. TypeOK'
    BY <2>1, <2>2
  <2>4. StartInv' /\ CursorInv'
    BY <1>7, <2>1, <2>2 DEF Resolve
  <2>7. kind = "venue" => ~NoReal(legs)
    <3>1. kind = "venue" => 1 \in 1 .. Len(legs) /\ legs[1][1] = "action"
      BY <1>7 DEF Resolve
    <3> QED
      BY <3>1 DEF NoReal
  <2>8. VenueWarnIsPolicy'
    BY <1>7, <2>7 DEF Resolve
  <2>5. ListInv' /\ ActionDenyStands'
    BY <1>7, <2>1, <2>2 DEF Resolve
  <2>6. PassIsEarned'
    BY <1>7 DEF Resolve
  <2> QED
    BY <2>3, <2>4, <2>5, <2>6, <2>8
<1> QED
  BY <1>1, <1>2, <1>3, <1>4, <1>5, <1>6, <1>7

LEMMA MoveStep ==
  ASSUME PipelineInv, SkipUnknown \/ Throws
                      \/ (\E M \in SUBSET Policies : Plan(M))
                      \/ (\E R \in SUBSET Calls : Dispatch(R))
  PROVE  PipelineInv'
<1> USE DEF PipelineInv, TypeOK, StartInv, CursorInv, ListInv, Covered, Remembered, Seen,
            PassIsEarned, ActionDenyStands, VenueWarnIsPolicy, InTree, Body, Kinds, Steps, Verdicts,
            Return
<1>1. CASE SkipUnknown
  <2>1. TypeOK'
    BY <1>1, Cursor DEF SkipUnknown
  <2>4. legs' = legs /\ leg' = leg + 1 /\ pos' = 1 /\ own' = {} /\ step' = "plan" /\ bundles' = bundles
    BY <1>1 DEF SkipUnknown
  <2>6. kind # "venue"
    BY <1>1 DEF SkipUnknown
  <2>7. step' = "plan" /\ kind' # "venue" /\ verdict' = "none"
    BY <1>1, <2>6 DEF SkipUnknown
  <2>5. StartInv'
    BY <2>7
  <2>2. StartInv' /\ CursorInv'
    BY <1>1, <2>1, <2>4, <2>5, FreshCursor DEF SkipUnknown
  <2>3. PassIsEarned' /\ ActionDenyStands' /\ VenueWarnIsPolicy'
    BY <2>7
  <2>8. Remembered'
    BY <1>1 DEF SkipUnknown
  <2>9. Covered'
    <3>1. UNCHANGED <<threw, own, verdicts>> /\ legs[leg][1] = "unknown"
      BY <1>1 DEF SkipUnknown
    <3> SUFFICES ASSUME NEW i \in 1 .. Len(legs), NEW j \in 1 .. Len(legs[i]),
                        i < leg + 1, legs[i][1] # "unknown", legs[i][j] = "unknown"
                 PROVE  threw \/ "warn" \in verdicts
      BY <2>4, <3>1, Cursor
    <3>2. i < leg
      BY <3>1, Cursor
    <3> QED
      BY <1>1, <3>2 DEF SkipUnknown
  <2> QED
    BY <2>1, <2>2, <2>3, <2>8, <2>9
<1>2. CASE Throws
  <2>1. /\ legs' = legs /\ leg' = leg + 1 /\ pos' = 1 /\ own' = {} /\ bundles' = bundles
        /\ step' \in {"plan", "done"} /\ threw' /\ verdicts' = verdicts /\ hits' = hits
    BY <1>2 DEF Throws
  <2>2. TypeOK'
    BY <1>2 DEF Throws
  <2>3. StartInv'
    BY <1>2 DEF Throws
  <2>4. CursorInv'
    BY <1>2, <2>1, <2>2, FreshCursor DEF Throws
  <2>5. ListInv'
    BY <2>1
  <2>6. PassIsEarned' /\ ActionDenyStands' /\ VenueWarnIsPolicy'
    BY <1>2 DEF Throws
  <2> QED
    BY <2>2, <2>3, <2>4, <2>5, <2>6
<1>3. ASSUME NEW M \in SUBSET Policies, Plan(M) PROVE PipelineInv'
  BY <1>3 DEF Plan
<1>4. ASSUME NEW R \in SUBSET Calls, Dispatch(R) PROVE PipelineInv'
  BY <1>4 DEF Dispatch
<1> QED
  BY <1>1, <1>2, <1>3, <1>4

LEMMA ConcludeStep ==
  ASSUME PipelineInv, Conclude
  PROVE  PipelineInv'
BY Cursor DEF PipelineInv, TypeOK, StartInv, CursorInv, ListInv, Covered, Remembered, Seen,
   PassIsEarned, ActionDenyStands, VenueWarnIsPolicy, InTree, Body, Kinds, Steps, Verdicts, Return,
   Conclude, Resolution, Aggregate

\* A position that yields v without losing anything: the lists, the cursor
\* and, for an order, the verdict are as they should be.
LEMMA YieldsStep ==
  ASSUME PipelineInv, NEW v \in Verdicts, Yields(v),
         step \in {"plan", "evaluate"}, InTree, Body = "unknown" => v = "warn",
         UNCHANGED <<kind, legs, bundles, threw>>, denied' \in BOOLEAN,
         hits' \subseteq (Nat \X Nat \X Policies),
         hits' = hits \/ v # "pass",
         kind = "venue" /\ v = "warn" => \E h \in hits' : SeverityOf[h[3]] = "warn"
  PROVE  PipelineInv'
<1>1. /\ leg \in 1 .. Len(legs) /\ pos \in 1 .. Len(legs[leg]) /\ Len(legs) \in Nat
      /\ Len(legs[leg]) \in Nat /\ leg \in Nat /\ pos \in Nat /\ leg >= 1 /\ pos >= 1
  BY Cursor
<1>2. bundles # {} /\ verdict = "none"
  BY DEF PipelineInv, CursorInv, StartInv
<1>3. TypeOK'
  BY <1>1 DEF PipelineInv, TypeOK, Yields, Return, Steps
<1>4. legs' = legs /\ kind' = kind /\ bundles' = bundles /\ threw' = threw
  OBVIOUS
<1>5. CASE kind = "venue"
  <2>1. /\ leg = 1 /\ pos = 1 /\ own = {} /\ verdicts = {} /\ hits = {} /\ ~threw
        /\ \A i \in 1 .. Len(legs) : Len(legs[i]) = 1 /\ legs[i][1] = "action"
    BY <1>5 DEF PipelineInv, StartInv
  <2>2. LastPosition
    BY <1>1, <2>1 DEF LastPosition
  <2>3. step' = "done" /\ verdict' = v /\ verdicts' = {v} /\ own' = {} /\ leg' = 2 /\ pos' = 1
    BY <1>5, <2>1, <2>2 DEF Yields, Return
  <2>4. StartInv' /\ ListInv'
    BY <2>3 DEF StartInv, ListInv
  <2>5. CursorInv'
    BY <1>3, <1>4, <2>3, FreshCursor DEF TypeOK, PipelineInv, CursorInv
  <2>6. PassIsEarned' /\ ActionDenyStands' /\ VenueWarnIsPolicy'
    BY <1>4, <2>1, <2>3 DEF PassIsEarned, ActionDenyStands, VenueWarnIsPolicy
  <2> QED
    BY <1>3, <2>4, <2>5, <2>6 DEF PipelineInv
<1>6. CASE kind # "venue" /\ LastPosition
  <2>1. /\ step' = "plan" /\ verdict' = "none" /\ verdicts' = verdicts \cup own \cup {v}
        /\ own' = {} /\ leg' = leg + 1 /\ pos' = 1 /\ pos = Len(legs[leg])
    BY <1>2, <1>6 DEF Yields, LastPosition
  <2>2. StartInv' /\ PassIsEarned' /\ ActionDenyStands' /\ VenueWarnIsPolicy'
    BY <1>4, <1>6, <2>1 DEF StartInv, PassIsEarned, ActionDenyStands, VenueWarnIsPolicy
  <2>3. CursorInv'
    BY <1>2, <1>3, <1>4, <2>1, FreshCursor DEF TypeOK, PipelineInv, CursorInv
  <2>4. Remembered'
    <3>1. Remembered
      BY DEF PipelineInv, ListInv
    <3>2. CASE hits' = hits
      BY <1>4, <2>1, <3>1, <3>2 DEF Remembered
    <3>3. CASE v # "pass"
      <4>1. v \in verdicts' \cap {"warn", "fail"}
        BY <2>1, <3>3 DEF Verdicts
      <4> QED
        BY <4>1 DEF Remembered
    <3> QED
      BY <3>2, <3>3
  <2>5. Covered'
    <3> SUFFICES ASSUME NEW i \in 1 .. Len(legs), NEW j \in 1 .. Len(legs[i]),
                        i < leg + 1, legs[i][1] # "unknown", legs[i][j] = "unknown"
                 PROVE  threw \/ "warn" \in verdicts'
      BY <1>1, <1>4, <2>1 DEF Covered, Seen
    <3>1. CASE i = leg /\ j = pos
      BY <2>1, <3>1 DEF Body
    <3>2. CASE i # leg \/ j # pos
      BY <1>1, <2>1, <3>2 DEF PipelineInv, ListInv, Covered, Seen
    <3> QED
      BY <3>1, <3>2
  <2> QED
    BY <1>3, <2>1, <2>2, <2>3, <2>4, <2>5 DEF PipelineInv, ListInv
<1>7. CASE kind # "venue" /\ ~LastPosition
  <2>1. /\ step' = "plan" /\ verdict' = "none" /\ verdicts' = verdicts /\ own' = own \cup {v}
        /\ leg' = leg /\ pos' = pos + 1 /\ pos # Len(legs[leg])
    BY <1>2, <1>7 DEF Yields, LastPosition
  <2>2. StartInv' /\ PassIsEarned' /\ ActionDenyStands' /\ VenueWarnIsPolicy'
    BY <1>4, <1>7, <2>1 DEF StartInv, PassIsEarned, ActionDenyStands, VenueWarnIsPolicy
  <2>3. CursorInv'
    BY <1>1, <1>2, <1>4, <2>1 DEF PipelineInv, CursorInv, InTree
  <2>4. Remembered'
    BY SMTT(30), ZenonT(60), <1>4, <2>1 DEF PipelineInv, ListInv, Remembered, Verdicts
  <2>5. Covered'
    <3> SUFFICES ASSUME NEW i \in 1 .. Len(legs), NEW j \in 1 .. Len(legs[i]),
                        i < leg \/ (i = leg /\ j < pos + 1),
                        legs[i][1] # "unknown", legs[i][j] = "unknown"
                 PROVE  threw \/ (i = leg /\ "warn" \in own') \/ "warn" \in verdicts
      BY <1>4, <2>1 DEF Covered, Seen
    <3>1. CASE i = leg /\ j = pos
      BY <2>1, <3>1 DEF Body
    <3>2. CASE i # leg \/ j # pos
      BY <1>1, <2>1, <3>2 DEF PipelineInv, ListInv, Covered, Seen
    <3> QED
      BY <3>1, <3>2
  <2> QED
    BY <1>3, <2>1, <2>2, <2>3, <2>4, <2>5 DEF PipelineInv, ListInv
<1> QED
  BY <1>5, <1>6, <1>7

LEMMA EvaluateStep ==
  ASSUME PipelineInv,
         UnknownChild \/ \E F \in SUBSET Policies, error \in BOOLEAN : Evaluate(F, error)
  PROVE  PipelineInv'
<1>1. CASE UnknownChild
  <2>1. kind # "venue"
    BY <1>1, Cursor DEF UnknownChild, PipelineInv, StartInv, Body
  <2> QED
    BY <1>1, <2>1, YieldsStep DEF UnknownChild, PipelineInv, TypeOK, Verdicts
<1>2. ASSUME NEW F \in SUBSET Policies, NEW error \in BOOLEAN, Evaluate(F, error)
      PROVE  PipelineInv'
  <2> DEFINE v == IF SystemFail \/ error THEN "fail" ELSE Aggregate({SeverityOf[p] : p \in F})
  <2>1. v \in Verdicts
    BY DEF Verdicts, Aggregate
  <2>2. Yields(v) /\ denied' = (denied \/ v = "fail") /\ UNCHANGED <<kind, legs, bundles, threw>>
    BY <1>2 DEF Evaluate
  <2>3. InTree /\ Body # "unknown" /\ step = "evaluate"
    BY <1>2 DEF Evaluate, PipelineInv, CursorInv
  <2>4. hits' = hits \cup {<<leg, pos, p>> : p \in F \cup Starved}
    BY <1>2 DEF Evaluate
  <2>5. Starved \subseteq Policies
    BY DEF Starved, PipelineInv, TypeOK
  <2>6. hits' \subseteq (Nat \X Nat \X Policies)
    BY <2>4, <2>5 DEF PipelineInv, TypeOK
  <2>7. v = "pass" => F = {} /\ Starved = {}
    <3>1. v = "pass" => ~SystemFail
      OBVIOUS
    <3>2. Starved # {} => SystemFail
      BY DEF Starved, SystemFail, Planned
    <3>3. F # {} => Aggregate({SeverityOf[p] : p \in F}) # "pass"
      BY PipelineAssumption DEF Aggregate
    <3> QED
      BY <3>1, <3>2, <3>3
  <2>8. hits' = hits \/ v # "pass"
    BY <2>4, <2>7
  <2>9. denied' \in BOOLEAN
    BY <2>2
  <2>10. v = "warn" => \E h \in hits' : SeverityOf[h[3]] = "warn"
    <3> SUFFICES ASSUME v = "warn" PROVE \E h \in hits' : SeverityOf[h[3]] = "warn"
      OBVIOUS
    <3>1. PICK p \in F : SeverityOf[p] = "warn"
      BY DEF Aggregate
    <3>2. <<leg, pos, p>> \in hits' /\ <<leg, pos, p>>[3] = p
      BY <2>4
    <3> QED
      BY <3>1, <3>2
  <2> HIDE DEF v
  <2> QED
    BY <2>1, <2>2, <2>3, <2>6, <2>8, <2>9, <2>10, YieldsStep
<1> QED
  BY <1>1, <1>2

-----------------------------------------------------------------------------
LEMMA PipelineNext ==
  ASSUME PipelineInv, [Next]_vars
  PROVE  PipelineInv'
<1>1. CASE UNCHANGED vars
  BY SMTT(30), ZenonT(60), <1>1 DEF vars, PipelineInv, TypeOK, StartInv, CursorInv, ListInv, Covered, Remembered, Seen,
     PassIsEarned, ActionDenyStands, VenueWarnIsPolicy, InTree, Body
<1>2. CASE Next
  BY <1>2, RouteStep, MoveStep, ConcludeStep, EvaluateStep DEF Next
<1> QED
  BY <1>1, <1>2

LEMMA PipelineHolds == Spec => []PipelineInv
<1> QED
  BY PipelineInit, PipelineNext, PTL DEF Spec

\* The variables of the pipeline keep their shapes.
THEOREM PipelineTypeCorrect == Spec => []TypeOK
<1>1. PipelineInv => TypeOK
  BY DEF PipelineInv
<1> QED
  BY <1>1, PipelineHolds, PTL

\* Whatever fails on the way, a request that is judged by some policy passes
\* only if every position was decoded, fed and clean.
THEOREM PassEarned == Spec => []PassIsEarned
<1>1. PipelineInv => PassIsEarned
  BY DEF PipelineInv
<1> QED
  BY <1>1, PipelineHolds, PTL

\* A deny computed for one action of a request outranks every fault of the
\* others (ActionDenyStands).
THEOREM DenyOverridesFaults == Spec => []ActionDenyStands
<1>1. PipelineInv => ActionDenyStands
  BY DEF PipelineInv
<1> QED
  BY <1>1, PipelineHolds, PTL

\* The user is asked about a venue order only if a policy warned of it: no fault
\* of the pipeline turns into an approvable warn there (VenueWarnIsPolicy).
THEOREM VenueFaultsFail == Spec => []VenueWarnIsPolicy
<1>1. PipelineInv => VenueWarnIsPolicy
  BY DEF PipelineInv
<1> QED
  BY <1>1, PipelineHolds, PTL
=============================================================================
