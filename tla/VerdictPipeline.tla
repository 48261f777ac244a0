-------------------------- MODULE VerdictPipeline --------------------------
(***************************************************************************)
(* How runLifecycle arrives at the verdict of one request.                 *)
(*                                                                         *)
(*   route / convert --> resolve the wallet's bundles -->                  *)
(*       for every decoded action, for every position of its tree:         *)
(*            plan --> dispatch --> evaluate                               *)
(*   --> aggregate by deny-overrides with a fault floor                    *)
(*                                                                         *)
(* Every call into the WASM engine, to the policy server and to storage    *)
(* may fail on its own; the properties are about what such a partial       *)
(* failure does to the verdict.  A decoded action is the sequence of the   *)
(* positions of its body tree in evaluateBodyTree's (pre-)order, so a      *)
(* batch is <<"batch", child, ...>> and a plain action <<"action">>.       *)
(***************************************************************************)
EXTENDS Naturals, Sequences, FiniteSets

CONSTANTS Decodes,    \* the action lists the decoders can build
          Policies,   \* the policies of the wallet's library
          ScopeOf,    \* trigger.scope of a policy's manifest
          SeverityOf, \* @severity of a policy
          Calls,      \* planned policy-rpc calls, "<manifest>::<spec>"
          CallsOf,    \* the calls a policy's manifest declares
          Optional    \* the calls declared optional

Bodies == {"batch", "action", "unknown"}
Kinds  == {"tx", "typed", "untyped", "venue"}
Verdicts == {"pass", "warn", "fail"}

\* Only a batch has children, and a decoder never emits an empty tree.
ASSUME PipelineAssumption ==
  /\ Decodes \subseteq Seq(Seq(Bodies))
  /\ \A L \in Decodes : \A i \in 1 .. Len(L) :
        Len(L[i]) >= 1 /\ (L[i][1] # "batch" => Len(L[i]) = 1)
  /\ ScopeOf \in [Policies -> {"inner", "outer"}]
  /\ SeverityOf \in [Policies -> {"warn", "fail"}]
  /\ CallsOf \in [Policies -> SUBSET Calls]
  /\ Optional \subseteq Calls

VARIABLES
  kind,      \* which lifecycle runs
  step,      \* the await it is at
  legs,      \* the decoded actions
  leg, pos,  \* the action and the position of its tree under evaluation
  bundles,   \* the policies resolved for the wallet
  matched,   \* those whose trigger matches at this position
  results,   \* the calls that were answered
  own,       \* verdicts of this tree so far (evaluateBodyTree's list)
  verdicts,  \* verdicts of the trees that were evaluated to their end
  threw,     \* anyLegThrew
  verdict,   \* the lifecycle's verdict, "none" while it runs
  hits,      \* history: <<leg, pos, policy>> that fired or could not be fed
  denied     \* history: some position was evaluated to fail

vars == <<kind, step, legs, leg, pos, bundles, matched, results, own, verdicts,
          threw, verdict, hits, denied>>

Steps == {"route", "resolve", "plan", "dispatch", "evaluate", "done"}

TypeOK ==
  /\ kind \in Kinds
  /\ step \in Steps
  /\ legs \in Seq(Seq(Bodies))
  /\ leg \in Nat \ {0} /\ pos \in Nat \ {0}
  /\ bundles \subseteq Policies
  /\ matched \subseteq bundles
  /\ results \subseteq Calls
  /\ own \subseteq Verdicts
  /\ verdicts \subseteq Verdicts
  /\ threw \in BOOLEAN
  /\ verdict \in Verdicts \cup {"none"}
  /\ hits \subseteq (Nat \X Nat \X Policies)
  /\ denied \in BOOLEAN

Init ==
  /\ kind \in Kinds
  /\ step = "route"
  /\ legs = <<>> /\ leg = 1 /\ pos = 1
  /\ bundles = {} /\ matched = {} /\ results = {}
  /\ own = {} /\ verdicts = {} /\ threw = FALSE
  /\ verdict = "none" /\ hits = {} /\ denied = FALSE

-----------------------------------------------------------------------------
(* Ending *)

\* The lifecycle returns v.
Return(v) ==
  /\ step' = "done"
  /\ verdict' = v

\* aggregateV2Verdicts and Verdict::aggregate: deny-overrides, empty is pass.
Aggregate(S) == IF "fail" \in S THEN "fail" ELSE IF "warn" \in S THEN "warn" ELSE "pass"

\* An aggregate in which the first fault hides a computed deny.
FaultFirst == IF threw THEN "warn" ELSE Aggregate(verdicts)

\* A real fail outranks a fault; a fault without one becomes a warn.
Resolution ==
  IF Aggregate(verdicts) # "fail" /\ threw THEN "warn" ELSE Aggregate(verdicts)

-----------------------------------------------------------------------------
(* Routing and resolving *)

NoReal(L) == \A i \in 1 .. Len(L) : L[i][1] = "unknown"

\* The calldata route's guard: a batch that decoded to nothing is unknown.
Guarded(L) == [i \in 1 .. Len(L) |-> IF L[i] = <<"batch">> THEN <<"unknown">> ELSE L[i]]

\* personal_sign is never evaluated.
Untyped ==
  /\ kind = "untyped" /\ step = "route"
  /\ Return("warn")
  /\ UNCHANGED <<kind, legs, leg, pos, bundles, matched, results, own, verdicts, threw, hits, denied>>

\* No decoder, a decode fault or a throw; an order that cannot be converted.
RouteFails ==
  /\ kind # "untyped" /\ step = "route"
  /\ Return(IF kind = "venue" THEN "fail" ELSE "warn")
  /\ UNCHANGED <<kind, legs, leg, pos, bundles, matched, results, own, verdicts, threw, hits, denied>>

\* tryDeclarativeRouteV3 hits; without a real action there is no v2 verdict.
RouteTx(L) ==
  /\ kind = "tx" /\ step = "route"
  /\ legs' = Guarded(L)
  /\ IF NoReal(Guarded(L)) THEN Return("warn")
     ELSE step' = "resolve" /\ UNCHANGED verdict
  /\ UNCHANGED <<kind, leg, pos, bundles, matched, results, own, verdicts, threw, hits, denied>>

\* routeTypedSignaturePayload hits: its route has no guard for empty batches.
RouteTyped(L) ==
  /\ kind = "typed" /\ step = "route"
  /\ legs' = L
  /\ step' = "resolve"
  /\ UNCHANGED <<kind, leg, pos, bundles, matched, results, own, verdicts, threw, verdict, hits, denied>>

\* hlOrderToAction: one action, never a batch.
ConvertOrder ==
  /\ kind = "venue" /\ step = "route"
  /\ legs' = << <<"action">> >>
  /\ step' = "resolve"
  /\ UNCHANGED <<kind, leg, pos, bundles, matched, results, own, verdicts, threw, verdict, hits, denied>>

\* resolveBundlesForWallet.  No policy at all: a transaction falls through to
\* the fail-closed tail, a signature and an order pass (for an order also when
\* filterForAction leaves none).  Unknown signatures warn.
Resolve(B) ==
  /\ step = "resolve"
  /\ bundles' = B
  /\ IF B = {} THEN Return(IF kind = "tx" THEN "warn" ELSE "pass")
     ELSE IF NoReal(legs) THEN Return("warn")
     ELSE step' = "plan" /\ UNCHANGED verdict
  /\ UNCHANGED <<kind, legs, leg, pos, matched, results, own, verdicts, threw, hits, denied>>

\* A storage error leaves the lifecycle; decideInner's catch denies.
ResolveThrows ==
  /\ step = "resolve"
  /\ Return("fail")
  /\ UNCHANGED <<kind, legs, leg, pos, bundles, matched, results, own, verdicts, threw, hits, denied>>

-----------------------------------------------------------------------------
(* One position *)

InTree == leg <= Len(legs) /\ legs[leg][1] # "unknown"
Body   == legs[leg][pos]
\* The next position, or the first one of the next action.
LastPosition == pos = Len(legs[leg])

\* realActions: an undecoded action is not evaluated.
SkipUnknown ==
  /\ step = "plan" /\ leg <= Len(legs) /\ legs[leg][1] = "unknown"
  /\ leg' = leg + 1
  /\ UNCHANGED <<kind, step, legs, pos, bundles, matched, results, own, verdicts, threw, verdict, hits, denied>>

\* A position that yields v: the tree's list is added to the verdicts only
\* when evaluateBodyTree returns.  An order has no tree: its verdict is it.
Yields(v) ==
  /\ IF kind = "venue" THEN Return(v) ELSE step' = "plan" /\ UNCHANGED verdict
  /\ own' = IF LastPosition THEN {} ELSE own \cup {v}
  /\ verdicts' = IF LastPosition THEN verdicts \cup own \cup {v} ELSE verdicts
  /\ leg' = IF LastPosition THEN leg + 1 ELSE leg
  /\ pos' = IF LastPosition THEN 1 ELSE pos + 1
  /\ matched' = {} /\ results' = {}

\* A partially decoded batch: the undecoded child contributes nothing.
UnknownChildSilent ==
  /\ step = "plan" /\ InTree /\ Body = "unknown"
  /\ Yields("pass")
  /\ UNCHANGED <<kind, legs, bundles, threw, hits, denied>>

\* partialDecodeVerdict for an undecoded child of a batch.
UnknownChild ==
  /\ step = "plan" /\ InTree /\ Body = "unknown"
  /\ Yields("warn")
  /\ UNCHANGED <<kind, legs, bundles, threw, hits, denied>>

\* planActionRpcV2: M are the policies whose trigger matches; their scope is
\* not looked at yet, and with nothing planned the dispatch is skipped.
Planned(M) == UNION {CallsOf[p] : p \in M}

Plan(M) ==
  /\ step = "plan" /\ InTree /\ Body # "unknown"
  /\ M \subseteq bundles
  /\ matched' = M
  /\ step' = IF Planned(M) = {} THEN "evaluate" ELSE "dispatch"
  /\ UNCHANGED <<kind, legs, leg, pos, bundles, results, own, verdicts, threw, verdict, hits, denied>>

\* dispatchCallsV2 never throws: a call that failed locally, was refused by
\* the server or could not be sent is left out of the results.
Dispatch(R) ==
  /\ step = "dispatch"
  /\ R \subseteq Planned(matched)
  /\ results' = R
  /\ step' = "evaluate"
  /\ UNCHANGED <<kind, legs, leg, pos, bundles, matched, own, verdicts, threw, verdict, hits, denied>>

\* materialize_v2 stops at a planned call that is required and not answered.
SystemFail == \E c \in Planned(matched) : c \notin Optional /\ c \notin results

\* The policies that such a call belongs to (for the history).
Starved == {p \in matched : ~((CallsOf[p] \ Optional) \subseteq results)}

\* The scope x position gate of evaluate_matching_bundles.
Applies(p) == ScopeOf[p] = IF Body = "batch" THEN "outer" ELSE "inner"

\* evaluate_action_v2_json: an unanswered required call is a __system__ fail;
\* an error of the engine or of a policy is a fail; otherwise the policies of
\* F fired and their severities aggregate.
Evaluate(F, error) ==
  /\ step = "evaluate"
  /\ F \subseteq {p \in matched : Applies(p)}
  /\ LET v == IF SystemFail \/ error THEN "fail" ELSE Aggregate({SeverityOf[p] : p \in F})
     IN /\ Yields(v)
        /\ denied' = (denied \/ v = "fail")
  /\ hits' = hits \cup {<<leg, pos, p>> : p \in F \cup Starved}
  /\ UNCHANGED <<kind, legs, bundles, threw>>

\* A venue order whose evaluation throws becomes an approvable warn.
ThrowsApprovable ==
  /\ step \in {"plan", "evaluate"} /\ InTree /\ Body # "unknown"
  /\ IF kind = "venue" THEN Return("warn") ELSE step' = "plan" /\ UNCHANGED verdict
  /\ threw' = TRUE
  /\ own' = {} /\ leg' = leg + 1 /\ pos' = 1 /\ matched' = {} /\ results' = {}
  /\ UNCHANGED <<kind, legs, bundles, verdicts, hits, denied>>

\* plan or evaluate throws (the WASM cannot be loaded, a required selector
\* does not resolve, a malformed reply): the whole tree is given up with the
\* verdicts it already had.  An order is denied.
Throws ==
  /\ step \in {"plan", "evaluate"} /\ InTree /\ Body # "unknown"
  /\ IF kind = "venue" THEN Return("fail") ELSE step' = "plan" /\ UNCHANGED verdict
  /\ threw' = TRUE
  /\ own' = {} /\ leg' = leg + 1 /\ pos' = 1 /\ matched' = {} /\ results' = {}
  /\ UNCHANGED <<kind, legs, bundles, verdicts, hits, denied>>

\* Every action was evaluated.
Conclude ==
  /\ step = "plan" /\ leg > Len(legs)
  /\ Return(Resolution)
  /\ UNCHANGED <<kind, legs, leg, pos, bundles, matched, results, own, verdicts, threw, hits, denied>>

-----------------------------------------------------------------------------
Next == \/ Untyped \/ RouteFails \/ ConvertOrder
        \/ (\E L \in Decodes : RouteTx(L) \/ RouteTyped(L))
        \/ (\E B \in SUBSET Policies : Resolve(B)) \/ ResolveThrows
        \/ SkipUnknown \/ UnknownChild
        \/ (\E M \in SUBSET Policies : Plan(M))
        \/ (\E R \in SUBSET Calls : Dispatch(R))
        \/ (\E F \in SUBSET Policies, error \in BOOLEAN : Evaluate(F, error))
        \/ Throws \/ Conclude

Spec == Init /\ [][Next]_vars

-----------------------------------------------------------------------------
(* What the verdict promises *)

\* A request judged by at least one policy passes only if no policy fired or
\* lacked a required answer at any position, nothing threw on the way, and
\* every position of every evaluated action was decoded: no partial failure
\* of decoder, engine or server is waived through.
PassIsEarned ==
  verdict = "pass" /\ bundles # {} =>
    /\ hits = {} /\ ~threw
    /\ \A i \in 1 .. Len(legs) : legs[i][1] # "unknown" =>
          \A j \in 1 .. Len(legs[i]) : legs[i][j] # "unknown"

\* A deny computed in one action of a request is not demoted by another
\* action that throws (tryV2VerdictPath keeps evaluating the siblings).
ActionDenyStands == step = "done" /\ "fail" \in verdicts => verdict = "fail"

\* The user is asked about an order only because a policy warned of it.  What
\* makes other requests an approvable warn (no decoder, a failed conversion, an
\* engine or storage fault, an undecoded part) never does that to an order.
VenueWarnIsPolicy ==
  kind = "venue" /\ verdict = "warn" => \E h \in hits : SeverityOf[h[3]] = "warn"

\* The stronger reading of "a sibling's computed Fail must not be demoted to
\* an approvable warn": also when the siblings are children of one batch.
ComputedDenyStands == step = "done" /\ denied => verdict = "fail"

\* A batch that decoded to no action at all is not passed.
EmptyBatchNeverPasses ==
  verdict = "pass" /\ bundles # {} => \A i \in 1 .. Len(legs) : legs[i] # <<"batch">>

-----------------------------------------------------------------------------
(* The inductive invariant behind the safety properties *)

\* Nothing is remembered before the first position, and there is no verdict
\* before the end.
StartInv ==
  /\ step # "done" => verdict = "none"
  /\ step \in {"route", "resolve"} =>
        leg = 1 /\ pos = 1 /\ own = {} /\ verdicts = {} /\ hits = {} /\ ~threw /\ matched = {}
  /\ kind = "venue" /\ step # "done" =>
        /\ leg = 1 /\ pos = 1 /\ own = {} /\ verdicts = {} /\ hits = {} /\ ~threw
        /\ \A i \in 1 .. Len(legs) : Len(legs[i]) = 1 /\ legs[i][1] = "action"
        /\ step # "route" => Len(legs) = 1

\* The cursor is inside the tree whose evaluation is going on, and a tree that
\* has just begun has no verdicts of its own.
CursorInv ==
  /\ \A i \in 1 .. Len(legs) : Len(legs[i]) >= 1
  /\ step \in {"dispatch", "evaluate"} => InTree /\ Body # "unknown"
  /\ InTree => pos <= Len(legs[leg])
  /\ ~InTree => pos = 1
  /\ pos = 1 => own = {}
  /\ step \in {"plan", "dispatch", "evaluate"} => bundles # {}

\* What the lists of verdicts remember of the positions passed so far.
Seen(i, j) == i < leg \/ (i = leg /\ j < pos)
Covered ==
  \A i \in 1 .. Len(legs) : \A j \in 1 .. Len(legs[i]) :
    Seen(i, j) /\ legs[i][1] # "unknown" /\ legs[i][j] = "unknown"
      => threw \/ (i = leg /\ "warn" \in own) \/ "warn" \in verdicts
Remembered ==
  hits # {} => threw \/ own \cap {"warn", "fail"} # {} \/ verdicts \cap {"warn", "fail"} # {}
ListInv == step # "done" => Covered /\ Remembered

PipelineInv ==
  /\ TypeOK /\ StartInv /\ CursorInv /\ ListInv
  /\ PassIsEarned /\ ActionDenyStands /\ VenueWarnIsPolicy
=============================================================================
