---------------------------- MODULE ApprovalGate ----------------------------
(***************************************************************************)
(* What the extension promises a page, with no mention of streams, ports,  *)
(* locks, windows or storage: a request is asked once and answered once,   *)
(* and the answer is "allowed" only after a grant (a pass verdict, or the  *)
(* user's Trust) for a request of that id.                                 *)
(***************************************************************************)
CONSTANTS Req, Ids, IdOf

VARIABLES answer,   \* what the page knows of each request
          grants    \* ids of the requests that were granted

vars == <<answer, grants>>

Init ==
  /\ answer = [r \in Req |-> "none"]
  /\ grants = {}

\* A page calls a method of the provider.
Ask(r) ==
  /\ answer[r] = "none"
  /\ answer' = [answer EXCEPT ![r] = "pending"]
  /\ UNCHANGED grants

\* The policy passes a request with id i, or the user trusts one.
Grant(i) ==
  /\ grants' = grants \cup {i}
  /\ UNCHANGED answer

\* The requests of S get one answer.  They share an id: the proxy compares
\* nothing else.  A refusal needs no reason.
Reply(S, v) ==
  /\ \A r \in S : answer[r] = "pending" /\ (v = "allowed" => IdOf[r] \in grants)
  /\ \A q, r \in S : IdOf[q] = IdOf[r]
  /\ answer' = [r \in Req |-> IF r \in S THEN v ELSE answer[r]]
  /\ UNCHANGED grants

Next ==
  \/ \E r \in Req : Ask(r)
  \/ \E i \in Ids : Grant(i)
  \/ \E S \in SUBSET Req, v \in {"allowed", "rejected"} : Reply(S, v)

Spec == Init /\ [][Next]_vars
=============================================================================
