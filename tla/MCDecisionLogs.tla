-------------------------- MODULE MCDecisionLogs --------------------------
(* A small instance of DecisionLogs for TLC. *)
EXTENDS DecisionLogs, TLC

CONSTANTS d1, d2, d3, x, y, alice

\* Three decisions of one wallet: a signature with two matched policies, and two
\* transactions with one payload.
Three     == {d1, d2, d3}
ThreeIds  == d1 :> y @@ d2 :> x @@ d3 :> x
ThreeTurn == d1 :> alice @@ d2 :> alice @@ d3 :> alice
ThreeRows == d1 :> 2 @@ d2 :> 1 @@ d3 :> 1
Alike     == Permutations({d2, d3})
=============================================================================
