--------------------------- MODULE MCPolicyStore ---------------------------
(* Designs: a public policy for new wallets, a market policy with a blank,    *)
(* and a hidden one nobody is bound to yet.                                   *)
EXTENDS PolicyStore, TLC

MCDesigns ==
  {[source |-> "mine", on |-> TRUE, hole |-> "none", home |-> Public, pkg |-> Uncat],
   [source |-> "market", on |-> TRUE, hole |-> "blank", home |-> Public, pkg |-> Uncat],
   [source |-> "market", on |-> FALSE, hole |-> "filled", home |-> Nowhere, pkg |-> Uncat]}

EditSymmetry == Permutations(Edits)
=============================================================================
