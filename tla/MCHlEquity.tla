---------------------------- MODULE MCHlEquity ----------------------------
(* Small instances of HlEquity for TLC. *)
EXTENDS HlEquity

PlusMinusOne == {-1, 1}
=============================================================================
