---------------------------- MODULE SerialStore ----------------------------
(***************************************************************************)
(* What the policy store promises its readers: the documents change by one *)
(* operation at a time, applied as a whole to the documents the operation  *)
(* before it left, and never by an operation that throws or whose result   *)
(* fails validation.                                                       *)
(***************************************************************************)
CONSTANTS Stores,          \* documents to start from
          Operations(_),   \* what may be asked of the documents
          Result(_, _),    \* the documents after an operation, or Err
          Err

VARIABLE store

Init == store \in Stores

Operate == \E c \in Operations(store) :
             /\ Result(store, c) # Err
             /\ store' = Result(store, c)

Spec == Init /\ [][Operate]_store
=============================================================================
