--------------------------- MODULE MCSharedBuffer ---------------------------
(* Model-checking instance of SharedBuffer: one thread has two views, the   *)
(* other one.                                                               *)
EXTENDS SharedBuffer

CONSTANTS t1, t2, v1, v2, v3

MCOwner == [v \in {v1, v2, v3} |-> IF v = v3 THEN t2 ELSE t1]
=============================================================================
