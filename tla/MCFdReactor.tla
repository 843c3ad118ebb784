----------------------------- MODULE MCFdReactor -----------------------------
(* Model-checking instance of FdReactor. *)
EXTENDS FdReactor, TLC

\* Threads are interchangeable: no invariant names one.
Symmetry == Permutations(Threads)
=============================================================================
