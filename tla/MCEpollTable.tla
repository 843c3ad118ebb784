----------------------------- MODULE MCEpollTable -----------------------------
(* EpollTable for TLC: file descriptors are interchangeable.                *)
EXTENDS EpollTable, TLC

Symmetry == Permutations(Fds)
=============================================================================
