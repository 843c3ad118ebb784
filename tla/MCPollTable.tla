------------------------------ MODULE MCPollTable ------------------------------
(* PollTable for TLC: file descriptors are interchangeable.                 *)
EXTENDS PollTable, TLC

Symmetry == Permutations(Fds)
=============================================================================
