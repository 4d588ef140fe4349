---------------------------- MODULE MCGameServer ----------------------------
(* GameServer for TLC: the io threads and the console threads are model      *)
(* values and interchangeable.                                               *)
EXTENDS GameServer, TLC

Symmetry == Permutations(IoThreads)

=============================================================================
