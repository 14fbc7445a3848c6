------------------------------ MODULE MCSockets -------------------------------
(* Sockets by itself for TLC.  Objects and tasks are interchangeable.      *)
EXTENDS Sockets, TLC

Symmetry == Permutations(Objects) \cup Permutations(Tasks)
=============================================================================
