--------------------------- MODULE MCUringDriver ---------------------------
(* Instances of UringDriver for TLC.  Descriptors, tokens, slots and tasks *)
(* are interchangeable.                                                    *)
EXTENDS UringDriver, TLC

Symmetry ==
  Permutations(Fds) \cup Permutations(Tokens) \cup Permutations(Slots) \cup Permutations(Tasks)
=============================================================================
