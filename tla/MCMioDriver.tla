---------------------------- MODULE MCMioDriver ----------------------------
(* Instances of MioDriver for TLC.  Tasks, tokens and handles are           *)
(* interchangeable.  Streams register for both sides, listeners for one.   *)
EXTENDS MioDriver, TLC

Symmetry == Permutations(Tasks) \cup Permutations(Tokens) \cup Permutations(Handles)

MCInterests == {{"read"}, {"read", "write"}}
=============================================================================
