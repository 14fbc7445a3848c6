-------------------------------- MODULE MCCopy --------------------------------
(* Copy by itself for TLC.                                                 *)
EXTENDS Copy
=============================================================================
