------------------------------- MODULE MCFiles --------------------------------
(* Files by itself for TLC.                                                *)
EXTENDS Files
=============================================================================
