----------------------------- MODULE MCExecutor -----------------------------
(* Instances of Executor for TLC.                                          *)
EXTENDS Executor

\* A poll of any future may wake any future, itself included.
MCWakesAll == [f \in Futures |-> Futures]

\* Polls wake tasks, themselves included, and never the root.
MCWakesTasks == [f \in Futures |-> Tasks]

MCTargets == Futures
=============================================================================
