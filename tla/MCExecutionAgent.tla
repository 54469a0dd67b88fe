-------------------------- MODULE MCExecutionAgent --------------------------
(***************************************************************************)
(* Small instances of ExecutionAgent for TLC.                              *)
(***************************************************************************)
EXTENDS ExecutionAgent, TLC

\* Jobs differ only by name.
JobSymmetry == Permutations(Job)
=============================================================================
