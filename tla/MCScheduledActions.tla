------------------------ MODULE MCScheduledActions -------------------------
(* Model-checking instance of ScheduledActions. *)
EXTENDS ScheduledActions, TLC

ProcSymmetry == Permutations(Procs)
=============================================================================
