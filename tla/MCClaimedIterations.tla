------------------------ MODULE MCClaimedIterations ------------------------
(* Model-checking instance of ClaimedIterations.  A claim lasts three      *)
(* ticks and is renewed every tick, the proportion of the code's 60 and 20 *)
(* seconds.                                                                *)
EXTENDS ClaimedIterations, TLC

ProcSymmetry == Permutations(Procs)
=============================================================================
