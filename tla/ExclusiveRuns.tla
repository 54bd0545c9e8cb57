--------------------------- MODULE ExclusiveRuns ---------------------------
(***************************************************************************)
(* What a claim promises: the thing it is about, a task or a scheduled     *)
(* action at its due time, is run by one runner at a time, and a run       *)
(* begins only when there is none.                                         *)
(***************************************************************************)
CONSTANTS Procs, Tasks

VARIABLE runners    \* who runs each task right now

Init == runners = [t \in Tasks |-> {}]

Begin(p, t) ==
    /\ runners[t] = {}
    /\ runners' = [runners EXCEPT ![t] = {p}]

\* Runs end: one, or those of a process that is gone, or all those whose claims run out together.
End ==
    /\ runners' \in [Tasks -> SUBSET Procs]
    /\ \A t \in Tasks : runners'[t] \subseteq runners[t]

Next == End \/ \E p \in Procs, t \in Tasks : Begin(p, t)

Spec == Init /\ [][Next]_runners
=============================================================================
