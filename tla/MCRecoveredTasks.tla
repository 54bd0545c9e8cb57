--------------------------- MODULE MCRecoveredTasks ---------------------------
(* RecoveredTasks for TLC: processes that do not survive are alike, and so are tasks. *)
EXTENDS RecoveredTasks, TLC

ProcSymmetry == Permutations(Procs)

\* What tells states apart.  The numbers of saves are only compared with each other, so how far each
\* is behind its record's is enough, and no action looks at what the ghost counts.
Behind(t, saves) == rec[t].saves - saves
View ==
    <<[t \in Tasks |-> <<rec[t].status, rec[t].iterations, picked[t].count, Behind(t, picked[t].saves)>>],
      age, claim, trigger, exec, line,
      [p \in Procs |-> {[item EXCEPT !.saves = Behind(item.task, @)] : item \in list[p]}],
      [p \in Procs |-> IF sweep[p] = NoSweep THEN NoSweep
                       ELSE [sweep[p] EXCEPT !.saves = Behind(sweep[p].task, @)]],
      life, selfTaken>>

\* The properties say nothing of a task that its own process took: its states are not followed.
NotSelfTaken == \A t \in Tasks : ~selfTaken[t]
===============================================================================
