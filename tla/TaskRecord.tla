----------------------------- MODULE TaskRecord -----------------------------
(***************************************************************************)
(* The record of one background task and those who update it: its trigger, *)
(* the iteration that runs it, and the calls that abort it                 *)
(* (packages/background-tasks/src/api: TaskService/BackgroundTaskService,  *)
(* runner/, response/DatabaseResponse).  An update reads the record,       *)
(* merges its change into it and writes the whole back, with nothing that  *)
(* notices a write in between (api-headless-cms UpdateEntryUseCase).       *)
(*                                                                         *)
(* Claims let one iteration at a time run (ClaimedIterations); a task that *)
(* nobody runs and that is not finished is resumed (RecoveredTasks).       *)
(***************************************************************************)
EXTENDS Integers

CONSTANTS
    Aborters,       \* the calls of abort
    None,
    MaxIterations,  \* the definition's maxIterations
    MaxFaults       \* bound: updates that fail and processes that stop

Unfinished == {"pending", "running"}
Finished == {"success", "failed", "aborted"}
Records == [status : Unfinished \cup Finished, iterations : 0..MaxIterations]

\* What an update may ask for: None leaves a field as it is.
Partials == [status : Unfinished \cup Finished \cup {None}, iterations : 0..MaxIterations \cup {None}]

ASSUME RecordAssumption ==
    /\ None \notin Aborters \cup {"aborted"} \cup Records \cup Partials
    /\ Aborters \cap {"trigger", "runner"} = {}
    /\ MaxIterations \in Nat \ {0} /\ MaxFaults \in Nat

VARIABLES
    rec,      \* the stored record, None when there is none
    update,   \* each writer's update under way: its change, and the record it has read
    trigger,  \* how far the trigger is
    run,      \* how far the iteration is, and the record as its store holds it
    abort,    \* how far each call of abort is
    listed,   \* whether a recovery sweep has listed the task, and not come to it yet
    faults

vars == <<rec, update, trigger, run, abort, listed, faults>>

Writers == {"trigger", "runner"} \cup Aborters
NoUpdate == [change |-> None, base |-> None]
Asked(w) == update[w].change # None
HasRead(w) == update[w].base # None

\* The update of w, once the record is read: { ...originalEntry.values, ...cleanedValues }.
Merged(w) ==
    LET change == update[w].change
    IN  [status |-> IF change.status = None THEN update[w].base.status ELSE change.status,
         iterations |-> IF change.iterations = None THEN update[w].base.iterations ELSE change.iterations]

Ask(w, status, iterations) ==
    update' = [update EXCEPT ![w] = [change |-> [status |-> status, iterations |-> iterations], base |-> None]]

\* The update of w is written.  A record deleted meanwhile stays so.
Writes(w) ==
    /\ HasRead(w)
    /\ rec' = (IF rec = None THEN None ELSE Merged(w))
    /\ update' = [update EXCEPT ![w] = NoUpdate]

\* A read or a write of the update fails, as it does when there is no record.
Fails(w) ==
    /\ Asked(w)
    /\ \/ rec = None /\ ~HasRead(w) /\ UNCHANGED faults
       \/ faults < MaxFaults /\ faults' = faults + 1
    /\ update' = [update EXCEPT ![w] = NoUpdate]
    /\ UNCHANGED rec

Stored(statuses) == rec # None /\ rec.status \in statuses

At(stage) == run.stage = stage
Goes(stage) == run' = [run EXCEPT !.stage = stage]

-----------------------------------------------------------------------------

Init ==
    /\ rec = None
    /\ update = [w \in Writers |-> NoUpdate]
    /\ trigger = "none"
    /\ run = [stage |-> "idle", task |-> None, goesOn |-> FALSE]
    /\ abort = [a \in Aborters |-> "none"]
    /\ listed = FALSE
    /\ faults = 0

Reads(w) ==
    /\ Asked(w) /\ ~HasRead(w) /\ rec # None
    /\ update' = [update EXCEPT ![w].base = rec]
    /\ UNCHANGED <<rec, trigger, run, abort, faults, listed>>

-----------------------------------------------------------------------------
(* BackgroundTaskService.trigger.                                          *)

Creates ==
    /\ trigger = "none"
    /\ rec' = [status |-> "pending", iterations |-> 0]
    /\ trigger' = "created"
    /\ UNCHANGED <<update, run, abort, faults, listed>>

\* The transport has it, and will run it; its answer is to be saved.
Sends ==
    /\ trigger = "created"
    /\ trigger' = "sent"
    /\ run' = IF At("idle") THEN [run EXCEPT !.stage = "due"] ELSE run
    /\ Ask("trigger", None, None)
    /\ UNCHANGED <<rec, abort, faults, listed>>

\* The transport refuses: the record is deleted.
SendFails ==
    /\ trigger = "created" /\ faults < MaxFaults
    /\ rec' = None
    /\ trigger' = "over"
    /\ faults' = faults + 1
    /\ UNCHANGED <<update, run, abort, listed>>

SavesResponse ==
    /\ Writes("trigger")
    /\ trigger' = "over"
    /\ UNCHANGED <<run, abort, faults, listed>>

ResponseFails ==
    /\ Fails("trigger")
    /\ trigger' = "over"
    /\ UNCHANGED <<run, abort, listed>>

\* The process stops with the trigger half way.
TriggerStops ==
    /\ trigger = "created" /\ faults < MaxFaults
    /\ trigger' = "over"
    /\ faults' = faults + 1
    /\ UNCHANGED <<rec, update, run, abort, listed>>

-----------------------------------------------------------------------------
(* BackgroundTaskService.abort.                                            *)

\* Only a pending or running task can be aborted.
Checks(a) ==
    /\ abort[a] = "none" /\ trigger # "none"
    /\ \/ Stored(Unfinished)
          /\ abort' = [abort EXCEPT ![a] = "checked"]
          /\ Ask(a, "aborted", None)
       \/ ~Stored(Unfinished)
          /\ abort' = [abort EXCEPT ![a] = "over"]
          /\ UNCHANGED update
    /\ UNCHANGED <<rec, trigger, run, faults, listed>>

Aborts(a) ==
    /\ Writes(a)
    /\ abort' = [abort EXCEPT ![a] = "over"]
    /\ UNCHANGED <<trigger, run, faults, listed>>

AbortFails(a) ==
    /\ Fails(a)
    /\ abort' = [abort EXCEPT ![a] = "over"]
    /\ UNCHANGED <<trigger, run, listed>>

-----------------------------------------------------------------------------
(* One iteration after another: TaskControl, TaskManager, DatabaseResponse. *)

\* Recovery lists what is not finished, once the grace period of a new task is over, and resumes it
\* when nobody runs it; it may have ended in between.
Lists ==
    /\ ~listed /\ trigger # "created" /\ Stored(Unfinished)
    /\ listed' = TRUE
    /\ UNCHANGED <<rec, update, trigger, run, abort, faults>>

Resumes ==
    /\ listed /\ At("idle")
    /\ listed' = FALSE
    /\ Goes("due")
    /\ UNCHANGED <<rec, update, trigger, abort, faults>>

\* Mutant: a task that is done runs again.
FetchesAnything ==
    /\ At("due")
    /\ run' = IF Stored(Unfinished \cup {"success"}) THEN [run EXCEPT !.stage = "fetched", !.task = rec]
              ELSE [run EXCEPT !.stage = "idle"]
    /\ UNCHANGED <<rec, update, trigger, abort, faults, listed>>

\* Mutant: an aborted task runs.
FetchesAborted ==
    /\ At("due")
    /\ run' = IF Stored(Unfinished \cup {"aborted"}) THEN [run EXCEPT !.stage = "fetched", !.task = rec]
              ELSE [run EXCEPT !.stage = "idle"]
    /\ UNCHANGED <<rec, update, trigger, abort, faults, listed>>

\* The record is read; what is finished, or gone, does not run.
Fetches ==
    /\ At("due")
    /\ run' = IF Stored(Unfinished) THEN [run EXCEPT !.stage = "fetched", !.task = rec]
              ELSE [run EXCEPT !.stage = "idle"]
    /\ UNCHANGED <<rec, update, trigger, abort, faults, listed>>

\* Mutants: one iteration too many; the iteration is not counted.
BeginsPastMax ==
    /\ At("fetched")
    /\ IF run.task.status = "pending" THEN Goes("starting") /\ Ask("runner", "running", 1)
       ELSE IF run.task.iterations > MaxIterations THEN Goes("ending") /\ Ask("runner", "failed", None)
       ELSE Goes("starting") /\ Ask("runner", None, run.task.iterations + 1)
    /\ UNCHANGED <<rec, trigger, abort, faults, listed>>

BeginsUncounted ==
    /\ At("fetched")
    /\ IF run.task.status = "pending" THEN Goes("starting") /\ Ask("runner", "running", 1)
       ELSE IF run.task.iterations >= MaxIterations THEN Goes("ending") /\ Ask("runner", "failed", None)
       ELSE Goes("starting") /\ Ask("runner", None, None)
    /\ UNCHANGED <<rec, trigger, abort, faults, listed>>

\* The iteration is counted before it runs; a task that has had them all fails.
Begins ==
    /\ At("fetched")
    /\ IF run.task.status = "pending" THEN Goes("starting") /\ Ask("runner", "running", 1)
       ELSE IF run.task.iterations >= MaxIterations THEN Goes("ending") /\ Ask("runner", "failed", None)
       ELSE Goes("starting") /\ Ask("runner", None, run.task.iterations + 1)
    /\ UNCHANGED <<rec, trigger, abort, faults, listed>>

\* The task's code saves something of its own.
Saves ==
    /\ At("body") /\ ~Asked("runner")
    /\ Ask("runner", None, None)
    /\ UNCHANGED <<rec, trigger, run, abort, faults, listed>>

\* The store holds what was written: an abort it merged is seen.
Saved ==
    /\ run.stage \in {"starting", "body"}
    /\ Writes("runner")
    /\ run' = [run EXCEPT !.stage = "body", !.task = Merged("runner")]
    /\ UNCHANGED <<trigger, abort, faults, listed>>

\* The code is done, fails or asks to go on, or it found the task aborted.
Returns ==
    /\ At("body") /\ ~Asked("runner")
    /\ \/ Ask("runner", "success", None) /\ Goes("ending")
       \/ Ask("runner", "failed", None) /\ Goes("ending")
       \/ Ask("runner", "running", None) /\ run' = [run EXCEPT !.stage = "ending", !.goesOn = TRUE]
       \/ run.task.status = "aborted" /\ Goes("idle") /\ UNCHANGED update
    /\ UNCHANGED <<rec, trigger, abort, faults, listed>>

\* The answer is saved, and the task goes on if it asked to.
Ends ==
    /\ At("ending")
    /\ Writes("runner")
    /\ run' = [stage |-> IF run.goesOn THEN "due" ELSE "idle", task |-> None, goesOn |-> FALSE]
    /\ UNCHANGED <<trigger, abort, faults, listed>>

\* A save of the task's own may fail and be handled by its code; otherwise a save that fails fails the
\* task, and an outcome that cannot be saved is answered all the same.
SaveFails ==
    /\ Asked("runner") /\ faults < MaxFaults
    /\ faults' = faults + 1
    /\ \/ At("body") /\ update' = [update EXCEPT !["runner"] = NoUpdate] /\ UNCHANGED run
       \/ At("ending") /\ ~run.goesOn /\ update' = [update EXCEPT !["runner"] = NoUpdate] /\ Goes("idle")
       \/ /\ At("ending") => run.goesOn
          /\ run' = [run EXCEPT !.stage = "ending", !.goesOn = FALSE]
          /\ Ask("runner", "failed", None)
    /\ UNCHANGED <<rec, trigger, abort, listed>>

\* The process stops, and what it was about to write is not written.
Stops ==
    /\ ~At("idle") /\ faults < MaxFaults
    /\ faults' = faults + 1
    /\ run' = [stage |-> "idle", task |-> None, goesOn |-> FALSE]
    /\ update' = [update EXCEPT !["runner"] = NoUpdate]
    /\ UNCHANGED <<rec, trigger, abort, listed>>

-----------------------------------------------------------------------------

Triggering == Creates \/ Sends \/ SendFails \/ SavesResponse \/ ResponseFails \/ TriggerStops
Aborting(a) == Checks(a) \/ Aborts(a) \/ AbortFails(a)
Iterating ==
    Lists \/ Resumes \/ Fetches \/ Begins \/ Saves \/ Saved \/ Returns \/ Ends \/ SaveFails \/ Stops

Next ==
    \/ Triggering \/ Iterating
    \/ \E a \in Aborters : Aborting(a)
    \/ \E w \in Writers : Reads(w)

Spec == Init /\ [][Next]_vars

\* What was begun goes on: a trigger, an abort and an update; a task is resumed and run, and its code
\* returns, however often it saves.
Fairness ==
    /\ WF_vars(Sends) /\ WF_vars(SavesResponse)
    /\ WF_vars(Lists) /\ WF_vars(Resumes \/ Fetches \/ Begins \/ Saved \/ Ends) /\ SF_vars(Returns)
    /\ \A a \in Aborters : WF_vars(Aborts(a))
    /\ \A w \in Writers : WF_vars(Reads(w))

FairSpec == Spec /\ Fairness

-----------------------------------------------------------------------------
(* Properties.                                                             *)

\* The variables hold values of their types, the iterations counted do not pass the maximum, and an
\* update is under way just when its writer waits for it.
TypeOK ==
    /\ rec \in Records \cup {None}
    /\ update \in [Writers -> [change : Partials \cup {None}, base : Records \cup {None}]]
    /\ trigger \in {"none", "created", "sent", "over"}
    /\ run \in [stage : {"idle", "due", "fetched", "starting", "body", "ending"},
                task : Records \cup {None}, goesOn : BOOLEAN]
    /\ abort \in [Aborters -> {"none", "checked", "over"}]
    /\ listed \in BOOLEAN
    /\ faults \in 0..MaxFaults
    /\ Asked("trigger") <=> trigger = "sent"
    /\ \A a \in Aborters : Asked(a) <=> abort[a] = "checked"
    /\ run.stage \in {"starting", "ending"} => Asked("runner")
    /\ run.stage \in {"idle", "due", "fetched"} => ~Asked("runner")
    /\ \A w \in Writers : HasRead(w) => Asked(w)

\* The task is finished, and so was every record an update still to be written has read.
Settled ==
    /\ Stored(Finished)
    /\ run.stage \in {"idle", "due"} /\ trigger # "created"
    /\ \A w \in Writers : HasRead(w) => update[w].base.status \in Finished

\* A task that is done, failed or aborted is not run again, as long as no update was caught half way
\* by its end.
SettledStaysSettled == [][Settled => Settled']_vars

\* An outcome is undone only by an update that was under way: the answer of the transport, saved with
\* the status read before; and, for an abort, the iteration that was running.
OutcomeUndoneOnlyHalfWay ==
    [][\/ ~Stored(Finished) \/ ~Stored(Unfinished)'
       \/ trigger = "sent" /\ trigger' = "over"
       \/ rec.status = "aborted" /\ run.stage \in {"starting", "body", "ending"}]_vars

\* Whatever updates overwrite each other, a task ends in the end, and for good.
EndsForGood == <>[](trigger = "none" \/ rec = None \/ Settled)
=============================================================================
