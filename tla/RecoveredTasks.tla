--------------------------- MODULE RecoveredTasks ---------------------------
(***************************************************************************)
(* A background task from its trigger to its end: the record the runner    *)
(* keeps of it, the slots it waits for, and the recovery sweeps of the     *)
(* processes, which take over what nobody holds, count how often they did  *)
(* since the task last saved, and fail it past a limit                     *)
(* (packages/background-tasks-standalone/src: recovery/, service/, loop/,  *)
(* claim/; packages/background-tasks/src/api/runner/).                     *)
(*                                                                         *)
(* The claims are those of ClaimedIterations, seen from further away: an   *)
(* iteration's renewals all come in time, and its handler holds the claim  *)
(* in one step and hands it on in another.  The line for a slot is         *)
(* IterationSlots'.  An update of a task's record writes back the whole    *)
(* record it read.  The trigger's last one keeps the status it read, so    *)
(* its read and its write are two steps here; the others set the status    *)
(* and are one (they are two in TaskRecord).                               *)
(***************************************************************************)
EXTENDS Integers, Sequences, FiniteSets

CONSTANTS
    Procs,          \* process lifetimes
    Tasks,
    None,
    TTL,            \* CLAIM_TTL_MS and RECOVER_GRACE_MS, in ticks
    Slots,          \* MAX_RUNNING_ITERATIONS
    Crowded,        \* whether the slots may be taken by tasks outside Tasks, for any time
    MaxRecoveries,  \* MAX_RECOVERIES
    MaxIterations,  \* the definition's maxIterations
    Delays,         \* delays a trigger may ask for, in ticks
    Waits,          \* waits an iteration may ask for, in ticks
    Faults,         \* what may go wrong: "crash", "write"
    Survivor        \* a process that neither crashes nor stops, or None

ASSUME RecoveryAssumption ==
    /\ None \notin Procs /\ None \notin Tasks /\ Survivor \in Procs \cup {None}
    /\ TTL \in Nat \ {0} /\ Slots \in Nat \ {0} /\ Crowded \in BOOLEAN
    /\ MaxRecoveries \in Nat /\ MaxIterations \in Nat \ {0}
    /\ Delays \subseteq Nat /\ Waits \subseteq Nat
    /\ Faults \subseteq {"crash", "write"}

VARIABLES
    rec,      \* the record of each task, with the number of its saves for its savedOn
    age,      \* the ticks since each record was saved, as far as the grace period
    claim,    \* the claim record of each task
    picked,   \* the recoveries record of each task: pick-ups, and the saves at the last one
    trigger,  \* each task's trigger: its process, its step, its delay and the record it has read
    exec,     \* the execution of each task in each process
    line,     \* the tasks that wait for a slot in each process
    list,     \* each process's sweep: the records it has listed and not looked at yet
    sweep,    \* each process's sweep: the task it has taken, and what it is about to do with it
    life,     \* each process: off, up, stopping, dead
    crashes,  \* ghost: processes that died in each task's body since it saved its progress
    selfTaken \* ghost: whether a process's sweep ever took the task while that process drove it

vars == <<rec, age, claim, picked, trigger, exec, line, list, sweep, life, crashes, selfTaken>>

Statuses == {"none", "pending", "running", "success", "failed"}
Unfinished == {"pending", "running"}
Finished == {"success", "failed"}

NoClaim == [owner |-> None, left |-> 0]
Claim(p, n) == [owner |-> p, left |-> n]
Free(t) == claim[t].left = 0
HeldBy(p, t) == claim[t].left > 0 /\ claim[t].owner = p
Released(p, t) == IF HeldBy(p, t) THEN [claim EXCEPT ![t] = NoClaim] ELSE claim

Away == [stage |-> "none", delay |-> 0, wait |-> 0, lost |-> FALSE]
In(p, t, stage) == exec[p][t].stage = stage
Stage(p, t, stage) == exec' = [exec EXCEPT ![p][t].stage = stage]
Leaves(p, t) == exec' = [exec EXCEPT ![p][t] = Away]
InBody(p, t) == In(p, t, "body")
Holding(p, t) == exec[p][t].stage \in {"begun", "body"}

Unread == [status |-> "none", iterations |-> 0]
Triggered == [by |-> None, step |-> "done", delay |-> 0, read |-> Unread]

NoSweep == [task |-> None, saves |-> 0, step |-> "idle"]

Alive(p) == life[p] \in {"up", "stopping"}

\* The record saved with another content: its savedOn changes.
Save(t, status, iterations) ==
    /\ rec' = [rec EXCEPT ![t] = [status |-> status, iterations |-> iterations, saves |-> @.saves + 1]]
    /\ age' = [age EXCEPT ![t] = 0]

-----------------------------------------------------------------------------

Init ==
    /\ rec = [t \in Tasks |-> [status |-> "none", iterations |-> 0, saves |-> 0]]
    /\ age = [t \in Tasks |-> 0]
    /\ claim = [t \in Tasks |-> NoClaim]
    /\ picked = [t \in Tasks |-> [count |-> 0, saves |-> 0]]
    /\ trigger = [t \in Tasks |-> [by |-> None, step |-> "none", delay |-> 0, read |-> Unread]]
    /\ exec = [p \in Procs |-> [t \in Tasks |-> Away]]
    /\ line = [p \in Procs |-> << >>]
    /\ list = [p \in Procs |-> {}]
    /\ sweep = [p \in Procs |-> NoSweep]
    /\ life = [p \in Procs |-> "off"]
    /\ crashes = [t \in Tasks |-> 0]
    /\ selfTaken = [t \in Tasks |-> FALSE]

\* loop.start(): ignored while stopping, and for a task this process already drives.
Start(p, t, d) ==
    IF life[p] = "up" /\ In(p, t, "none")
      THEN /\ exec' = [exec EXCEPT ![p][t] = [Away EXCEPT !.stage = "queued", !.delay = d]]
           /\ line' = [line EXCEPT ![p] = Append(@, t)]
      ELSE UNCHANGED <<exec, line>>

-----------------------------------------------------------------------------
(* Triggers: BackgroundTaskService.trigger and InProcessTaskService.send.  *)

Create(p, t, d) ==
    /\ Alive(p) /\ rec[t].status = "none"
    /\ rec' = [rec EXCEPT ![t].status = "pending"]
    /\ trigger' = [trigger EXCEPT ![t] = [by |-> p, step |-> "created", delay |-> d, read |-> Unread]]
    /\ UNCHANGED <<age, claim, picked, exec, line, list, sweep, life, crashes, selfTaken>>

\* The task is claimed until it is due and a TTL more, if it can be, and started.
Send(p, t) ==
    LET d == trigger[t].delay
    IN  /\ trigger[t].by = p /\ trigger[t].step = "created"
        /\ \/ claim' = IF Free(t) THEN [claim EXCEPT ![t] = Claim(p, TTL + d)] ELSE claim
           \/ "write" \in Faults /\ UNCHANGED claim
        /\ Start(p, t, d)
        /\ trigger' = [trigger EXCEPT ![t].step = "sent"]
        /\ UNCHANGED <<rec, age, picked, list, sweep, life, crashes, selfTaken>>

\* The transport's answer is saved with the task: the record is read, and later written back with it.
ReadForResponse(p, t) ==
    /\ trigger[t].by = p /\ trigger[t].step = "sent"
    /\ trigger' = [trigger EXCEPT ![t].step = "read",
                                  ![t].read = [status |-> rec[t].status, iterations |-> rec[t].iterations]]
    /\ UNCHANGED <<rec, age, claim, picked, exec, line, list, sweep, life, crashes, selfTaken>>

SaveResponse(p, t) ==
    /\ trigger[t].by = p /\ trigger[t].step = "read"
    /\ Save(t, trigger[t].read.status, trigger[t].read.iterations)
    /\ trigger' = [trigger EXCEPT ![t] = Triggered]
    /\ UNCHANGED <<claim, picked, exec, line, list, sweep, life, crashes, selfTaken>>

-----------------------------------------------------------------------------
(* Recovery: RecoverTasksHandler.  A process runs one sweep at a time, over *)
(* a list it read once; the records may have changed since.                *)

\* Mutant: only running tasks are listed.
SweepListsRunning(p) ==
    /\ life[p] = "up" /\ list[p] = {} /\ sweep[p] = NoSweep
    /\ list' = [list EXCEPT ![p] =
          {[task |-> t, saves |-> rec[t].saves, age |-> age[t], pending |-> FALSE] :
             t \in {u \in Tasks : rec[u].status = "running"}}]
    /\ UNCHANGED <<rec, age, claim, picked, trigger, exec, line, sweep, life, crashes, selfTaken>>

SweepLists(p) ==
    /\ life[p] = "up" /\ list[p] = {} /\ sweep[p] = NoSweep
    /\ list' = [list EXCEPT ![p] =
          {[task |-> t, saves |-> rec[t].saves, age |-> age[t], pending |-> rec[t].status = "pending"] :
             t \in {u \in Tasks : rec[u].status \in Unfinished}}]
    /\ UNCHANGED <<rec, age, claim, picked, trigger, exec, line, sweep, life, crashes, selfTaken>>

IsJustTriggered(item) == item.pending /\ item.age < TTL

\* Skipped: stopping, just triggered, or held.
SweepSkips(p, item) ==
    /\ sweep[p] = NoSweep
    /\ life[p] = "stopping" \/ IsJustTriggered(item) \/ ~Free(item.task)
    /\ list' = [list EXCEPT ![p] = @ \ {item}]
    /\ UNCHANGED <<rec, age, claim, picked, trigger, exec, line, sweep, life, crashes, selfTaken>>

\* Mutant: the answer of take() is not looked at.
SweepTakesHeld(p, item) ==
    /\ sweep[p] = NoSweep
    /\ life[p] = "up" /\ ~IsJustTriggered(item)
    /\ claim' = IF Free(item.task) THEN [claim EXCEPT ![item.task] = Claim(p, TTL)] ELSE claim
    /\ list' = [list EXCEPT ![p] = @ \ {item}]
    /\ sweep' = [sweep EXCEPT ![p] = [task |-> item.task, saves |-> item.saves, step |-> "taken"]]
    /\ selfTaken' = [selfTaken EXCEPT ![item.task] = @ \/ ~In(p, item.task, "none")]
    /\ UNCHANGED <<rec, age, picked, trigger, exec, line, life, crashes>>

SweepTakes(p, item) ==
    /\ sweep[p] = NoSweep
    /\ life[p] = "up" /\ ~IsJustTriggered(item)
    /\ Free(item.task)
    /\ claim' = [claim EXCEPT ![item.task] = Claim(p, TTL)]
    /\ list' = [list EXCEPT ![p] = @ \ {item}]
    /\ sweep' = [sweep EXCEPT ![p] = [task |-> item.task, saves |-> item.saves, step |-> "taken"]]
    /\ selfTaken' = [selfTaken EXCEPT ![item.task] = @ \/ ~In(p, item.task, "none")]
    /\ UNCHANGED <<rec, age, picked, trigger, exec, line, life, crashes>>

\* KeyValueTaskRecoveries.record: one more, or the first since the task saved (counted as far as one
\* too many).
Recoveries(t, saves) ==
    IF picked[t].saves # saves THEN 1
    ELSE IF picked[t].count > MaxRecoveries THEN picked[t].count ELSE picked[t].count + 1

\* The pick-up is counted, and the task started unless it was picked up too often.
SweepRecords(p) ==
    LET t == sweep[p].task
        n == Recoveries(t, sweep[p].saves)
    IN  /\ sweep[p].step = "taken"
        /\ picked' = [picked EXCEPT ![t] = [count |-> n, saves |-> sweep[p].saves]]
        /\ IF n > MaxRecoveries
             THEN /\ sweep' = [sweep EXCEPT ![p].step = "failing"]
                  /\ UNCHANGED <<exec, line>>
             ELSE /\ sweep' = [sweep EXCEPT ![p] = NoSweep]
                  /\ Start(p, t, 0)
        /\ UNCHANGED <<rec, age, claim, trigger, list, life, crashes, selfTaken>>

\* The task is failed, whatever its record says by now.
SweepFails(p) ==
    /\ sweep[p].step = "failing"
    /\ Save(sweep[p].task, "failed", rec[sweep[p].task].iterations)
    /\ sweep' = [sweep EXCEPT ![p].step = "releasing"]
    /\ UNCHANGED <<claim, picked, trigger, exec, line, list, life, crashes, selfTaken>>

SweepReleases(p) ==
    /\ sweep[p].step = "releasing"
    /\ claim' = Released(p, sweep[p].task)
    /\ sweep' = [sweep EXCEPT ![p] = NoSweep]
    /\ UNCHANGED <<rec, age, picked, trigger, exec, line, list, life, crashes, selfTaken>>

\* A write of the sweep fails: the task is skipped.
SweepThrows(p) ==
    /\ "write" \in Faults
    /\ sweep[p] # NoSweep
    /\ sweep' = [sweep EXCEPT ![p] = NoSweep]
    /\ UNCHANGED <<rec, age, claim, picked, trigger, exec, line, list, life, crashes, selfTaken>>

-----------------------------------------------------------------------------
(* Iterations: TaskExecution, InProcessBackgroundTaskHandler, TaskRunner.  *)

SlotsUsed(p) == Cardinality({t \in Tasks : Holding(p, t)})

\* The first in line gets a slot, and runs if the claim is this process's or can be.
Begin(p, t) ==
    /\ line[p] # << >> /\ t = Head(line[p])
    /\ SlotsUsed(p) < Slots
    /\ line' = [line EXCEPT ![p] = Tail(@)]
    /\ IF HeldBy(p, t) \/ Free(t)
         THEN claim' = [claim EXCEPT ![t] = Claim(p, TTL)] /\ Stage(p, t, "begun")
         ELSE UNCHANGED claim /\ Leaves(p, t)
    /\ UNCHANGED <<rec, age, picked, trigger, list, sweep, life, crashes, selfTaken>>

\* The iteration is over for good: its claim is released, unless it was lost.
Ends(p, t) ==
    /\ claim' = IF exec[p][t].lost THEN claim ELSE Released(p, t)
    /\ Leaves(p, t)
    /\ UNCHANGED line

\* Mutant: the claim is extended by a TTL, and not past the wait.
GoesOnWithinTTL(p, t, w) ==
    IF exec[p][t].lost \/ ~HeldBy(p, t) THEN
        UNCHANGED <<claim, line>> /\ Leaves(p, t)
    ELSE
        /\ claim' = [claim EXCEPT ![t] = Claim(p, TTL)]
        /\ IF life[p] = "stopping" THEN Leaves(p, t) /\ UNCHANGED line
           ELSE IF w > 0 THEN /\ exec' = [exec EXCEPT ![p][t] = [Away EXCEPT !.stage = "sleeping", !.wait = w]]
                              /\ UNCHANGED line
           ELSE /\ exec' = [exec EXCEPT ![p][t] = [Away EXCEPT !.stage = "queued"]]
                /\ line' = [line EXCEPT ![p] = Append(@, t)]

\* The iteration is over and another follows after w.
GoesOn(p, t, w) ==
    IF exec[p][t].lost THEN
        UNCHANGED <<claim, line>> /\ Leaves(p, t)
    ELSE IF life[p] = "stopping" /\ w = 0 THEN
        claim' = Released(p, t) /\ Leaves(p, t) /\ UNCHANGED line
    ELSE IF ~HeldBy(p, t) THEN
        UNCHANGED <<claim, line>> /\ Leaves(p, t)
    ELSE
        /\ claim' = [claim EXCEPT ![t] = Claim(p, TTL + w)]
        /\ IF life[p] = "stopping" THEN Leaves(p, t) /\ UNCHANGED line
           ELSE IF w > 0 THEN /\ exec' = [exec EXCEPT ![p][t] = [Away EXCEPT !.stage = "sleeping", !.wait = w]]
                              /\ UNCHANGED line
           ELSE /\ exec' = [exec EXCEPT ![p][t] = [Away EXCEPT !.stage = "queued"]]
                /\ line' = [line EXCEPT ![p] = Append(@, t)]

\* The first event carries the trigger's delay: it is answered with a wait, and nothing runs.
AnswersDelay(p, t) ==
    /\ In(p, t, "begun") /\ exec[p][t].delay > 0
    /\ GoesOn(p, t, exec[p][t].delay)
    /\ UNCHANGED <<rec, age, picked, trigger, list, sweep, life, crashes, selfTaken>>

\* The record says the task is finished: it does not run again.
FindsFinished(p, t) ==
    /\ In(p, t, "begun") /\ exec[p][t].delay = 0
    /\ rec[t].status \in Finished
    /\ Ends(p, t)
    /\ UNCHANGED <<rec, age, picked, trigger, list, sweep, life, crashes, selfTaken>>

\* Mutants: an iteration past the limit; an iteration whatever the record says.
StartsBodyPastLimit(p, t) ==
    /\ In(p, t, "begun") /\ exec[p][t].delay = 0
    /\ rec[t].status \in Unfinished
    /\ Save(t, "running", rec[t].iterations + 1)
    /\ Stage(p, t, "body")
    /\ UNCHANGED <<claim, picked, trigger, line, list, sweep, life, crashes, selfTaken>>

StartsBodyAnyway(p, t) ==
    /\ In(p, t, "begun") /\ exec[p][t].delay = 0
    /\ rec[t].iterations < MaxIterations
    /\ Save(t, "running", rec[t].iterations + 1)
    /\ Stage(p, t, "body")
    /\ UNCHANGED <<claim, picked, trigger, line, list, sweep, life, crashes, selfTaken>>

\* The iteration is counted and saved, and the task's own code runs.
StartsBody(p, t) ==
    /\ In(p, t, "begun") /\ exec[p][t].delay = 0
    /\ \/ rec[t].status = "pending" /\ Save(t, "running", 1)
       \/ /\ rec[t].status = "running" /\ rec[t].iterations < MaxIterations
          /\ Save(t, "running", rec[t].iterations + 1)
    /\ Stage(p, t, "body")
    /\ UNCHANGED <<claim, picked, trigger, line, list, sweep, life, crashes, selfTaken>>

\* The task has had all its iterations.
ReachesMaxIterations(p, t) ==
    /\ In(p, t, "begun") /\ exec[p][t].delay = 0
    /\ rec[t].status = "running" /\ rec[t].iterations >= MaxIterations
    /\ Save(t, "failed", rec[t].iterations)
    /\ Ends(p, t)
    /\ UNCHANGED <<picked, trigger, list, sweep, life, crashes, selfTaken>>

\* The task asks to go on: its progress is saved, and the record says running whatever it said.
Continues(p, t, w) ==
    /\ InBody(p, t)
    /\ Save(t, "running", rec[t].iterations)
    /\ GoesOn(p, t, w)
    /\ crashes' = [crashes EXCEPT ![t] = 0]
    /\ UNCHANGED <<picked, trigger, list, sweep, life, selfTaken>>

\* The task is done or failed; an outcome that cannot be saved is answered all the same.
Finishes(p, t, outcome) ==
    /\ InBody(p, t)
    /\ \/ Save(t, outcome, rec[t].iterations)
       \/ "write" \in Faults /\ UNCHANGED <<rec, age>>
    /\ Ends(p, t)
    /\ UNCHANGED <<picked, trigger, list, sweep, life, crashes, selfTaken>>

Wakes(p, t) ==
    /\ In(p, t, "sleeping") /\ exec[p][t].wait = 0
    /\ Stage(p, t, "queued")
    /\ line' = [line EXCEPT ![p] = Append(@, t)]
    /\ UNCHANGED <<rec, age, claim, picked, trigger, list, sweep, life, crashes, selfTaken>>

-----------------------------------------------------------------------------
(* Processes and time.                                                     *)

Boot(p) ==
    /\ life[p] = "off"
    /\ life' = [life EXCEPT ![p] = "up"]
    /\ UNCHANGED <<rec, age, claim, picked, trigger, exec, line, list, sweep, crashes, selfTaken>>

\* loop.stop(): those in line and those asleep end; running iterations save and hand back in time.
Stop(p) ==
    /\ life[p] = "up" /\ p # Survivor
    /\ life' = [life EXCEPT ![p] = "stopping"]
    /\ exec' = [exec EXCEPT ![p] = [t \in Tasks |->
                  IF @[t].stage \in {"queued", "sleeping"} THEN Away ELSE @[t]]]
    /\ line' = [line EXCEPT ![p] = << >>]
    /\ UNCHANGED <<rec, age, claim, picked, trigger, list, sweep, crashes, selfTaken>>

Idle(p) ==
    /\ \A t \in Tasks : In(p, t, "none") /\ trigger[t].by # p
    /\ sweep[p] = NoSweep

\* The end of a shutdown in which everything was handed back, or a crash.
Exit(p) ==
    /\ Alive(p) /\ p # Survivor
    /\ (life[p] = "stopping" /\ Idle(p)) \/ "crash" \in Faults
    /\ life' = [life EXCEPT ![p] = "dead"]
    /\ crashes' = [t \in Tasks |-> IF InBody(p, t) THEN crashes[t] + 1 ELSE crashes[t]]
    /\ exec' = [exec EXCEPT ![p] = [t \in Tasks |-> Away]]
    /\ line' = [line EXCEPT ![p] = << >>]
    /\ list' = [list EXCEPT ![p] = {}]
    /\ sweep' = [sweep EXCEPT ![p] = NoSweep]
    /\ trigger' = [t \in Tasks |-> IF trigger[t].by = p THEN Triggered ELSE trigger[t]]
    /\ UNCHANGED <<rec, age, claim, picked, selfTaken>>

Less(n) == IF n = 0 THEN 0 ELSE n - 1
Older(n) == IF n < TTL THEN n + 1 ELSE n

\* Mutant: a claim is never renewed.
AgedUnrenewed(t) ==
    IF claim[t].left <= 1 THEN NoClaim ELSE [claim[t] EXCEPT !.left = @ - 1]

\* A claim is renewed as long as its owner runs the task, and ages otherwise.
Aged(t) ==
    LET c == claim[t]
    IN  IF c.left > 0 /\ Holding(c.owner, t) THEN Claim(c.owner, TTL)
        ELSE IF c.left <= 1 THEN NoClaim ELSE [c EXCEPT !.left = @ - 1]

\* Time does not pass what a process can do at once: claim a new task within the grace period, use a
\* slot that is free, wake up, finish with a swept task.
Prompt(p) ==
    /\ \A t \in Tasks : trigger[t].by = p /\ trigger[t].step = "created" => age[t] + 1 < TTL
    /\ line[p] # << >> => Crowded \/ SlotsUsed(p) = Slots
    /\ \A t \in Tasks : In(p, t, "sleeping") => exec[p][t].wait > 0
    /\ sweep[p] = NoSweep

Tick ==
    /\ \A p \in Procs : Prompt(p)
    /\ claim' = [t \in Tasks |-> Aged(t)]
    /\ age' = [t \in Tasks |-> IF rec[t].status = "none" THEN 0 ELSE Older(age[t])]
    /\ exec' = [p \in Procs |-> [t \in Tasks |->
                  [exec[p][t] EXCEPT !.wait = Less(@), !.lost = @ \/ (Holding(p, t) /\ ~HeldBy(p, t))]]]
    /\ list' = [p \in Procs |-> {[item EXCEPT !.age = Older(@)] : item \in list[p]}]
    /\ UNCHANGED <<rec, picked, trigger, line, sweep, life, crashes, selfTaken>>

-----------------------------------------------------------------------------

Triggering(p, t) ==
    \/ \E d \in Delays : Create(p, t, d)
    \/ Send(p, t) \/ ReadForResponse(p, t) \/ SaveResponse(p, t)

Sweeping(p) ==
    \/ SweepLists(p)
    \/ \E item \in list[p] : SweepSkips(p, item) \/ SweepTakes(p, item)
    \/ SweepRecords(p) \/ SweepFails(p) \/ SweepReleases(p) \/ SweepThrows(p)

Iterating(p, t) ==
    \/ Begin(p, t) \/ AnswersDelay(p, t) \/ FindsFinished(p, t)
    \/ StartsBody(p, t) \/ ReachesMaxIterations(p, t)
    \/ \E w \in Waits : Continues(p, t, w)
    \/ \E outcome \in Finished : Finishes(p, t, outcome)
    \/ Wakes(p, t)

Next ==
    \/ \E p \in Procs, t \in Tasks : Triggering(p, t) \/ Iterating(p, t)
    \/ \E p \in Procs : Sweeping(p) \/ Boot(p) \/ Stop(p) \/ Exit(p)
    \/ Tick

Spec == Init /\ [][Next]_vars

\* Time passes, processes do their work, the survivor comes up, and a sweep's writes that are tried
\* again and again succeed in the end.
Fairness ==
    /\ WF_vars(Tick)
    /\ \A p \in Procs :
          /\ WF_vars(p = Survivor /\ Boot(p))
          /\ WF_vars(Sweeping(p))
          /\ SF_vars(SweepRecords(p)) /\ SF_vars(SweepFails(p))
          /\ \A t \in Tasks :
                /\ WF_vars(Iterating(p, t))
                /\ WF_vars(Send(p, t) \/ ReadForResponse(p, t) \/ SaveResponse(p, t))

FairSpec == Spec /\ Fairness

-----------------------------------------------------------------------------
(* Properties.                                                             *)

\* The variables hold values of their types.
TypeOK ==
    /\ rec \in [Tasks -> [status : Statuses, iterations : 0..MaxIterations, saves : Nat]]
    /\ age \in [Tasks -> 0..TTL]
    /\ claim \in [Tasks -> [owner : Procs \cup {None}, left : Nat]]
    /\ picked \in [Tasks -> [count : Nat, saves : Nat]]
    /\ trigger \in [Tasks -> [by : Procs \cup {None}, step : {"none", "created", "sent", "read", "done"}, delay : Nat,
                            read : [status : Statuses, iterations : 0..MaxIterations]]]
    /\ exec \in [Procs -> [Tasks -> [stage : {"none", "queued", "begun", "body", "sleeping"},
                                     delay : Nat, wait : Nat, lost : BOOLEAN]]]
    /\ line \in [Procs -> Seq(Tasks)]
    /\ list \in [Procs -> SUBSET [task : Tasks, saves : Nat, age : 0..TTL, pending : BOOLEAN]]
    /\ sweep \in [Procs -> [task : Tasks \cup {None}, saves : Nat,
                            step : {"idle", "taken", "failing", "releasing"}]]
    /\ life \in [Procs -> {"off", "up", "stopping", "dead"}]
    /\ crashes \in [Tasks -> Nat]
    /\ selfTaken \in [Tasks -> BOOLEAN]

\* Two things happen that the code says do not: a task that waits in line with nothing renewing its
\* claim is taken by its own process's sweep, which then starts or fails it beside the execution in
\* line; and the trigger's answer is written back over an outcome.  The properties name them: they hold
\* of a task that was not taken so, and of every step but that write.

\* Seen as the processes that hold each task's claim for an iteration, the tasks with their recovery
\* behave as ExclusiveRuns does, so an iteration also begins only when no other process is in one.
Exclusive == INSTANCE ExclusiveRuns
                WITH runners <- [t \in Tasks |-> {p \in Procs : Holding(p, t) /\ ~selfTaken[t]}]
ImplementsExclusiveRuns == Exclusive!Spec

\* A task whose outcome is recorded does not become unfinished again.
FinishedStaysFinished ==
    [][\A t \in Tasks :
          rec[t].status \in Finished /\ ~selfTaken[t]
             => rec'[t].status \in Finished \/ (trigger[t].step = "read" /\ trigger'[t].step = "done")]_vars

\* A process that runs a task, or sleeps between two iterations of it, has its claim; in line for a
\* slot the claim may run out.
RunningIsClaimed ==
    \A p \in Procs, t \in Tasks :
       exec[p][t].stage \in {"begun", "body", "sleeping"} /\ ~selfTaken[t] => HeldBy(p, t)

\* Recovery fails only a task that stopped with its process or waits in a line: no task that a process
\* is running or sleeps on, and none that it could begin to run meanwhile.
DrivenIsNotGivenUp ==
    \A p, q \in Procs, t \in Tasks :
       sweep[p].task = t /\ sweep[p].step = "failing" /\ ~selfTaken[t]
          => In(q, t, "none") \/ (In(q, t, "queued") /\ q # p)

\* A task that takes its server down is not resumed on every start: it does so MaxRecoveries times
\* after the first, unless it saves its progress.
CrashLoopEnds ==
    \A t \in Tasks : crashes[t] <= MaxRecoveries + 1

\* As long as one process stays up, every task that was triggered is finished in the end.
TasksFinish ==
    \A t \in Tasks : rec[t].status = "pending" ~> rec[t].status \in Finished
=============================================================================
