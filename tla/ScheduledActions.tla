-------------------------- MODULE ScheduledActions --------------------------
(***************************************************************************)
(* Scheduled actions in a standalone deployment: entries in the database,  *)
(* timers in every process, a recovery that compares the two each minute,  *)
(* and a claim per action and due time that lets one process run it        *)
(* (packages/api-scheduler, packages/api-scheduler-standalone, and         *)
(* packages/api-event-handler-standalone/src/scheduler).                   *)
(*                                                                         *)
(* A tick is about a minute, the lead a schedule needs.  The clock stops   *)
(* at Horizon, when every due time there is has passed, but time goes on:  *)
(* a claim counts its remaining ticks down.  One step is what happens      *)
(* between two awaits on the database or the timers.                       *)
(***************************************************************************)
EXTENDS Integers

CONSTANTS
    Actions,
    Procs,        \* processes of the deployment; one that restarts keeps its name
    None,
    Horizon,      \* the latest due time
    Early,        \* EARLY_TOLERANCE_MS, in ticks
    RunClaim,     \* RUN_CLAIM_MS, in ticks
    RetryAfter,   \* RETRY_AFTER_FAILURE_MS, in ticks
    MaxRequests,  \* bound: schedulings and cancellations
    MaxFaults     \* bound: handlers and deletes that fail, crashes and shutdowns

Dues == 1..Horizon
Sources == {"timer", "recovery"}

ASSUME SchedulerAssumption ==
    /\ None \notin Dues
    /\ Horizon \in Nat /\ Early \in Nat
    /\ RunClaim \in Nat \ {0} /\ RetryAfter \in Nat
    /\ RunClaim <= RetryAfter
    /\ MaxRequests \in Nat /\ MaxFaults \in Nat

VARIABLES
    now,
    entry,    \* the stored actions: the due time of each that is scheduled
    claim,    \* the ticks left of the claim on an action at a due time, 0 when there is none
    jobs,     \* each process's record of what it armed, and for when
    timers,   \* its live timers
    fired,    \* timers whose message has not reached the scheduler yet
    runs,     \* the run of each of its two triggers, the timers' and recovery's
    sweep,    \* its recovery under way: what it has still to look at
    request,  \* the scheduling or cancellation it is carrying out
    stopped,  \* whether it was told to stop
    used      \* requests and faults so far

vars == <<now, entry, claim, jobs, timers, fired, runs, sweep, request, stopped, used>>
process == <<jobs, timers, fired>>
clock == <<now, stopped>>

RunStages ==
    {"read",     \* fired: about to read the action
     "claim",    \* it is due: about to take the claim
     "load",     \* the claim is taken: about to read the action again
     "handle",   \* about to run its handler
     "delete",   \* the handler succeeded
     "blame",    \* the handler, or the delete, threw: about to read the entry that gets the error
     "save",     \* about to write that entry back
     "hold"}     \* failed: about to hold the claim

\* What a run does under its claim.
Claimed == RunStages \ {"read", "claim"}

Run == [stage : RunStages, action : Actions, due : Dues \cup {None},
        left : 0..RunClaim,            \* ticks left of the claim it took
        seen : Dues \cup {None}]       \* the due time in the entry it is about to write back
ASSUME NoneIsNoRun == None \notin Run

NewRun(a) == [stage |-> "read", action |-> a, due |-> None, left |-> 0, seen |-> None]

RequestStages == {"create", "update", "rearm", "arm", "rollback", "unarm", "drop"}
Request == [stage : RequestStages, action : Actions, due : Dues \cup {None}, fresh : BOOLEAN]

\* What recovery has still to look at: the overdue actions, the others with their due times, and of
\* these the one, if any, whose old timer it is removing before it arms it.
Pending == [overdue : SUBSET Actions, upcoming : SUBSET (Actions \X Dues),
            moved : SUBSET (Actions \X Dues)]

At(p, s, stage) == runs[p][s] # None /\ runs[p][s].stage = stage
Asked(p, stage) == request[p] # None /\ request[p].stage = stage
Scheduled(a) == entry[a] # None
Overdue(d, t) == d <= t

-----------------------------------------------------------------------------
Init ==
    /\ now = 0
    /\ entry \in [Actions -> Dues \cup {None}]
    /\ claim = [a \in Actions |-> [d \in Dues |-> 0]]
    /\ jobs = [p \in Procs |-> [a \in Actions |-> None]]
    /\ timers = [p \in Procs |-> [a \in Actions |-> None]]
    /\ fired = [p \in Procs |-> {}]
    /\ runs = [p \in Procs |-> [s \in Sources |-> None]]
    /\ sweep = [p \in Procs |-> None]
    /\ request = [p \in Procs |-> None]
    /\ stopped = [p \in Procs |-> FALSE]
    /\ used = [requests |-> 0, faults |-> 0]

\* Mutant: a claim that has run out goes on counting.
LapsePastZero(n) == n - 1

Lapse(n) == IF n = 0 THEN 0 ELSE n - 1

Tick ==
    /\ now' = IF now < Horizon THEN now + 1 ELSE now
    /\ claim' = [a \in Actions |-> [d \in Dues |-> Lapse(claim[a][d])]]
    /\ runs' = [p \in Procs |-> [s \in Sources |->
                  IF runs[p][s] = None THEN None ELSE [runs[p][s] EXCEPT !.left = Lapse(@)]]]
    /\ UNCHANGED <<entry, process, sweep, request, stopped, used>>

-----------------------------------------------------------------------------
(* The timers of a process: jobs is its own record, timers is Bree.        *)

Removed(f, p, a) == [f EXCEPT ![p][a] = None]

\* arm, in a process not told to stop: the record first, then the timer.  Bree may refuse it, and
\* skip a time that has passed.
Arm(p, a, d, ok) ==
    /\ jobs' = [jobs EXCEPT ![p][a] = d]
    /\ \/ ok /\ timers' = [timers EXCEPT ![p][a] = d]
       \/ (Overdue(d, now) \/ ~ok) /\ timers' = timers

\* safeRemove.
RemoveTimer(p, a) ==
    /\ jobs' = Removed(jobs, p, a)
    /\ timers' = Removed(timers, p, a)

\* A timer goes off, early by the tolerance at most: its worker posts a message and ends.
Fire(p, a) ==
    /\ timers[p][a] # None /\ timers[p][a] <= now + Early
    /\ timers' = Removed(timers, p, a)
    /\ fired' = [fired EXCEPT ![p] = @ \cup {a}]
    /\ UNCHANGED <<clock, entry, claim, jobs, runs, sweep, request, used>>

\* trigger: a process told to stop starts nothing.
Trigger(p, s, a) ==
    runs' = IF stopped[p] THEN runs ELSE [runs EXCEPT ![p][s] = NewRun(a)]

\* The message reaches the scheduler, which may have forgotten the job or armed it anew by now.
\* Bound: a process handles one firing at a time.
HandleFired(p, a) ==
    /\ a \in fired[p] /\ runs[p]["timer"] = None
    /\ fired' = [fired EXCEPT ![p] = @ \ {a}]
    /\ jobs' = Removed(jobs, p, a)
    /\ IF jobs[p][a] = None THEN runs' = runs ELSE Trigger(p, "timer", a)
    /\ UNCHANGED <<clock, entry, claim, timers, sweep, request, used>>

-----------------------------------------------------------------------------
(* Recovery.                                                               *)

\* Mutant: recovery arms timers only.
SweepToArm(p) ==
    /\ ~stopped[p] /\ sweep[p] = None
    /\ sweep' = [sweep EXCEPT ![p] =
          [overdue |-> {},
           upcoming |-> {i \in Actions \X Dues : entry[i[1]] = i[2] /\ ~Overdue(i[2], now)},
           moved |-> {}]]
    /\ UNCHANGED <<clock, entry, claim, process, runs, request, used>>

\* Recovery lists what is scheduled, and compares it with the time it has then; it never overlaps
\* itself.
StartSweep(p) ==
    /\ ~stopped[p] /\ sweep[p] = None
    /\ sweep' = [sweep EXCEPT ![p] =
          [overdue |-> {a \in Actions : Scheduled(a) /\ Overdue(entry[a], now)},
           upcoming |-> {i \in Actions \X Dues : entry[i[1]] = i[2] /\ ~Overdue(i[2], now)},
           moved |-> {}]]
    /\ UNCHANGED <<clock, entry, claim, process, runs, request, used>>

\* It goes on with the next action once what it triggered has ended, and what it removed is armed.
Sweeping(p) == sweep[p] # None /\ runs[p]["recovery"] = None
LooksOn(p) == Sweeping(p) /\ sweep[p].moved = {}

SweepOverdue(p, a) ==
    /\ LooksOn(p) /\ ~stopped[p] /\ a \in sweep[p].overdue
    /\ Trigger(p, "recovery", a)
    /\ sweep' = [sweep EXCEPT ![p].overdue = @ \ {a}]
    /\ UNCHANGED <<clock, entry, claim, process, request, used>>

\* A timer that is refused ends the recovery of the tenant.
SweepArms(p, a, d) ==
    \E ok \in BOOLEAN :
       /\ Arm(p, a, d, ok)
       /\ sweep' = IF ok THEN [sweep EXCEPT ![p].upcoming = @ \ {<<a, d>>}, ![p].moved = {}]
                   ELSE [sweep EXCEPT ![p] = None]

\* An action not due yet is left as it is when it is armed for that time, armed when it is not, and
\* when it is armed for another time, that timer is removed first.
SweepUpcoming(p, a, d) ==
    /\ LooksOn(p) /\ ~stopped[p] /\ <<a, d>> \in sweep[p].upcoming
    /\ \/ /\ jobs[p][a] = d
          /\ sweep' = [sweep EXCEPT ![p].upcoming = @ \ {<<a, d>>}]
          /\ UNCHANGED <<jobs, timers>>
       \/ /\ jobs[p][a] \notin {d, None}
          /\ RemoveTimer(p, a)
          /\ sweep' = [sweep EXCEPT ![p].moved = {<<a, d>>}]
       \/ jobs[p][a] = None /\ SweepArms(p, a, d)
    /\ UNCHANGED <<clock, entry, claim, fired, runs, request, used>>

\* After the awaits of safeRemove, it arms the action without looking at the record again.
SweepMoved(p, a, d) ==
    /\ Sweeping(p) /\ ~stopped[p] /\ <<a, d>> \in sweep[p].moved
    /\ SweepArms(p, a, d)
    /\ UNCHANGED <<clock, entry, claim, fired, runs, request, used>>

EndSweep(p) ==
    /\ Sweeping(p) /\ (stopped[p] \/ sweep[p] = [overdue |-> {}, upcoming |-> {}, moved |-> {}])
    /\ sweep' = [sweep EXCEPT ![p] = None]
    /\ UNCHANGED <<clock, entry, claim, process, runs, request, used>>

-----------------------------------------------------------------------------
(* A fired action: RunScheduledActionOnceDecorator, and inside it          *)
(* ExecuteScheduledAction.                                                 *)

Goes(p, s, stage) == runs' = [runs EXCEPT ![p][s].stage = stage]
Ends(p, s) == runs' = [runs EXCEPT ![p][s] = None]

\* The action is read: gone, or due later, and there is nothing to do.
ReadDue(p, s) ==
    /\ At(p, s, "read")
    /\ LET d == entry[runs[p][s].action]
       IN  IF d # None /\ d <= now + Early
             THEN runs' = [runs EXCEPT ![p][s] = [@ EXCEPT !.stage = "claim", !.due = d]]
             ELSE Ends(p, s)
    /\ UNCHANGED <<clock, entry, claim, process, sweep, request, used>>

\* Mutant: a claim written without looking whether there is one.
TakeAnyway(p, s) ==
    /\ At(p, s, "claim")
    /\ claim' = [claim EXCEPT ![runs[p][s].action][runs[p][s].due] = RunClaim]
    /\ runs' = [runs EXCEPT ![p][s] = [@ EXCEPT !.stage = "load", !.left = RunClaim]]
    /\ UNCHANGED <<clock, entry, process, sweep, request, used>>

\* The claim is taken when nobody holds one on the action at this due time.
TakeClaim(p, s) ==
    /\ At(p, s, "claim")
    /\ LET a == runs[p][s].action
           d == runs[p][s].due
       IN  IF claim[a][d] = 0
             THEN /\ claim' = [claim EXCEPT ![a][d] = RunClaim]
                  /\ runs' = [runs EXCEPT ![p][s] = [@ EXCEPT !.stage = "load", !.left = RunClaim]]
             ELSE Ends(p, s) /\ claim' = claim
    /\ UNCHANGED <<clock, entry, process, sweep, request, used>>

\* The action is read once more, to run it: an action gone by now is a failure.
LoadAction(p, s) ==
    /\ At(p, s, "load")
    /\ Goes(p, s, IF Scheduled(runs[p][s].action) THEN "handle" ELSE "hold")
    /\ UNCHANGED <<clock, entry, claim, process, sweep, request, used>>

Handled(p, s) ==
    /\ At(p, s, "handle")
    /\ Goes(p, s, "delete")
    /\ UNCHANGED <<clock, entry, claim, process, sweep, request, used>>

\* The handler throws, or there is none.
HandlerFails(p, s) ==
    /\ At(p, s, "handle")
    /\ used.faults < MaxFaults
    /\ used' = [used EXCEPT !.faults = @ + 1]
    /\ Goes(p, s, "blame")
    /\ UNCHANGED <<clock, entry, claim, process, sweep, request>>

\* The entry of an action that ran is deleted, whatever its due time is by now.
DeleteEntry(p, s) ==
    /\ At(p, s, "delete")
    /\ LET a == runs[p][s].action
       IN  IF Scheduled(a)
             THEN entry' = [entry EXCEPT ![a] = None] /\ Ends(p, s)
             ELSE entry' = entry /\ Goes(p, s, "hold")
    /\ UNCHANGED <<clock, claim, process, sweep, request, used>>

\* The delete fails and the entry stays: an error it throws is saved as the handler's would be, one
\* it returns is not.
DeleteFails(p, s) ==
    /\ At(p, s, "delete")
    /\ used.faults < MaxFaults
    /\ used' = [used EXCEPT !.faults = @ + 1]
    /\ \E g \in {"blame", "hold"} : Goes(p, s, g)
    /\ UNCHANGED <<clock, entry, claim, process, sweep, request>>

\* The error is saved by an update, which reads the entry and writes all of it back.
ReadToBlame(p, s) ==
    /\ At(p, s, "blame")
    /\ LET d == entry[runs[p][s].action]
       IN  IF d # None
             THEN runs' = [runs EXCEPT ![p][s] = [@ EXCEPT !.stage = "save", !.seen = d]]
             ELSE Goes(p, s, "hold")
    /\ UNCHANGED <<clock, entry, claim, process, sweep, request, used>>

SaveError(p, s) ==
    /\ At(p, s, "save")
    /\ LET a == runs[p][s].action
       IN  entry' = IF Scheduled(a) THEN [entry EXCEPT ![a] = runs[p][s].seen] ELSE entry
    /\ runs' = [runs EXCEPT ![p][s] = [@ EXCEPT !.stage = "hold", !.seen = None]]
    /\ UNCHANGED <<clock, claim, process, sweep, request, used>>

\* Mutant: a run that failed gives the claim back, whoever's it is by now.
GiveBack(p, s) ==
    /\ At(p, s, "hold")
    /\ claim' = [claim EXCEPT ![runs[p][s].action][runs[p][s].due] = 0]
    /\ Ends(p, s)
    /\ UNCHANGED <<clock, entry, process, sweep, request, used>>

\* holdAfterFailure: whoever's the claim is by now.
HoldAfterFailure(p, s) ==
    /\ At(p, s, "hold")
    /\ claim' = [claim EXCEPT ![runs[p][s].action][runs[p][s].due] = RetryAfter]
    /\ Ends(p, s)
    /\ UNCHANGED <<clock, entry, process, sweep, request, used>>

RunStep(p, s) ==
    \/ ReadDue(p, s) \/ TakeClaim(p, s) \/ LoadAction(p, s)
    \/ Handled(p, s) \/ HandlerFails(p, s)
    \/ DeleteEntry(p, s) \/ DeleteFails(p, s) \/ ReadToBlame(p, s) \/ SaveError(p, s)
    \/ HoldAfterFailure(p, s)

-----------------------------------------------------------------------------
(* Scheduling and cancelling, through any process.  An entry is read again *)
(* right before it is written; both reads are one step here, as finding it *)
(* gone at the second ends the request without effect.                     *)

Continues(p, stage) == request' = [request EXCEPT ![p].stage = stage]
Answered(p) == request' = [request EXCEPT ![p] = None]
Target(p) == request[p].action

\* ScheduleAction looks the action up.  A date must lie ahead, unless the action is to run at once: a
\* new schedule then gets the soonest time there is, and an existing one the date that was passed.
AskToSchedule(p, a, d, immediately) ==
    /\ request[p] = None /\ used.requests < MaxRequests
    /\ now < Horizon /\ (immediately \/ now < d)
    /\ used' = [used EXCEPT !.requests = @ + 1]
    /\ request' = [request EXCEPT ![p] =
          IF Scheduled(a)
            THEN [stage |-> "update", action |-> a, due |-> d, fresh |-> FALSE]
            ELSE [stage |-> "create", action |-> a,
                  due |-> IF immediately THEN now + 1 ELSE d, fresh |-> TRUE]]
    /\ UNCHANGED <<clock, entry, claim, process, runs, sweep>>

\* The entry's id is the action's: one that was created meanwhile makes this fail.
CreateEntry(p) ==
    /\ Asked(p, "create")
    /\ IF Scheduled(Target(p))
         THEN Answered(p) /\ entry' = entry
         ELSE /\ entry' = [entry EXCEPT ![Target(p)] = request[p].due]
              /\ Continues(p, "arm")
    /\ UNCHANGED <<clock, claim, process, runs, sweep, used>>

\* Updating an entry that was deleted meanwhile changes no row, and succeeds.
UpdateEntry(p) ==
    /\ Asked(p, "update")
    /\ entry' = IF Scheduled(Target(p)) THEN [entry EXCEPT ![Target(p)] = request[p].due] ELSE entry
    /\ Continues(p, "rearm")
    /\ UNCHANGED <<clock, claim, process, runs, sweep, used>>

\* The timer could not be set: a new entry is deleted again, an updated one stays.
TimerFails(p) == IF request[p].fresh THEN Continues(p, "rollback") ELSE Answered(p)

\* BreeSchedulerService.update, up to its call of create.
UpdateTimer(p) ==
    /\ Asked(p, "rearm")
    /\ IF Overdue(request[p].due, now)
         THEN TimerFails(p) /\ UNCHANGED <<jobs, timers>>
         ELSE RemoveTimer(p, Target(p)) /\ Continues(p, "arm")
    /\ UNCHANGED <<clock, entry, claim, fired, runs, sweep, used>>

\* BreeSchedulerService.create.
CreateTimer(p) ==
    /\ Asked(p, "arm")
    /\ IF Overdue(request[p].due, now)
         THEN TimerFails(p) /\ UNCHANGED <<jobs, timers>>
         ELSE \/ /\ jobs[p][Target(p)] # None
                 /\ Continues(p, "rearm")
                 /\ UNCHANGED <<jobs, timers>>
              \/ /\ jobs[p][Target(p)] = None
                 /\ IF stopped[p]
                      THEN Answered(p) /\ UNCHANGED <<jobs, timers>>
                      ELSE \E ok \in BOOLEAN :
                              /\ Arm(p, Target(p), request[p].due, ok)
                              /\ IF ok THEN Answered(p) ELSE TimerFails(p)
    /\ UNCHANGED <<clock, entry, claim, fired, runs, sweep, used>>

RollBack(p) ==
    /\ Asked(p, "rollback")
    /\ entry' = [entry EXCEPT ![Target(p)] = None]
    /\ Answered(p)
    /\ UNCHANGED <<clock, claim, process, runs, sweep, used>>

\* CancelScheduledAction: the timer of this process, if it has one, and the entry.
AskToCancel(p, a) ==
    /\ request[p] = None /\ used.requests < MaxRequests
    /\ Scheduled(a)
    /\ used' = [used EXCEPT !.requests = @ + 1]
    /\ request' = [request EXCEPT ![p] =
                     [stage |-> "unarm", action |-> a, due |-> None, fresh |-> FALSE]]
    /\ UNCHANGED <<clock, entry, claim, process, runs, sweep>>

CancelTimer(p) ==
    /\ Asked(p, "unarm")
    /\ IF jobs[p][Target(p)] # None THEN RemoveTimer(p, Target(p)) ELSE UNCHANGED <<jobs, timers>>
    /\ Continues(p, "drop")
    /\ UNCHANGED <<clock, entry, claim, fired, runs, sweep, used>>

CancelEntry(p) ==
    /\ Asked(p, "drop")
    /\ entry' = [entry EXCEPT ![Target(p)] = None]
    /\ Answered(p)
    /\ UNCHANGED <<clock, claim, process, runs, sweep, used>>

RequestStep(p) ==
    \/ CreateEntry(p) \/ UpdateEntry(p) \/ UpdateTimer(p) \/ CreateTimer(p) \/ RollBack(p)
    \/ CancelTimer(p) \/ CancelEntry(p)

-----------------------------------------------------------------------------
(* The processes.                                                          *)

\* The shutdown stops the timers and the start of anything new.
Stop(p) ==
    /\ ~stopped[p] /\ used.faults < MaxFaults
    /\ used' = [used EXCEPT !.faults = @ + 1]
    /\ stopped' = [stopped EXCEPT ![p] = TRUE]
    /\ timers' = [timers EXCEPT ![p] = [a \in Actions |-> None]]
    /\ UNCHANGED <<now, entry, claim, jobs, fired, runs, sweep, request>>

\* A process is gone, with everything it held in memory and had under way, and another starts in its
\* place: after a shutdown, which waits for its runs only so long, or by a crash.
Restart(p) ==
    /\ \/ stopped[p] /\ used' = used
       \/ used.faults < MaxFaults /\ used' = [used EXCEPT !.faults = @ + 1]
    /\ jobs' = [jobs EXCEPT ![p] = [a \in Actions |-> None]]
    /\ timers' = [timers EXCEPT ![p] = [a \in Actions |-> None]]
    /\ fired' = [fired EXCEPT ![p] = {}]
    /\ runs' = [runs EXCEPT ![p] = [s \in Sources |-> None]]
    /\ sweep' = [sweep EXCEPT ![p] = None]
    /\ request' = [request EXCEPT ![p] = None]
    /\ stopped' = [stopped EXCEPT ![p] = FALSE]
    /\ UNCHANGED <<now, entry, claim>>

-----------------------------------------------------------------------------
SweepStep(p) ==
    \/ \E a \in Actions :
          SweepOverdue(p, a) \/ \E d \in Dues : SweepUpcoming(p, a, d) \/ SweepMoved(p, a, d)
    \/ EndSweep(p)

Next ==
    \/ Tick
    \/ \E p \in Procs :
          \/ \E a \in Actions :
                \/ Fire(p, a) \/ HandleFired(p, a) \/ AskToCancel(p, a)
                \/ \E d \in Dues, immediately \in BOOLEAN : AskToSchedule(p, a, d, immediately)
          \/ \E s \in Sources : RunStep(p, s)
          \/ StartSweep(p) \/ SweepStep(p) \/ RequestStep(p)
          \/ Stop(p) \/ Restart(p)

Spec == Init /\ [][Next]_vars

\* Time passes, a call that was begun is carried on, and a process that was told to stop is replaced.
\* Recovery runs each minute.  A timer is owed nothing: it may never go off.
Fairness ==
    /\ WF_vars(Tick)
    /\ \A p \in Procs :
          /\ WF_vars(StartSweep(p) \/ SweepStep(p))
          /\ WF_vars(RequestStep(p))
          /\ WF_vars(stopped[p] /\ Restart(p))
          /\ \A s \in Sources : WF_vars(RunStep(p, s))

FairSpec == Spec /\ Fairness

-----------------------------------------------------------------------------
(* Properties.                                                             *)

\* The variables hold values of their types.
TypeOK ==
    /\ now \in 0..Horizon
    /\ entry \in [Actions -> Dues \cup {None}]
    /\ claim \in [Actions -> [Dues -> Nat]]
    /\ jobs \in [Procs -> [Actions -> Dues \cup {None}]]
    /\ timers \in [Procs -> [Actions -> Dues \cup {None}]]
    /\ fired \in [Procs -> SUBSET Actions]
    /\ runs \in [Procs -> [Sources -> Run \cup {None}]]
    /\ sweep \in [Procs -> Pending \cup {None}]
    /\ request \in [Procs -> Request \cup {None}]
    /\ stopped \in [Procs -> BOOLEAN]
    /\ used \in [requests : Nat, faults : Nat]

\* A run whose claim has not run out.
Covered(p, s, a, d) ==
    /\ runs[p][s] # None
    /\ runs[p][s].action = a /\ runs[p][s].due = d
    /\ runs[p][s].stage \in Claimed /\ runs[p][s].left > 0

\* A run of an action at a due time that is within its claim is the only one that is, whoever fires
\* it, how often, and whoever else overran a claim or held one after a failure.
OneCoveredRun ==
    \A a \in Actions, d \in Dues, p, q \in Procs, s, t \in Sources :
       Covered(p, s, a, d) /\ Covered(q, t, a, d) => p = q /\ s = t

\* The stored claim lasts at least as long as the run that took it believes.
ClaimOutlastsRun ==
    \A a \in Actions, d \in Dues, p \in Procs, s \in Sources :
       Covered(p, s, a, d) => claim[a][d] >= runs[p][s].left

\* Seen as the covered runs of each action at each due time, scheduling behaves as ExclusiveRuns does.
Exclusive == INSTANCE ExclusiveRuns
                WITH Procs <- Procs \X Sources, Tasks <- Actions \X Dues,
                     runners <- [k \in Actions \X Dues |->
                                   {r \in Procs \X Sources : Covered(r[1], r[2], k[1], k[2])}]
ImplementsExclusiveRuns == Exclusive!Spec

\* A scheduled action is run in the end, or cancelled: whichever process armed it is gone, whichever
\* timer was lost, moved or refused, and however its runs ended.
EveryActionEnds == \A a \in Actions : Scheduled(a) ~> ~Scheduled(a)
=============================================================================
