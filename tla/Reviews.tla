------------------------------- MODULE Reviews -------------------------------
(***************************************************************************)
(* One review of a content revision (packages/api-workflows): its steps    *)
(* are approved in order, each by a reviewer or by a background task, the  *)
(* run of an automation.  Requests and tasks read the review, change their *)
(* copy, and save it whole, without a lock; a task is started before the   *)
(* save that gives its id to the step.                                     *)
(*                                                                         *)
(* An action is what happens between two awaits on the database or on a    *)
(* task.  What follows a save and is never read back (the assignment log,  *)
(* the target's copy of the state, notifications) is left out, but for its *)
(* failure.                                                                *)
(***************************************************************************)
EXTENDS Integers, FiniteSets

CONSTANTS
    NumSteps,       \* steps of the workflow
    RunSteps,       \* those that a task runs; the others are a reviewer's
    Reviewers,      \* users who are candidates for a step; the requester is none of them
    Clients,        \* requests that may be under way at once
    MaxTasks,       \* bound: step run tasks
    MaxWaits,       \* STEP_RUN_TASKID_WAIT_TRIES
    MaxIterations,  \* iterations of an automation, here with those that waited for its id
    MaxRequests,    \* bound: requests, besides those that open the review
    MaxFaults,      \* bound: failed writes, errors and crashes
    None, Gone      \* the review is not created yet; it was deleted

StepIds == 1..NumSteps
Tasks == 1..MaxTasks
Callers == Clients \cup Tasks

StepStates == {"pending", "awaiting", "inReview", "approved", "rejected", "failed"}

\* owner: a reviewer (the automation owns its steps); runs: the tasks of earlier attempts.
Step == [state : StepStates, owner : Reviewers \cup {None},
         task : Tasks \cup {None}, runs : SUBSET Tasks]
Review == [state : {"inProgress", "approved", "rejected", "cancelled"}, steps : [StepIds -> Step]]

ASSUME ReviewsAssumption ==
    /\ NumSteps \in Nat \ {0} /\ RunSteps \subseteq StepIds
    /\ MaxTasks \in Nat /\ MaxWaits \in Nat /\ MaxIterations \in Nat
    /\ MaxRequests \in Nat /\ MaxFaults \in Nat
    /\ Clients \cap Tasks = {}
    /\ None \notin Reviewers /\ None \notin Tasks
    /\ None # Gone /\ None \notin Review /\ Gone \notin Review

VARIABLES
    review,  \* as stored
    call,    \* per caller: the use case it is in
    task,    \* the step run tasks
    used     \* requests and faults so far

vars == <<review, call, task, used>>

TaskStages ==
    {"begin",    \* an iteration is about to begin
     "guard",    \* it is about to read the review
     "run",      \* the step's runner works
     "recheck",  \* it decided: about to read the review again
     "decide",   \* about to call approve or reject, or in that call
     "blame",    \* it failed: about to read the review to fail the step, or saving that
     "hook",     \* the task ended with an error: about to run onError
     "end"}

\* alive: the task's record says pending or running.
Task == [step : StepIds, stage : TaskStages, iterations : Nat, alive : BOOLEAN]

Kinds == {"create", "change", "cancel", "decide", "blame", "hook"}
CallStages == {"trigger", "save", "abort", "hook", "stuck", "erase"}

\* data: the copy of the review; victim: the task to abort or to look into; fresh (history): no
\* other save came since the review was read.
Call == [stage : CallStages, kind : Kinds, data : Review \cup {None},
         victim : Tasks \cup {None}, fresh : BOOLEAN]

ASSUME NoneIsNothing == None \notin Call /\ None \notin Task

-----------------------------------------------------------------------------
(* The aggregate (Review.ts), as functions of a review.                    *)

Exists(r) == r \notin {None, Gone}

\* findCurrentStep: the first step that is not approved.
IsCurrent(r, s) ==
    /\ r.steps[s].state # "approved"
    /\ \A u \in StepIds : u < s => r.steps[u].state = "approved"

InState(r, s, state) == r.state = "inProgress" /\ IsCurrent(r, s) /\ r.steps[s].state = state

\* getStaleStepRunReason: the task t may write to step s.
Carries(r, s, t) == Exists(r) /\ InState(r, s, "inReview") /\ r.steps[s].task = t

\* getRunningTaskId
RunningTask(r) ==
    LET running == {t \in Tasks : \E s \in StepIds :
                      IsCurrent(r, s) /\ r.steps[s].state = "inReview" /\ r.steps[s].task = t}
    IN  IF running = {} THEN None ELSE CHOOSE t \in running : TRUE

NewReview ==
    [state |-> "inProgress",
     steps |-> [s \in StepIds |-> [state |-> "pending", owner |-> None, task |-> None, runs |-> {}]]]

In(r, s, state) == [r EXCEPT !.steps[s].state = state]
OwnedBy(r, s, u) == [r EXCEPT !.steps[s] = [@ EXCEPT !.state = "inReview", !.owner = u]]

Reached(r, s, u) == IF u = None THEN In(r, s, "awaiting") ELSE OwnedBy(r, s, u)
ReachedRun(r, s, t) == [r EXCEPT !.steps[s] = [@ EXCEPT !.state = "inReview", !.task = t]]

\* With prepareForSave, which derives the review's state from its steps.
Approved(r, s) ==
    LET n == In(r, s, "approved")
    IN  [n EXCEPT !.state = IF \A u \in StepIds : n.steps[u].state = "approved"
                            THEN "approved" ELSE "inProgress"]

\* Mutant: the review's state is not derived from a rejected step.
RejectedStepOnly(r, s) == In(r, s, "rejected")

Rejected(r, s) == [In(r, s, "rejected") EXCEPT !.state = "rejected"]

\* Mutant: a state of another spelling.
Canceled(r) == [r EXCEPT !.state = "canceled"]

Cancelled(r) == [r EXCEPT !.state = "cancelled"]
Failed(r, s) == In(r, s, "failed")

\* getTaskIds: the tasks of all attempts of a step.
Attempts(step) == step.runs \cup ({step.task} \ {None})

\* The failed attempt moves to the step's runs; its owner stays.
Restarted(r, s) ==
    [r EXCEPT !.steps[s] = [@ EXCEPT !.state = "pending", !.task = None,
                                     !.runs = Attempts(r.steps[s])]]

-----------------------------------------------------------------------------
(* Use cases: read and change, trigger a task, save.                       *)

Fault == used.faults < MaxFaults /\ used' = [used EXCEPT !.faults = @ + 1]
Asked == used.requests < MaxRequests /\ used' = [used EXCEPT !.requests = @ + 1]

Goes(x, stage, kind, data, victim) ==
    call' = [call EXCEPT ![x] = [stage |-> stage, kind |-> kind, data |-> data,
                                 victim |-> victim, fresh |-> TRUE]]
Moves(x, stage) == call' = [call EXCEPT ![x].stage = stage]
Returns(x) == call' = [call EXCEPT ![x] = None]
At(x, stage) == call[x] # None /\ call[x].stage = stage

\* ReviewStepReacher: the next step is reached before the save, one that a task runs in a step of
\* its own; the others get an owner or wait for one.
ReachAndSave(x, r, kind) ==
    \/ /\ \A s \in StepIds : ~InState(r, s, "pending")
       /\ Goes(x, "save", kind, r, None)
    \/ \E s \in StepIds : InState(r, s, "pending") /\
          \/ s \in RunSteps /\ Goes(x, "trigger", kind, r, None)
          \/ /\ s \notin RunSteps
             /\ \E u \in Reviewers \cup {None} : Goes(x, "save", kind, Reached(r, s, u), None)

RequestReview(c) ==
    /\ call[c] = None /\ review = None /\ used.requests = 0 /\ Asked
    /\ ReachAndSave(c, NewReview, "create")
    /\ UNCHANGED <<review, task>>

\* A request is made for a review that is found.
Asks(c) == call[c] = None /\ Exists(review) /\ Asked /\ UNCHANGED <<review, task>>
Saves(c, r) == Goes(c, "save", "change", r, None)

StartStep(c, s, u) ==
    Asks(c) /\ InState(review, s, "awaiting") /\ Saves(c, OwnedBy(review, s, u))

\* A step held by the automation cannot be taken over or reassigned.
Held(s) == InState(review, s, "inReview") /\ s \notin RunSteps

TakeOver(c, s, u) ==
    Asks(c) /\ Held(s) /\ review.steps[s].owner # u /\ Saves(c, OwnedBy(review, s, u))

Reassign(c, s, u) ==
    /\ Asks(c)
    /\ InState(review, s, "awaiting") \/ (Held(s) /\ review.steps[s].owner # u)
    /\ Saves(c, OwnedBy(review, s, u))

Approve(c, s, u) ==
    /\ Asks(c) /\ Held(s) /\ review.steps[s].owner = u
    /\ ReachAndSave(c, Approved(review, s), "change")

Reject(c, s, u) ==
    Asks(c) /\ Held(s) /\ review.steps[s].owner = u /\ Saves(c, Rejected(review, s))

Cancel(c) ==
    /\ Asks(c) /\ review.state = "inProgress"
    /\ Goes(c, "save", "cancel", Cancelled(review), RunningTask(review))

RestartStep(c, s) ==
    /\ Asks(c) /\ InState(review, s, "failed")
    /\ ReachAndSave(c, Restarted(review, s), "change")

\* DeleteTargetReviews, with the review as it lists it.
Delete(c) == Asks(c) /\ Goes(c, "erase", "change", None, RunningTask(review))

\* TaskService.abort, called for a person.
AbortRun(c, t) == Asks(c) /\ task[t] # None /\ Goes(c, "abort", "change", None, t)

\* Mutant: only tasks of earlier attempts are looked into.
FindStuckRun(c) ==
    /\ call[c] = None
    /\ \E s \in StepIds, t \in Tasks :
          Carries(review, s, t) /\ t \in review.steps[s].runs /\ ~task[t].alive
          /\ Goes(c, "stuck", "hook", None, t)
    /\ UNCHANGED <<review, task, used>>

\* GetReview's stuck detection: the review is read, then its step's task, which has ended.  Both
\* reads are one step: the first only says which task to look at, and if the step is decided or
\* restarted between the two, the reading of the review that follows (FailVictim) finds it so.
FindStuck(c) ==
    /\ call[c] = None
    /\ \E s \in StepIds, t \in Tasks :
          Carries(review, s, t) /\ ~task[t].alive /\ Goes(c, "stuck", "hook", None, t)
    /\ UNCHANGED <<review, task, used>>

\* StepRunReachService: the task is triggered, or the step is reached without one and failed.
Trigger(x) ==
    /\ At(x, "trigger")
    /\ \E s \in StepIds : InState(call[x].data, s, "pending") /\
          \/ \E t \in Tasks :
                /\ task[t] = None /\ \A u \in Tasks : u < t => task[u] # None
                /\ task' = [task EXCEPT ![t] =
                              [step |-> s, stage |-> "begin", iterations |-> 0, alive |-> TRUE]]
                /\ call' = [call EXCEPT ![x].stage = "save", ![x].victim = t,
                                        ![x].data = ReachedRun(@, s, t)]
          \/ /\ call' = [call EXCEPT ![x].stage = "save",
                                     ![x].data = Failed(ReachedRun(@, s, None), s)]
             /\ task' = task
    /\ UNCHANGED <<review, used>>

\* What the save of a task's call means to the task: an outcome that was saved may still be
\* reported as failed, when the target could not be synced.
TaskAfter(t, saved) ==
    LET next == CASE call[t].kind = "decide" -> IF saved THEN {"end", "blame"} ELSE {"blame"}
                  [] call[t].kind = "blame" -> IF saved THEN {"end"} ELSE {"hook"}
                  [] OTHER -> {task[t].stage}
    IN  \E g \in next : task' = [task EXCEPT ![t].stage = g,
                                             ![t].alive = @ /\ g \notin {"end", "hook"}]
TasksAfter(x, saved) == IF x \in Tasks THEN TaskAfter(x, saved) ELSE task' = task

\* A review that was deleted is not created again by its update.
Stored(r) == IF review = Gone THEN Gone ELSE r

\* All but x have read what is no longer so.
Others(x) == [y \in Callers |->
    IF call[y] = None \/ y = x THEN call[y] ELSE [call[y] EXCEPT !.fresh = FALSE]]

\* ReviewSaver.save, and after a cancel the abort of the task.
Save(x) ==
    /\ At(x, "save")
    /\ review' = Stored(call[x].data)
    /\ call' = [Others(x) EXCEPT ![x] =
                  IF @.kind = "cancel" /\ @.victim # None THEN [@ EXCEPT !.stage = "abort"] ELSE None]
    /\ TasksAfter(x, TRUE)
    /\ UNCHANGED used

\* The write failed: the task that was triggered for it is aborted.
SaveFails(x) ==
    /\ At(x, "save")
    /\ IF review = Gone THEN UNCHANGED used ELSE Fault
    /\ IF call[x].kind # "cancel" /\ call[x].victim # None THEN Moves(x, "abort") ELSE Returns(x)
    /\ TasksAfter(x, FALSE)
    /\ UNCHANGED review

Erase(c) ==
    /\ At(c, "erase")
    /\ review' = Gone
    /\ call' = [Others(c) EXCEPT ![c] = IF @.victim = None THEN None ELSE [@ EXCEPT !.stage = "abort"]]
    /\ UNCHANGED <<task, used>>

\* An alive task is aborted, and the caller runs its onAbort hook.
AbortTask(x) ==
    /\ At(x, "abort")
    /\ LET t == call[x].victim
       IN  IF task[t].alive
           THEN task' = [task EXCEPT ![t].alive = FALSE] /\ Moves(x, "hook")
           ELSE task' = task /\ Returns(x)
    /\ UNCHANGED <<review, used>>

\* It may have been aborted by then, without its hook.
AbortFails(x) ==
    /\ At(x, "abort") /\ Fault /\ Returns(x)
    /\ task' = task \/ task' = [task EXCEPT ![call[x].victim].alive = FALSE]
    /\ UNCHANGED review

\* Reads the review, and fails its step if the task t is still the one it carries.
FailStepOf(x, t, r) ==
    IF Carries(r, task[t].step, t)
    THEN Goes(x, "save", "hook", Failed(r, task[t].step), None)
    ELSE Returns(x)

\* Mutant: stuck detection does not ask again whether the step carries the task.
FailUnchecked(x) ==
    /\ At(x, "hook") \/ At(x, "stuck")
    /\ IF At(x, "stuck") /\ Exists(review)
       THEN Goes(x, "save", "hook", Failed(review, task[call[x].victim].step), None)
       ELSE FailStepOf(x, call[x].victim, review)
    /\ UNCHANGED <<review, task, used>>

\* The onAbort hook, and the second reading of stuck detection.
FailVictim(x) ==
    /\ At(x, "hook") \/ At(x, "stuck")
    /\ FailStepOf(x, call[x].victim, review)
    /\ UNCHANGED <<review, task, used>>

CallStep(x) ==
    \/ Trigger(x) \/ Save(x) \/ SaveFails(x) \/ Erase(x)
    \/ AbortTask(x) \/ AbortFails(x) \/ FailVictim(x)

\* The process that serves the request dies.
Crash(c) == call[c] # None /\ Fault /\ Returns(c) /\ UNCHANGED <<review, task>>

-----------------------------------------------------------------------------
(* Tasks (WorkflowStepRunTaskHandler).                                     *)

Doing(t, stage) == task[t] # None /\ task[t].stage = stage /\ call[t] = None
TaskMoves(t, stage) == task' = [task EXCEPT ![t].stage = stage]
TaskEnds(t, stage) == task' = [task EXCEPT ![t].stage = stage, ![t].alive = FALSE]
IsCarried(t) == Carries(review, task[t].step, t)

\* The review does not exist, or its step has not got the task's id yet.
MayBeUnsaved(t) ==
    Exists(review) => review.state = "inProgress" /\ review.steps[task[t].step].task # t

\* An aborted task is not begun again.
Begin(t) ==
    /\ Doing(t, "begin")
    /\ IF task[t].alive
       THEN task' = [task EXCEPT ![t].stage = "guard", ![t].iterations = @ + 1]
       ELSE TaskMoves(t, "end")
    /\ UNCHANGED <<review, call, used>>

\* Another iteration is asked for, which makes a task alive that was aborted meanwhile.
Continues(t) == task' = [task EXCEPT ![t].stage = "begin", ![t].alive = TRUE]

Guard(t) ==
    /\ Doing(t, "guard")
    /\ LET waits == ~IsCarried(t) /\ MayBeUnsaved(t) /\ task[t].iterations <= MaxWaits
       IN  \/ IsCarried(t) /\ TaskMoves(t, "run")
           \/ waits /\ Continues(t)
           \/ ~IsCarried(t) /\ ~waits /\ TaskEnds(t, "end")
    /\ UNCHANGED <<review, call, used>>

\* The runner returns an outcome, or fails; past the limit of its iterations it fails.
Work(t) ==
    /\ Doing(t, "run")
    /\ \/ task[t].iterations <= MaxIterations /\ TaskMoves(t, "recheck")
       \/ TaskMoves(t, "blame")
    /\ UNCHANGED <<review, call, used>>

\* The review is read again before the outcome, a decision or another iteration, is applied.
Recheck(t) ==
    /\ Doing(t, "recheck")
    /\ \/ IsCarried(t) /\ TaskMoves(t, "decide")
       \/ IsCarried(t) /\ Continues(t)
       \/ ~IsCarried(t) /\ TaskEnds(t, IF Exists(review) THEN "end" ELSE "hook")
    /\ UNCHANGED <<review, call, used>>

\* Approve and reject read the review themselves: they look for a step in review that the
\* automation owns, whichever task runs it.
Decide(t) ==
    /\ Doing(t, "decide")
    /\ LET s == task[t].step
       IN  IF Exists(review) /\ InState(review, s, "inReview") /\ s \in RunSteps
           THEN /\ task' = task
                /\ \/ ReachAndSave(t, Approved(review, s), "decide")
                   \/ Goes(t, "save", "decide", Rejected(review, s), None)
           ELSE TaskMoves(t, "blame") /\ UNCHANGED call
    /\ UNCHANGED <<review, used>>

Blame(t) ==
    /\ Doing(t, "blame")
    /\ IF IsCarried(t)
       THEN task' = task /\ Goes(t, "save", "blame", Failed(review, task[t].step), None)
       ELSE UNCHANGED call /\ TaskEnds(t, IF Exists(review) THEN "end" ELSE "hook")
    /\ UNCHANGED <<review, used>>

\* onError: the task has ended by then.
Hook(t) ==
    /\ Doing(t, "hook")
    /\ TaskMoves(t, "end")
    /\ FailStepOf(t, t, review)
    /\ UNCHANGED <<review, used>>

TaskStep(t) ==
    Begin(t) \/ Guard(t) \/ Work(t) \/ Recheck(t) \/ Decide(t) \/ Blame(t) \/ Hook(t)

\* A read fails, or the runner has an error of its own.
Errs(t) ==
    /\ \E g \in {"guard", "run", "recheck", "blame"} : Doing(t, g)
    /\ Fault /\ TaskEnds(t, "hook") /\ UNCHANGED <<review, call>>

\* The process that runs the task dies: the task is resumed, or given up without a hook.
Dies(t) ==
    /\ task[t] # None /\ (task[t].stage # "end" \/ call[t] # None)
    /\ Fault
    /\ \/ task[t].alive /\ TaskMoves(t, "begin")
       \/ TaskEnds(t, "end")
    /\ Returns(t)
    /\ UNCHANGED review

-----------------------------------------------------------------------------
Init ==
    /\ review = None
    /\ call = [x \in Callers |-> None]
    /\ task = [t \in Tasks |-> None]
    /\ used = [requests |-> 0, faults |-> 0]

Request(c) ==
    \/ RequestReview(c) \/ Cancel(c) \/ Delete(c) \/ FindStuck(c)
    \/ \E t \in Tasks : AbortRun(c, t)
    \/ \E s \in StepIds :
          \/ RestartStep(c, s)
          \/ \E u \in Reviewers :
                \/ StartStep(c, s, u) \/ TakeOver(c, s, u) \/ Reassign(c, s, u)
                \/ Approve(c, s, u) \/ Reject(c, s, u)

Next ==
    \/ \E c \in Clients : Request(c) \/ Crash(c)
    \/ \E x \in Callers : CallStep(x)
    \/ \E t \in Tasks : TaskStep(t) \/ Errs(t) \/ Dies(t)

Spec == Init /\ [][Next]_vars

\* A use case and a task's iteration come to their end, and the review is opened now and then.
Fairness ==
    /\ \A x \in Callers : WF_vars(CallStep(x))
    /\ \A t \in Tasks : WF_vars(TaskStep(t))
    /\ WF_vars(\E c \in Clients : FindStuck(c))

FairSpec == Spec /\ Fairness

-----------------------------------------------------------------------------
(* Properties.                                                             *)

\* The variables hold values of their types.
TypeOK ==
    /\ review \in Review \cup {None, Gone}
    /\ call \in [Callers -> Call \cup {None}]
    /\ task \in [Tasks -> Task \cup {None}]
    /\ used \in [requests : Nat, faults : Nat]

\* Steps are decided in order: what comes before the current step is approved and what comes after
\* it was never reached, and the review's state is that of its steps.
InOrder(r) ==
    /\ \A s, u \in StepIds : s < u /\ r.steps[s].state # "approved" =>
          r.steps[u].state = "pending" /\ r.steps[u].task = None /\ r.steps[u].runs = {}
    /\ r.state = "approved" <=> \A s \in StepIds : r.steps[s].state = "approved"
    /\ r.state = "rejected" <=> \E s \in StepIds : r.steps[s].state = "rejected"

\* A review in progress is never left to nobody: its current step waits for any reviewer, has an
\* owner, has its task, or failed and can be restarted.
SomeoneCanAct(r) ==
    r.state = "inProgress" => \A s \in StepIds : IsCurrent(r, s) =>
        LET step == r.steps[s]
        IN  \/ s \in RunSteps /\ step.state = "inReview" /\ step.task # None
            \/ s \in RunSteps /\ step.state = "failed"
            \/ s \notin RunSteps /\ step.state = "inReview" /\ step.owner # None
            \/ s \notin RunSteps /\ step.state = "awaiting"

\* So is the review at every moment, whichever copies overwrote each other.
ReviewIsSound == Exists(review) => InOrder(review) /\ SomeoneCanAct(review)

\* From r to n nothing is lost: what is over stays, an approved step too, and so do the tasks of
\* all attempts, which are cleaned up by what the review says of them.
Keeps(r, n) ==
    /\ r.state # "inProgress" => n = r
    /\ \A s \in StepIds :
          /\ r.steps[s].state = "approved" => n.steps[s] = r.steps[s]
          /\ Attempts(r.steps[s]) \subseteq Attempts(n.steps[s])

\* A save undoes a decision, or forgets an attempt, only if another save came between its read and
\* its write.
OnlyOverlapsLose ==
    [][Exists(review) /\ Exists(review') =>
          Keeps(review, review')
          \/ \E x \in Callers : At(x, "save") /\ ~call[x].fresh /\ call[x].data = review']_vars

\* A step that waits for its task does not wait for ever: the task decides it or fails it, or it is
\* found stuck, if the review is opened now and then; whenever the task's id was saved, however
\* the task ended, and whatever overwrote what.  It is again and again not waiting for it.
RunsAreSettled ==
    \A s \in RunSteps, t \in Tasks : []<>~Carries(review, s, t)
=============================================================================
