# Webiny's servers and their shared database, in TLA+

A specification, model-checked with TLC and in good part proved with TLAPS, of what Webiny's servers
do together over one database. Four parts of the repository have the hard questions (who may do this
now, what a crash leaves, what a late write undoes), and they are the ones modelled:

- **Background tasks** on a self-hosted ("standalone") deployment: any number of server processes
  trigger tasks, run them in steps ("iterations"), and take over what another process left behind.
  Nothing but rows in the database keeps two of them from doing the same work.
- **Scheduled actions** on the same deployment: each process arms timers for the actions in the
  database, and a claim per action and due time lets one process run it.
- **Revisions of a content entry** in the SQL storage: each operation is several SQL statements
  without a transaction, over flags of which at most one row may have each.
- **Reviews** of a content revision: people and background tasks decide the steps of one review, which
  all of them read, change and save whole, without a lock.

Paths below are relative to the repository; `standalone` is `packages/background-tasks-standalone/src`,
`tasks` is `packages/background-tasks/src/api`, `scheduler` is
`packages/api-event-handler-standalone/src/scheduler`, `sql-cms` is `packages/api-headless-cms-sql/src`,
`cms` is `packages/api-headless-cms/src`, `workflows` is `packages/api-workflows/src`.

- [Inventory](#inventory)
- [Modules and the code](#modules-and-the-code)
- [Runs: what is checked, within which bounds](#runs)
- [Fairness](#fairness)
- [Proofs](#proofs)
- [Disagreements between code and intent](#disagreements)
- [Not modelled](#not-modelled)
- [Plan](#plan)

## Inventory

| Part | State | Operations | Hard about it |
|---|---|---|---|
| Iteration slots (`standalone/loop/IterationSlots.ts`) | slots used, the line of waiters, open or closed | acquire, release, close | a slot handed over while one asks, while it closes |
| Task claims (`standalone/claim/KeyValueTaskClaim.ts`) | per task a record: owner, expiry | take, keep, release | races of processes, expiry, a write that fails |
| Claim renewal (`claim/ClaimRenewal.ts`) | per running iteration an interval and a write under way | renew every 20 s of a 60 s claim | a write that outlives its iteration; renewals that fail |
| Iteration handler (`handlers/InProcessBackgroundTaskHandler.ts`) | one iteration between its awaits | hold the claim, run, release or extend it | the signal read before awaits, a lost claim, shutdown half way |
| Task loop (`loop/InProcessBackgroundTasksLoop.ts`, `TaskExecution.ts`) | the executions of a process | start, stop, the cycle slot / iterate / wait | shutdown, a task in line, a task asleep |
| Trigger (`tasks/features/TaskService`, `standalone/service`) | a stored task, its claim, its start, the transport's answer | trigger, abort | a crash between any two; the answer saved late |
| Recovery (`standalone/recovery`, `claim/KeyValueTaskRecoveries.ts`) | the list a sweep works through; per task a count of pick-ups | sweep: list, skip, take, count, start or fail | a stale list; counting what is not a crash |
| Task record (`tasks/runner`, `tasks/response`) | status and iterations of a task | trigger, begin, save, end, abort | read, merge, write back whole, unchecked |
| SQL key-value store (`packages/api-core-sql/src/keyValueStore`) | rows with expiry | get, set, delete, with conditions | several statements per call; a lazy delete of what expired |
| Scheduled actions (`packages/api-scheduler`) | an entry per action with its due time | schedule, move, cancel, execute | entry and timer changed one after the other; an execution while it is moved |
| Timers and recovery (`packages/api-scheduler-standalone`) | per process the timers and what they were armed for | arm, fire, compare with the database each minute | a timer that is stale, refused or lost; a list read before |
| Once-only execution (`scheduler/RunScheduledActionOnceDecorator.ts`, `schedulerServer.ts`) | a claim per action and due time | take, give back, hold after a failure | a run that outlives its claim; a claim that cannot be written |
| Content entries (`cms/features/contentEntry`) | what an operation means to write | create, revise, save, publish, unpublish, delete, bin, restore | read, decide, write back whole |
| Their SQL storage (`sql-cms/operations/entry`) | a row per revision: flags as columns and in its JSON | the same, statement by statement | a flag taken from one row and given to another; a crash in between |
| Review (`workflows/domain/review`) | its state; per step a state, an owner, a task, the tasks of earlier attempts | request, reach, start, take over, reassign, approve, reject, fail, restart, cancel | pure; each must leave somebody who can act |
| Its use cases (`workflows/features/review`) | none between requests | load, change, trigger a task, save; delete | no lock; the task starts before the save, and is aborted when that fails |
| Step run tasks (`workflows/features/stepRun`) | a task per attempt of an automation step | wait for its id, run, look again, decide, fail; hooks; stuck detection | decides what it read before; may be restarted, cancelled or deleted meanwhile |

How they meet: the *trigger* stores a task record, claims the task in the *key-value store* and starts
it in the process's *loop*. The loop's execution asks the *slots*, dispatches an iteration to the
*handler*, which holds the *claim*, starts the *renewal*, and calls the *runner*; the runner reads and
writes the *record* and says what next. *Recovery* runs in every process each minute: it lists
unfinished records and takes those without a claim. A *scheduled action* is a content entry too; its
timer, or the recovery of any process, reads it, claims it in the *key-value store* and executes it.
A *review* starts a task for a step that an automation decides, and that task calls the use cases a
person calls. The records of tasks, the scheduled actions, the reviews and everything an editor writes
are *content entries*.

What makes each correct, in a sentence: slots are neither lost nor doubled and are served in order; a
task is run by one process at a time; a claim is never taken from a live owner, and always ends when
the owner is dead; a process that stops tells its iterations; every triggered task comes to an end
even when processes crash; a task that is driven is not failed; a finished task stays finished; a
conditional write checks and writes in one step; a scheduled action is run by one process at a time and
ends, run or cancelled; an entry has at most one latest and one published revision, its flags agree
wherever they are kept, its newest revision is the latest, and its live pointer is true; a review's
steps are decided in order, it is never left to nobody, and nothing decided is undone but by a save that was overtaken.

`PROJECT.json` lists the components, the hazards of the code at their lines, and for each definition
the lines it stands for.

## Modules and the code

```
IterationSlots        slots of one process
ClaimedIterations     claims, renewals and iterations of all processes  --refines-->  ExclusiveRuns
RecoveredTasks        trigger, slots, claims, recovery, record          --refines-->  ExclusiveRuns
TaskRecord            the record, with the read and the write of each update apart
SqlKeyValueStore      one key, statement by statement                   --refines-->  ConditionalStore
ScheduledActions      entries, timers, recovery and claims of actions   --refines-->  ExclusiveRuns
EntryRevisions        the rows of one content entry, statement by statement
EntryOverlaps         the same, with a history of what overlapping requests did to each other
Reviews               one review, the requests that change it and the tasks of its steps
```

The modules overlap on purpose: each one is coarse where another one is fine. `ClaimedIterations` and `ScheduledActions`
take the claim store's writes as atomic, which is what `ConditionalStore` promises and
`SqlKeyValueStore` is checked against. `RecoveredTasks` takes an iteration's renewals as timely, which
is the case `ClaimedIterations` shows safe, and, like it, implements `ExclusiveRuns`; and an update of
the record as one step, but for the trigger's last one, which keeps what it read: `TaskRecord` takes all
of them apart. `Reviews` knows of a task's record only whether it is alive, and takes over
from `TaskRecord` that going on makes an aborted task alive again.

**`IterationSlots`** The counter, the line and the flag of the class. `acquire` is three actions, for
its three outcomes (`AcquireGranted`, `AcquireWaits`, `AcquireRefused`). Each method runs without an
await, so it is one step; what interleaves is the order of calls.

**`ClaimedIterations`** `claim` is the key-value record of each task; its expiry is counted down in
ticks. `exec[p][t]` is the `TaskExecution` of task *t* in process *p* with the handler it has called,
at the place named by `stage`: each stage is an await of `TaskExecution.run` or of
`InProcessBackgroundTaskHandler.execute`. `flight[p][t]` is a renewal's write that was issued and has
not landed: `own` of the iteration that runs, `old` of one that is over, since nobody awaits it.
`trigger` and `sweep` are the awaits of `InProcessTaskService.send` and of `RecoverTasksHandler`
between claiming a task and starting it. `life` is a process's lifetime. Any write can fail
(`WriteThrows`, `RenewFails`, the second disjunct of `Release`), and a process can die at any step
(`Exit`). A restart is another member of `Procs`, because an owner is a fresh id per process.

**`ExclusiveRuns`** The promise of a claim: the runners of a thing become `{p}` only from none. The
thing is a task and the runner a process for `ClaimedIterations` and for `RecoveredTasks`; for `ScheduledActions` the thing is
an action at a due time, and the runner a process together with what fired the run, since one process
may run an action for its timer and for its recovery.

**`RecoveredTasks`** Adds to claims the record (`rec`, with a number of saves for its `savedOn`), its
age (the grace period of a new task), the recoveries record (`picked`), the trigger's four steps (the
record, the claim and start, and the transport's answer, which is saved with a record read before), a
line for slots, and a sweep over a list that was read earlier (`list`). An iteration is two steps,
holding the claim (`begun`) and running (`body`). Nothing renews the claim of a task in line; with
`Crowded`, tasks outside the model may hold the slots for any time, so the claim may run out there. Then
any process's sweep may take the task: another's, and whoever comes to its slot first runs it, or the
process's own, which then drives it twice. `selfTaken` remembers that of a task.

**`TaskRecord`** One record and its writers: the trigger, the iteration, each call of abort.
`update[w]` is an update under way: what it changes, and, once it has read, the record it read. `Reads`
and the write are separate steps, so updates overwrite each other as
`UpdateEntryUseCase`/`UpdateEntryDataFactory` let them. `run` is the iteration: the stages of
`TaskControl.run` and `TaskManager.run`, and the record as `TaskManagerStore` holds it.

**`SqlKeyValueStore`** One key. Each statement of `set`, `delete` and `get` is a step; a transaction's
first write locks the row (external: what the SQL database does). `clock` advances; `Lag` bounds how
long a call may take. `OvertakenGets` says whether a write may fall between the two halves of a `get`
that found an expired row.

**`ConditionalStore`** The contract of `packages/api-core/src/features/keyValueStore/abstractions.ts`:
a call checks the record and writes it in one step, at one time between its beginning and its end.

**`ScheduledActions`** `entry` is the stored due time of each action, `jobs` and `timers` what each
process remembers to have armed and what lives (`BreeSchedulerService`), `fired` the timers whose
message is on its way. `runs[p][s]` is one call of `RunScheduledActionOnceDecorator.execute` with the
`ExecuteScheduledActionUseCase` it wraps, for the timers of *p* or for its recovery; its stages are
their awaits, and `left` is what it believes is left of its claim. `sweep` is a recovery under way with
the list it read; between removing a timer and arming its action anew (`moved`) anything else may
come. A run that succeeded may fail to delete its entry (`DeleteFails`), and is then run again.
`request` is a scheduling or cancelling use case: the entry first, then the timer,
and the roll-back when the timer is refused. Writes and handlers fail, processes stop and crash; a
process that restarts keeps its name, since its timers are gone and it owns no claim by name.

**`EntryRevisions`** `rows` is the table, for one entry: per version the flag columns and what matters
of the JSON (the same flags, the status, the lock, the live pointer). `plan[w]` is what a use case
decided to write, from its reads at its start, and `found[w]` the rows its last SELECT returned that
are still to be written back. Each action from `FindOldLatest` on is one statement of
`Sql*Entry.ts`. `BreakOff` is a crash or an error between any two. With `OneAtATime`, operations come
one after another; without, they overlap freely. `intact` and `straight` are history: nothing broke off
so far, and revisions were made the straight way (from the latest, and not published on the spot).

**`EntryOverlaps`** Adds history, and changes nothing else. `behind[w]` are the rows that others have
changed since the operation of *w* started; `lost` says that some request has written a row it was
behind on; `raced`, that two operations that publish a revision were under way at once. Nothing in the
code prevents either, so the properties with operations that overlap are of what these two do not
explain.

**`Reviews`** The upper half is `Review.ts`, as functions of a review; `getStaleStepRunReason` is
`Carries`. `call[x]` is the use case that a request or a task *x* is in, with its copy of the review:
the action that begins it reads and changes (`Approve`, `Cancel`, ...), and the following ones are its
awaits: `Trigger` (`StepRunReachService`), `Save` and `SaveFails` (`ReviewSaver`), `AbortTask`,
`FailVictim` (the hook that an abort runs in its caller, or stuck detection's second reading). `task[t]`
is a step run task at one of its awaits (`WorkflowStepRunTaskHandler`): it waits for its id (`Guard`),
works, looks again (`Recheck`), decides through the same use cases (`Decide`), or fails its step
(`Blame`, `Hook`). Any write, read or abort may fail and any request or task may die, up to `MaxFaults`
times. What an automation finds is a choice, made when it is applied; so is a candidate for a step.
`FindStuck` may come any time after a task's end, which is every length of the grace period. It reads
the review and the task in one step. The code has an await between them, and reads the review again
before it fails the step, as the model does: so what comes between the first two reads is found by the
last. What only the code can do is to look into a task whose step has moved on since its first read,
and fail the step after all because an overtaken save put the task back meanwhile; a detection of the
model that begins after that save does the same.
`call[x].fresh` is history: no other save came since the read.

The `MC*` modules add symmetry sets where they are sound; the `.cfg` files give the constants.

## Runs

| Run | Asks | Answer |
|---|---|---|
| `iteration_slots` | Is any slot lost, doubled, idle while one waits; is the line served in order; is everybody answered? | holds |
| `claims_timely` | Does every iteration run under its claim, one process at a time, as `ExclusiveRuns` asks; is a sleeping task left alone until due? | holds, but for what a late renewal shortens |
| `claims_liveness` | With renewals failing beyond a claim's life and sweeps that give tasks up: does a live claim ever change hands; does a dead owner's claim end; does an overlap of two runners end? | never; yes; yes |
| `takeovers` | Over crashes, shutdowns and waits for a slot that outlast the claim: one runner, a claim on everything that runs or sleeps, nothing that runs is given up, nothing finished is reopened? | holds, but for a task taken from its own process's line, and for the trigger's late answer |
| `tasks_finish` | With one process that stays up, does every triggered task end? | yes |
| `crash_loop` | Does a task that kills its server stop being resumed? | no (finding) |
| `one_record` | With updates that overwrite each other: what can undo an outcome, and does the task end for good? | only half-way updates; yes |
| `store_atomic` | Does the SQL store check and write in one step? | yes, unless a get is overtaken |
| `store_overtaken_get` | With a get that is overtaken: does one insert win? | no (finding) |
| `scheduled_actions` | Timers, recovery, moves, failures, crashes: one run within its claim at a time, as `ExclusiveRuns` asks; does every action end? | holds; yes |
| `revisions_in_turn` | One operation after another, each broken off anywhere: are the flags exclusive and in step, the newest revision the latest, the live pointer true? | holds |
| `reviews` | Requests and tasks overwrite each other's copies of a review, tasks die and are aborted, saves fail: is it sound at every moment, is only an overlap able to lose a decision, and is every step that waits for a task settled? | holds; yes |

### Bounds, and why they are enough

- *Processes.* Two in the claims runs: every property is about one process or a pair, and a third only
  adds another competitor for the same conditional write. Two in `takeovers` too, each of which triggers,
  sweeps, waits and runs; three in `crash_loop`, so that a takeover is itself taken over. The proofs about
  claims and recovery remove the bound.
- *Tasks.* One, where tasks do not touch each other (claims are per task). What they share are the
  slots: in `takeovers`, `Crowded` stands for any number of other tasks that hold the one slot, for as
  long as they like, so the task waits in line past its claim. In `tasks_finish` slots are free in the end.
  The theorems have any number of tasks and slots.
- *What is not followed.* `takeovers` has a `CONSTRAINT`: once the task was taken by the sweep of the
  process that has it in line, its properties say nothing of it any more, and there is no other task
  they could be about. Its `VIEW` leaves out a counter no action looks at, and takes saves relative to the
  record's.
- *Time.* A claim lasts 3 ticks and is renewed every tick: 60 s and 20 s. `MaxMisses = 1` lets one
  renewal fail; `1 * (1 + 1) < 3` is `TimelyRenewals`. `MaxMisses = 2` lets the claim run out under
  its runner: what still holds then is `claims_liveness`, with sweeps that give tasks up as well: one that does
  so again and again releases the claim each time, which `OverlapEnds` names as its exception. `RecoveredTasks` uses
  a TTL of 1, since its renewals do not miss; a delay or wait of 2 is longer than the TTL.
- *Waits* in `claims_timely` are 0, 2 and 4, a tick less and a tick more than the TTL: a late renewal
  shortens the claim of the longer one (`late` remembers it), and it may be taken before it is due.
- *Counts.* `MaxRecoveries = 1` (3 in the code) and `MaxIterations = 2` (1 in `tasks_finish`): each limit is reached,
  exceeded by one, and reset. `crash_loop` needs `MaxIterations = 3` for the crashes to pass
  `MaxRecoveries + 1` before the iterations run out.
- *Faults.* `MaxFaults = 2` in `one_record`: two faults are what a failed save followed by a failed
  save of the failure, or a crash in a recovery, take. `Faults` in `RecoveredTasks` is unbounded.
- *Clock.* `MaxTime = 3` with lifetime 2: a record expires and is written again. Callers: two for the
  pairwise races of all six operations, three for `OneWinner` (the get and two inserts).
- *Slots.* Five callers for two slots: two hold, up to three wait, so order in the line matters.

- *Scheduled actions.* One action (nothing relates two), one process with its two triggers: a timer's
  run and recovery's run of the same action race each other for the claim, as two processes' runs do.
  Two due times, so that an action is moved and its old timer stale; a claim of one tick, so that each
  run can outlast it; a hold of two after a failure; one request and one fault at any moment. About
  200 000 states; the theorems remove all of these bounds.
- *Revisions.* Four versions in turn: a revision before, between and after the published and the latest
  one, and one more to promote. About 850 000 states. Operations that overlap are the proofs'
  (`RacesAreSettled`, `OnlyLostWritesSplitFlags`, `OnlyRacesPublishTwo`), in no run of its own: two
  writers over two versions, with the history of `EntryOverlaps`, are several million states. TLC went
  through the first 2.5 million without a counterexample, and finds one at once when `lost` or `raced` is
  taken out of the property that names it.
- *Reviews.* Two steps, the first an automation's and the second a reviewer's, so that a task's
  approval reaches a person. Two requests and two tasks at once, which is two attempts of a step, or
  the task and two people; two reviewers, so that one takes over from the other; three requests in
  all (the review, and two that change it), besides those that open it; one fault; one wait for the id
  and two iterations, so that each limit is passed. About 400 000 states. The theorems remove all of
  these bounds.

Each passing run explores its whole state space, `takeovers` up to its constraint; none is cut by a
depth. `one_record` has
`CHECK_DEADLOCK FALSE`: when the task has ended, both aborts were made and nothing is left to fail,
there is nothing left to do. So has `reviews`, once all requests and faults are used. So has
`revisions_in_turn`: an entry whose latest row was lost to a
break is stuck (see [disagreements](#disagreements)), and one that has used its versions is done. Every
other run has no reachable deadlock.

Each property of a passing run is broken by a mutant of the code (a definition such as
`BeginsPastMax` next to the one it stands in for; `PROJECT.json` pairs them).

## Fairness

Only runs with a liveness property use `FairSpec`.

- `IterationSlots`: a holder releases in the end. An iteration is bounded by its own timer (15 min)
  and the process's exit.
- `ClaimedIterations`: time passes (`WF(Tick)`); a renewal that is due is issued and answered
  (`WF(Renewing)`: `setInterval` and a database call that ends); a task *that was told* to stop
  returns, which is the contract of `isCloseToTimeout`; a stopping process exits
  (`stopBackgroundTasks` has a time limit). Nothing is assumed of a task that was not told, or of a
  sweep.
  `OverlapEnds` excepts a process whose own sweep gives the task up for ever: each such sweep releases
  the claim under the iteration, and nothing in the code makes it stop.
- `ScheduledActions`: time passes; a call that began is carried on; recovery runs each minute; a process
  told to stop is replaced. Nothing is assumed of timers: an action ends even if none ever goes off.
- `Reviews`: a use case under way and a task's iteration go on to their end (a task whose process died
  is resumed by recovery or given up, which is `Dies`); and a review with a stuck step is opened now and
  then, since `GetReview` is the only place that looks for one. Nothing is assumed of people's requests.
- `RecoveredTasks`: the survivor boots, time passes, a sweep goes on (`startTaskRecovery`'s interval),
  iterations go on, a trigger's next step comes. Strong fairness only for the two writes of a sweep
  that are retried each minute (`SweepRecords`, `SweepFails`): a write that keeps failing for ever is
  a database that is down.
- `TaskRecord`: an update that was asked for is read and written, a task nobody runs is listed and
  resumed, and its code returns: strong, since it can save any number of times in between, and is
  bounded by the time of an iteration.

## Proofs

All theorems hold for every value of the constants that satisfies the module's named `ASSUME`.
Three of the properties they state (`LineIsExact`, `OneRunner`, `ClaimOutlastsRun`)
are parts or consequences of what the runs check, and are in no run of their own; so are
`TopIsLatest` and `NumberIsFree` of `EntryRevisions_proofs`, which are what `NewestIsLatest` rests on.
`OneWinner` is in a run that refutes it; the theorem has the hypothesis which that run does without.

| Module | Theorem | Says |
|---|---|---|
| `IterationSlots_proofs` | `TypeCorrect` | types |
| | `CountStaysExact`, `NoSlotIdles`, `LineStaysExact` | no slot is lost, doubled or idle; the line holds who waits, each once |
| | `ServedInOrder` | the first in line is served, and nobody is overtaken |
| `ClaimedIterations_proofs` | `TypeCorrect` | types |
| | `EveryRunUnderClaim` | `TimelyRenewals => (Spec => []RunsUnderClaim)` |
| | `OneRunnerPerTask` | hence one runner |
| | `ClaimsExcludeOthers` | hence `ExclusiveRuns!Spec` is implemented |
| | `ClaimsAreNotStolen` | a live claim never passes to another process, whatever the timing |
| | `SleepersAreLeftAlone` | `~MayGiveUp => (Spec => []LeftAloneUntilDue)`: whatever the waits, a sleeping task keeps its claim until due, or for a TTL if a late renewal shortens it |
| `RecoveredTasks_proofs` | `TypeCorrect` | types |
| | `TakeoversExcludeOthers` | `Spec => ImplementsExclusiveRuns` |
| | `RunningStaysClaimed` | `Spec => []RunningIsClaimed` |
| | `OnlyStoppedAreGivenUp` | `Spec => []DrivenIsNotGivenUp` |
| | `OutcomeStays` | `Spec => FinishedStaysFinished` |
| `SqlKeyValueStore_proofs` | `TypeCorrect`, `ChecksHold` | types; what a conditional write found holds when it commits |
| | `ChecksAndWritesAsOne` | without overtaken gets, `ConditionalStore!Spec` is implemented |
| | `OneCallerWins` | hence, of callers that insert and read, one wins: `GetsAlone, OnlyInserts => (Spec => []OneWinner)` |
| `TaskRecord_proofs` | `TypeCorrect` | types; iterations never pass the maximum |
| | `SettledForGood` | `Spec => SettledStaysSettled` |
| | `OutcomeUndone` | `Spec => OutcomeUndoneOnlyHalfWay` |
| `ScheduledActions_proofs` | `TypeCorrect` | types |
| | `OneRunPerClaim`, `ClaimOutlasts` | one run of an action at a due time is within its claim; the stored claim lasts as long as the run believes |
| | `RunsExcludeOthers` | hence `ExclusiveRuns!Spec` is implemented |
| `EntryRevisions_proofs` | `TypeCorrect` | types |
| | `RacesAreSettled` | `NothingIsDeleted => (Spec => []AtMostOneLatest)`, operations overlapping freely |
| | `OnlyLostWritesSplitFlags` | `OverlapSpec => [](lost \/ FlagsAgree)`: columns, JSON and status come apart only by a write over a change of another's, however requests overlap and break off |
| | `OnlyRacesPublishTwo` | `OverlapSpec => [](lost \/ raced \/ AtMostOnePublished)`: two rows are published only after such a write, or two publishing requests at once |
| | `NewestStaysLatest` | `OneAtATime => (Spec => []NewestIsLatest)` |
| | `NumbersAreFree` | `OneAtATime => (Spec => [](TopIsLatest /\ NumberIsFree))`: no row above the latest; a revision's number is free |
| | `LivePointerIsTrue` | `OneAtATime => (Spec => []LiveIsKeptUp)` |
| `Reviews_proofs` | `TypeCorrect` | types |
| | `StoredIsSound` | `Spec => []ReviewIsSound`: whatever overwrites what |
| | `OverlapsLose` | `Spec => OnlyOverlapsLose` |

**Slots.** One invariant, `IInv`, joins the types with the three properties, since each alone is not
inductive: a release may hand a slot on only because the line holds exactly those who wait.

**Claims.** `RunsUnderClaim` is not inductive: nothing in it says the claim is not about to end. The
invariant `RunsCovered` adds the account of time: what the claim has left, plus one `RenewEvery` for
each renewal missed and for the one under way, is at least the TTL plus the time to the next renewal.
A tick takes one from both sides; a renewal that lands restores the TTL; one that fails pays with its
miss, of which there are at most `MaxMisses`. `TimelyRenewals` (`RenewEvery * (MaxMisses + 1) < TTL`,
and no sweep gives a task up) then leaves the claim alive. A second conjunct, `OwnFlights`, says a
write counted as an iteration's own belongs to one that runs. With the claim held by its runner, two
runners are one, and a step that begins a run begins it where nobody runs.

`ClaimsAreNotStolen` needs the types only: it is read off each action, late renewals of iterations that
are over included. `SleepersAreLeftAlone` adds to the types how long a task has slept (`slept`): a
renewal that lands late leaves a claim of one TTL, so what is left of it and what was slept still make a
TTL together, and each tick moves one from the first to the second.

**Recovery.** The theorems assume nothing of slots, waits or writes: claims run out in line, sweeps take
tasks from lines, and any write fails. They cover what `takeovers` leaves out: several tasks, failing
writes, any number of processes, any waits. What they say is of tasks that no process's sweep took from
that process's own line ([disagreement 4](#disagreements)). The invariant of a task is, always, that nothing is about a task that does not
exist and that one just triggered is kept from sweeps by the grace period alone (`Known`; `Sheltered` says
that every list that has it says that it is new, however old the list); and, of a task not taken so, that
whoever runs it or sleeps on it holds its claim (`WorkedIsHeld`), that so does a sweep that has taken it,
whose process does not drive it (`SweptIsHeld`), that a sleeper's claim outlasts its sleep by a TTL, that
a task whose code runs has no outcome (`BodyIsUnfinished`), and that the trigger's answer brings none the
record has not (`AnswerIsBehind`). A task in line needs no claim: what it needs is that when it gets its
slot, and the claim is its process's or free, nobody else works on it (`WorksAlone`), which follows from
the rest. The proof is one lemma for a step that leaves a task alone (`Frame`), one for a step after which
one process alone may work on it (`OneWorker`), and what each action makes of the task it is about. For the refinement, `Begin` is the only action after which
a process is in an iteration that was not in it before; the task stood in that process's line, so it
drove the task, and so nobody else did.

**Store.** `IInv` says at each place of a call what it has seen and written: a transaction that is to
commit wrote exactly its call's record (`Drafts`) over a row that satisfies its condition as of the
time it looked (`CheckStillHolds`); an insert about to be refused faces a row that was live when it
was called (`RefusedByLive`), which gives the abstract refusal its point in time. The last needs
lifetimes longer than the time a call may take, an assumption of the module. `OneCallerWins` is
argued from the contract: each step is one of `ConditionalStore`'s, and in those the record of a caller
that won is there for its time (`WinnersRecordStays`), so an insert that finds no live record finds no
winner whose time is not up. `store_overtaken_get` shows that the proof cannot do without `GetsAlone`.

**Record.** `Settled` is stable because every writer that has read, has read a finished status, and
whoever has not will. That this also keeps iterations from going on needs: no iteration is under way
past its end once an outcome is stored (`Outcomes`), what it is about to save is no outcome
(`Saving`), and there is no record before the trigger (`Fresh`). `Saving` was found by the proof: the
other conjuncts hold in every reachable state but are not inductive without it.

**Scheduled actions.** The stored claim of an action at a due time counts down together with what the
run believes is left, so `ClaimOutlastsRun` survives each tick; it survives another run's taking the
claim because that needs a claim at zero, and a failed run's hold because `RunClaim <= RetryAfter`. A
second covered run would have to begin under a live claim: the claim of the first.

**Revisions.** Three arguments. *Nothing deleted.* When operations overlap and nothing is
deleted, versions are given out without gaps (`NoGaps`), the latest row is the highest one
(`TopIsLatest`), and whoever is about to insert version *v* + 1 has cleared the flag of *v* or will be
refused by the primary key (`Settling`).

*Overlaps, of any kind.* What a request has read of a row it is not behind on is still true of it
(`KnownRow`), and what it has decided suits what it has read (`PlanHolds`); as long as nothing was lost,
every write is of such a row (`Careful`), so it writes columns, JSON and status that agree. A request
that publishes has found every published row, and writes when none is left (`AllRetired`): only another
one that publishes could have made a new one since. Both theorems assume nothing of the requests; what
they excuse is in the code, and under [disagreements](#disagreements).

*In turn.* The one operation under way has nobody to overtake it: what it found stays fresh until it is
written (`RolesInv`), so each write takes a flag away or gives it to a row when no other row has it, and
the flags are exclusive and in step (lemma `RolesInTurn`). Two more invariants rest on it, each checked
by TLC before it was proved. *The numbers*: no row is ever above
the latest one, wherever an operation broke off, and while the flag is handed over the plan says to
whom (`OrderInv`); so a new revision's number is free, and the primary key refuses none. *The live
pointer*: it is moved in another statement than the published row, so between the two it names the
wrong one; `LiveInv` says when that is so, and that the row about to be written names the published
revision or will once the operation has ended.

**Reviews.** Why may copies overwrite each other and the review stay sound? Because soundness is a
property of a copy alone: each operation of the aggregate takes a *settled* review (steps in order,
tasks only where an automation is, somebody who can act) to one that is settled or still has a step to
reach, and reaching settles it. The invariant says so of the stored review and of every copy under way,
and a save makes one of these the stored one. That nothing is lost without an overlap needs one thing
more: a fresh copy, one that no other save came after, keeps what is stored (`Keeps`), which every
operation preserves and every save of another takes the word `fresh` from. `Known` (a step's task was
triggered) is there because an abort must find its task.

Assumed and not proved: clocks of the processes agree (claims are compared with each process's own
clock); a tick does not pass a renewal that is due (a delayed one is a missed one); a database that
serialises writers of a row.

Only model-checked: the liveness properties (`EveryoneIsAnswered`, `DeadOwnersClaimEnds`,
`OverlapEnds`, `TasksFinish`, `EndsForGood`, `EveryActionEnds`, `RunsAreSettled`), since the prover does
not reason about fairness and `ENABLED`. Each invariant and action property of a passing run is a theorem
or, for `AtMostOnePublished` and `FlagsAgree` of `revisions_in_turn`, part of the lemma `RolesInTurn`.

## Disagreements

Two are runs that TLC refutes, quoted in `PROJECT.json` under `findings`:

1. The count that should end a crash loop starts over with each takeover's first save.
2. A `get` of an expired record deletes a live one that was written in between.

Four more can be reproduced by stating the property in a run of one's own:

3. A shutdown between the handler's look at the signal and its listener
   (`InProcessBackgroundTaskHandler.ts:97`) is not heard by that iteration, which keeps its full time,
   though `:45` says "When the process starts shutting down, the running iteration's time runs out at
   once". `ClaimedIterations` has it: after `LookAtSignal`, `Stop`.
4. A task that waits in line for a slot longer than a TTL is counted by its own process's sweeps as
   "stopped with its process" and failed (`RecoverTasksHandler.ts:168`, `:192`), and its claim is released
   although the process may be running it by then. `takeovers` without its constraint, with one process and
   no faults, refutes `DrivenIsNotGivenUp` without `~selfTaken[t]`. The properties of `RecoveredTasks` name
   such a task and are about the others.
5. An action that is moved between a run's check of its due time and its load
   (`RunScheduledActionOnceDecorator.ts:70`) is run at its old time, though `:48` says "Due later means
   another process moved it and this timer is stale". `ScheduledActions` has it: a request between
   `ReadDue` and `LoadAction`.
6. A step run task that was aborted, and whose step was restarted under another task, between its second
   look at the review and its approval (`WorkflowStepRunTaskHandler.ts:201`) decides the new attempt,
   since the approval asks only who owns the step; `:172` says "A stale task writes nothing". `Reviews`
   has it: `Recheck`, an `AbortRun` with its hook, a `RestartStep`, `Decide`. That a decision of a person
   may be overwritten is known to the code (`ReviewSaver.ts:47`, "No optimistic locking on reviews").

Others were met on the way and are kept out of the properties, or in their preconditions:

- Two renewals missed in a row let the claim run out at the moment the third is due
  (`constants.ts:8`): hence `MaxMisses` in `TimelyRenewals`.
- A renewal still under way when its iteration ends may land after the extension past the wait and
  shorten it to one TTL (`ClaimRenewal.ts:37`, handler `:135`), so that a task with a longer wait is free
  to be taken, and run, before it is due: `LeftAloneUntilDue` names it (`late`) and says how far it goes.
- A sweep's list is stale: a sweep that gives up a task may write FAILED over a SUCCESS stored since it
  was listed (`RecoverTasksHandler.ts:185`). `FinishedStaysFinished` takes both for outcomes.
- A sweep that gives up a task which its own process drives by then releases the claim under it
  (`RecoverTasksHandler.ts:168`): hence `MayGiveUp` in `ClaimedIterations` and `selfTaken` in
  `RecoveredTasks`.
- A crash between storing a task and claiming it loses its delay: recovery starts it at once.
- An abort that comes while an iteration runs is overwritten by the iteration's RUNNING when it asks to
  continue, so an aborted task runs again (`DatabaseResponse.ts:76`). `OutcomeUndoneOnlyHalfWay`
  names it.
- The trigger's late save of the transport's answer writes back the status it read, so PENDING over
  SUCCESS (`BackgroundTaskService.ts:115`): a task that is done runs again.
  `OutcomeUndoneOnlyHalfWay` and `FinishedStaysFinished` name it; `EndsForGood` shows that it ends all the same.

About scheduled actions:

- A crash in a run, or a run of more than ten minutes, leaves the action to be run again, though the
  comments promise "at most once": `OneCoveredRun` is about runs within their claim.
- A run that succeeded deletes the entry whatever its due time is by then, and saving a failed run's
  error writes back the entry as read, so a move in between is lost
  (`ExecuteScheduledActionUseCase.ts:120`, `:139`): the action runs at its old time, and `EveryActionEnds`
  is satisfied with that. A failed run holds the claim for a day without
  looking whose it is by then.
- Moving an action does not undo the entry when the timer fails, as scheduling does; recovery makes up
  for it (`EveryActionEnds`).

About revisions:

- Two requests that publish two revisions at once find no row published, and leave two
  (`SqlPublishEntry.ts:37`; the schema's document says at most one). With `OneAtATime = FALSE` and two
  writers, `AtMostOnePublished` fails: this is `raced`. A delete that races with a new revision can leave
  two latest rows, which is why `RacesAreSettled` asks that nothing is deleted.
- A revision read before its entry goes to the bin, and inserted after, is not in the bin that holds the
  others (`queryHelpers.ts:92`, `SqlCreateEntryRevisionFrom.ts:70`): nobody looks again.
- A create revision that breaks off before its INSERT, or whose INSERT is refused, leaves an entry without
  a latest row (`SqlCreateEntryRevisionFrom.ts:49`). Every use case looks for it first: the entry is
  stuck, which is why these runs may deadlock.
- A revision made *published* from a draft has no live pointer, and one made from an older, once published
  revision has a stale one, since it copies its source's (`CreateEntryRevisionFromDataFactory.ts:245`):
  hence `straight` in `LiveIsKeptUp`.
- Rows are written back whole from earlier reads (`queryHelpers.ts:79`), so an overlapping save is lost,
  and may leave columns and JSON that disagree: this is `lost`.

## Not modelled

Inside the modelled parts: the contents of tasks, logs, lifecycle hooks, permissions, several tenants
and pages of a sweep (one list stands for them), the limit of 24 h on an execution and the time limit
of `loop.stop()` (both only end what `Exit` ends), collections and `list` of the key-value store, child
tasks and self-cleaning tasks. Of scheduled actions: what the handlers do, several tenants sharing the
timers of a process. Of entries: values, meta fields, references, permissions and events (the plan keeps
the flags, status, lock and live pointer); the use case's reads count as one step; updating a revision's
description, republishing (a save, then a publish), moving, and deleting several entries (one by one);
creating an entry anew under an id given by the caller; the DynamoDB storage. Of reviews: titles,
comments, picks and assignment rules, who is a candidate or may cancel or reassign, the assignment log,
notifications, and the copy of the state in the target's entry (written after a save, and by whoever
saves last); a second review of the same revision, which two requests at once may create; an AI step,
which is an automation that runs once; the clean-up of a deleted review's tasks.

Other parts of the repository are listed in `PROJECT.json` with their reasons. In short: user
interfaces, SDKs, rendering, command line and infrastructure have no concurrent state; uploads, mail
and webhooks are I/O; on AWS the loop, the retries and the key-value store's atomicity are the cloud's,
not the repository's. Record locking and the
clean-up of task subtrees are next in the plan.

## Plan

Done: claims first, since all else rests on them, then the record, the store, scheduled actions,
revisions and reviews; the proofs listed above.

Next, in this order:

1. **Composition of slots and recovery**: `RecoveredTasks`' line as an instance of `IterationSlots`.
2. **The DynamoDB storage of entries**, whose writes are batches and whose flags are separate items.
3. **Record locking**, and the **clean-up of task subtrees** with child tasks still being created.
