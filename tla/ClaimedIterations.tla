------------------------- MODULE ClaimedIterations -------------------------
(***************************************************************************)
(* How the processes of a standalone deployment share background tasks: a  *)
(* claim per task in the key-value store, the iterations each process runs *)
(* under it, and the renewal that extends it meanwhile                     *)
(* (packages/background-tasks-standalone/src: claim/, handlers/, the       *)
(* claim's users in service/ and recovery/, and loop/TaskExecution.ts).    *)
(*                                                                         *)
(* Time is discrete.  A claim and a sleep count down; a tick is a fraction *)
(* of the claim's life.  A write to the store lands at once when its       *)
(* caller does nothing else meanwhile; a renewal runs beside its           *)
(* iteration, so its write is issued in one step and lands in another.     *)
(* Time does not pass a renewal that is due or under way (Timely): that a  *)
(* process is slow shows as renewals missed, at most MaxMisses in a row.   *)
(* So a renewal lands in the tick in which its expiry was worked out.      *)
(*                                                                         *)
(* A process here is one process lifetime: the owner of a claim is a fresh *)
(* id per process, so a restarted server is another member of Procs.       *)
(***************************************************************************)
EXTENDS Integers

CONSTANTS
    Procs,       \* process lifetimes
    Tasks,
    None,        \* no owner, no task
    TTL,         \* CLAIM_TTL_MS, in ticks
    RenewEvery,  \* CLAIM_RENEW_EVERY_MS, in ticks
    Waits,       \* the waits and delays a task may ask for, in ticks
    MaxMisses,   \* bound: renewals that fail in a row
    MayGiveUp    \* whether a sweep may find a task picked up too often

ASSUME ClaimsAssumption ==
    /\ None \notin Procs /\ None \notin Tasks
    /\ TTL \in Nat \ {0}
    /\ RenewEvery \in Nat \ {0}
    /\ Waits \subseteq Nat /\ 0 \in Waits
    /\ MaxMisses \in Nat
    /\ MayGiveUp \in BOOLEAN

VARIABLES
    claim,    \* the claim record of each task: its owner and the ticks it has left
    exec,     \* the execution of each task in each process
    flight,   \* a renewal's write under way: none, its iteration's own, or of an earlier one
    trigger,  \* the tasks whose trigger in this process is about to start them
    sweep,    \* the task each process's recovery has taken and not yet passed on
    created,  \* the tasks triggered so far
    life      \* each process: off, up, stopping, dead

vars == <<claim, exec, flight, trigger, sweep, created, life>>

Stages ==
    {"none",        \* no execution in this process
     "queued",      \* asking for a slot
     "dispatched",  \* its iteration was dispatched, the handler has not looked at the signal yet
     "holding",     \* about to keep the claim
     "taking",      \* the claim was not its own: about to take it
     "running",     \* the runner has the task
     "releasing",   \* the iteration is over: about to release the claim
     "extending",   \* the task continues: about to extend the claim past the wait
     "leaving",     \* the same, for a process that is stopping
     "sleeping"}    \* waiting between iterations

Execution == [stage : Stages,
              wait : Nat,       \* ticks until the next iteration is due
              told : BOOLEAN,   \* its timer was expired: it should save and stop
              lost : BOOLEAN,   \* its renewal found the claim gone
              nextIn : Nat,     \* ticks until the next renewal
              misses : Nat,     \* renewals that failed in a row
              slept : Nat,      \* history: ticks it has slept
              late : BOOLEAN]   \* history: a renewal from before its sleep has landed in it

Idle == [stage |-> "none", wait |-> 0, told |-> FALSE, lost |-> FALSE, nextIn |-> 0, misses |-> 0,
         slept |-> 0, late |-> FALSE]
At(stage) == [Idle EXCEPT !.stage = stage]
AtFor(stage, w) == [Idle EXCEPT !.stage = stage, !.wait = w]
Begun == [Idle EXCEPT !.stage = "running", !.nextIn = RenewEvery]

\* What happens to an execution that runs: its renewal is issued, answered, refused or fails; it is
\* told to stop.
Issued(e) == [e EXCEPT !.nextIn = RenewEvery]
Extended(e) == [e EXCEPT !.misses = 0]
Missed(e) == [e EXCEPT !.misses = @ + 1]
Told(e) == [e EXCEPT !.told = TRUE]
Lost(e) == [e EXCEPT !.lost = TRUE, !.told = TRUE]
Overtaken(e) == IF e.stage = "sleeping" THEN [e EXCEPT !.late = TRUE] ELSE e

Lives == {"off", "up", "stopping", "dead"}
Alive(p) == life[p] \in {"up", "stopping"}
Running(p, t) == exec[p][t].stage = "running"
In(p, t, stage) == exec[p][t].stage = stage
Becomes(p, t, e) == exec' = [exec EXCEPT ![p][t] = e]

-----------------------------------------------------------------------------
(* The claim store (KeyValueTaskClaim).  An expired record counts as       *)
(* absent.                                                                 *)

NoClaim == [owner |-> None, left |-> 0]
Claim(p, n) == [owner |-> p, left |-> n]
Free(t) == claim[t].left = 0
HeldBy(p, t) == claim[t].left > 0 /\ claim[t].owner = p

\* Mutants: a write that does not look at whose the record is, one that is lost, a release of anyone's claim.
KeepAnyones(p, t, n) == ~Free(t) /\ claim' = [claim EXCEPT ![t] = Claim(p, n)]
KeepUnwritten(p, t, n) == HeldBy(p, t) /\ UNCHANGED claim
DropAnyones(p, t) == claim' = [claim EXCEPT ![t] = NoClaim]

\* take(): only where no live record is.
Take(p, t, n) == Free(t) /\ claim' = [claim EXCEPT ![t] = Claim(p, n)]

\* keep(): only a live record of this process.
Keep(p, t, n) == HeldBy(p, t) /\ claim' = [claim EXCEPT ![t] = Claim(p, n)]

\* release(): likewise; otherwise there is nothing of this process to release.
Drop(p, t) == claim' = IF HeldBy(p, t) THEN [claim EXCEPT ![t] = NoClaim] ELSE claim

\* An iteration that is over leaves its renewal's write behind.
LeaveFlight(p, t) ==
    flight' = [flight EXCEPT ![p][t] = IF @ = "own" THEN "old" ELSE @]

-----------------------------------------------------------------------------

Init ==
    /\ claim = [t \in Tasks |-> NoClaim]
    /\ exec = [p \in Procs |-> [t \in Tasks |-> Idle]]
    /\ flight = [p \in Procs |-> [t \in Tasks |-> "none"]]
    /\ trigger = [p \in Procs |-> {}]
    /\ sweep = [p \in Procs |-> None]
    /\ created = {}
    /\ life = [p \in Procs |-> "off"]

-----------------------------------------------------------------------------
(* Triggers: InProcessTaskService.send.                                    *)

\* The new task is claimed for its delay and one TTL more.
TriggerClaims(p, t, d) ==
    /\ Alive(p) /\ t \notin created
    /\ created' = created \cup {t}
    /\ Take(p, t, TTL + d)
    /\ trigger' = [trigger EXCEPT ![p] = @ \cup {t}]
    /\ UNCHANGED <<exec, flight, sweep, life>>

\* The claim cannot be written; the task is started all the same.
TriggerUnclaimed(p, t) ==
    /\ Alive(p) /\ t \notin created
    /\ created' = created \cup {t}
    /\ trigger' = [trigger EXCEPT ![p] = @ \cup {t}]
    /\ UNCHANGED <<claim, exec, flight, sweep, life>>

\* loop.start(): ignored while stopping, and for a task this process already drives.
Start(p, t) ==
    exec' = IF life[p] = "up" /\ In(p, t, "none")
              THEN [exec EXCEPT ![p][t] = At("queued")]
              ELSE exec

TriggerStarts(p, t) ==
    /\ t \in trigger[p]
    /\ Start(p, t)
    /\ trigger' = [trigger EXCEPT ![p] = @ \ {t}]
    /\ UNCHANGED <<claim, flight, sweep, created, life>>

-----------------------------------------------------------------------------
(* Recovery: one task at a time, RecoverTasksHandler.recoverTask.          *)

\* A task nobody holds; one that is held is skipped, which changes nothing.
SweepTakes(p, t) ==
    /\ life[p] = "up" /\ sweep[p] = None /\ t \in created
    /\ Take(p, t, TTL)
    /\ sweep' = [sweep EXCEPT ![p] = t]
    /\ UNCHANGED <<exec, flight, trigger, created, life>>

SweepStarts(p) ==
    /\ sweep[p] # None
    /\ Start(p, sweep[p])
    /\ sweep' = [sweep EXCEPT ![p] = None]
    /\ UNCHANGED <<claim, flight, trigger, created, life>>

\* Picked up too often: the task was failed, and its claim is released.
SweepGivesUp(p) ==
    /\ MayGiveUp
    /\ sweep[p] # None
    /\ Drop(p, sweep[p])
    /\ sweep' = [sweep EXCEPT ![p] = None]
    /\ UNCHANGED <<exec, flight, trigger, created, life>>

\* Counting the pick-up failed: skipped, with the claim left to run out.
SweepFails(p) ==
    /\ sweep[p] # None
    /\ sweep' = [sweep EXCEPT ![p] = None]
    /\ UNCHANGED <<claim, exec, flight, trigger, created, life>>

-----------------------------------------------------------------------------
(* One iteration: TaskExecution.run and InProcessBackgroundTaskHandler.    *)

\* A slot was granted and the iteration dispatched.
Dispatch(p, t) ==
    /\ In(p, t, "queued")
    /\ Becomes(p, t, At("dispatched"))
    /\ UNCHANGED <<claim, flight, trigger, sweep, created, life>>

\* The handler looks at the shutdown signal once, before it awaits anything.
LookAtSignal(p, t) ==
    /\ In(p, t, "dispatched")
    /\ Becomes(p, t, IF life[p] = "stopping" THEN Idle ELSE At("holding"))
    /\ UNCHANGED <<claim, flight, trigger, sweep, created, life>>

\* hold(): the claim is still this process's.
HoldKeeps(p, t) ==
    /\ In(p, t, "holding")
    /\ Keep(p, t, TTL)
    /\ Becomes(p, t, Begun)
    /\ UNCHANGED <<flight, trigger, sweep, created, life>>

HoldFindsNotOurs(p, t) ==
    /\ In(p, t, "holding")
    /\ ~HeldBy(p, t)
    /\ Becomes(p, t, At("taking"))
    /\ UNCHANGED <<claim, flight, trigger, sweep, created, life>>

HoldTakes(p, t) ==
    /\ In(p, t, "taking")
    /\ Take(p, t, TTL)
    /\ Becomes(p, t, Begun)
    /\ UNCHANGED <<flight, trigger, sweep, created, life>>

\* Claimed elsewhere: not this process's to run.
HoldRefused(p, t) ==
    /\ In(p, t, "taking")
    /\ ~Free(t)
    /\ Becomes(p, t, Idle)
    /\ UNCHANGED <<claim, flight, trigger, sweep, created, life>>

\* A write of the handler that fails is thrown, and ends the execution.
WriteThrows(p, t) ==
    /\ exec[p][t].stage \in {"holding", "taking", "extending", "leaving"}
    /\ Becomes(p, t, Idle)
    /\ UNCHANGED <<claim, flight, trigger, sweep, created, life>>

\* The runner rejects: the renewal stops, the claim stays, the execution ends.
RunThrows(p, t) ==
    /\ Running(p, t)
    /\ Becomes(p, t, Idle)
    /\ LeaveFlight(p, t)
    /\ UNCHANGED <<claim, trigger, sweep, created, life>>

\* The runner answers with anything but "continue".  A claim that was lost is left to its owner.
RunEnds(p, t) ==
    /\ Running(p, t)
    /\ Becomes(p, t, IF exec[p][t].lost THEN Idle ELSE At("releasing"))
    /\ LeaveFlight(p, t)
    /\ UNCHANGED <<claim, trigger, sweep, created, life>>

\* The runner answers "continue" with a wait.  A stopping process hands the task back, with its claim
\* released when it could go on at once and extended when it is due later.
RunContinues(p, t, w) ==
    /\ Running(p, t)
    /\ Becomes(p, t,
         IF exec[p][t].lost THEN Idle
         ELSE IF life[p] # "stopping" THEN AtFor("extending", w)
         ELSE IF w = 0 THEN At("releasing")
         ELSE AtFor("leaving", w))
    /\ LeaveFlight(p, t)
    /\ UNCHANGED <<claim, trigger, sweep, created, life>>

\* A release that fails is only logged; either way the execution ends.
Release(p, t) ==
    /\ In(p, t, "releasing")
    /\ Drop(p, t) \/ UNCHANGED claim
    /\ Becomes(p, t, Idle)
    /\ UNCHANGED <<flight, trigger, sweep, created, life>>

\* Mutant: the claim is given back for the wait.
ExtendByReleasing(p, t) ==
    /\ In(p, t, "extending")
    /\ HeldBy(p, t) /\ Drop(p, t)
    /\ Becomes(p, t,
         IF exec[p][t].wait > 0 THEN AtFor("sleeping", exec[p][t].wait)
         ELSE IF life[p] = "up" THEN At("queued") ELSE Idle)
    /\ UNCHANGED <<flight, trigger, sweep, created, life>>

\* The claim is extended past the wait.  An execution that goes on at once looks at the signal first.
Extend(p, t) ==
    /\ In(p, t, "extending")
    /\ Keep(p, t, TTL + exec[p][t].wait)
    /\ Becomes(p, t,
         IF exec[p][t].wait > 0 THEN AtFor("sleeping", exec[p][t].wait)
         ELSE IF life[p] = "up" THEN At("queued") ELSE Idle)
    /\ UNCHANGED <<flight, trigger, sweep, created, life>>

ExtendAndLeave(p, t) ==
    /\ In(p, t, "leaving")
    /\ Keep(p, t, TTL + exec[p][t].wait)
    /\ Becomes(p, t, Idle)
    /\ UNCHANGED <<flight, trigger, sweep, created, life>>

ExtendRefused(p, t) ==
    /\ exec[p][t].stage \in {"extending", "leaving"}
    /\ ~HeldBy(p, t)
    /\ Becomes(p, t, Idle)
    /\ UNCHANGED <<claim, flight, trigger, sweep, created, life>>

Wake(p, t) ==
    /\ In(p, t, "sleeping") /\ exec[p][t].wait = 0
    /\ Becomes(p, t, IF life[p] = "up" THEN At("queued") ELSE Idle)
    /\ UNCHANGED <<claim, flight, trigger, sweep, created, life>>

-----------------------------------------------------------------------------
(* The renewal: ClaimRenewal.                                              *)

\* The interval fires; a renewal that found the claim lost has cleared it.
RenewIssued(p, t) ==
    /\ Running(p, t) /\ ~exec[p][t].lost /\ exec[p][t].nextIn = 0
    /\ flight' = [flight EXCEPT ![p][t] = "own"]
    /\ Becomes(p, t, Issued(exec[p][t]))
    /\ UNCHANGED <<claim, trigger, sweep, created, life>>

\* The claim is extended: by one TTL, whichever iteration the write belongs to.
RenewKeeps(p, t) ==
    /\ flight[p][t] # "none"
    /\ Keep(p, t, TTL)
    /\ Becomes(p, t, IF flight[p][t] = "own" THEN Extended(exec[p][t]) ELSE Overtaken(exec[p][t]))
    /\ flight' = [flight EXCEPT ![p][t] = "none"]
    /\ UNCHANGED <<trigger, sweep, created, life>>

\* Mutant: the task is not told.
RenewLosesQuietly(p, t) ==
    /\ flight[p][t] # "none"
    /\ ~HeldBy(p, t)
    /\ exec' = IF flight[p][t] = "own" THEN [exec EXCEPT ![p][t].lost = TRUE] ELSE exec
    /\ flight' = [flight EXCEPT ![p][t] = "none"]
    /\ UNCHANGED <<claim, trigger, sweep, created, life>>

\* The claim is gone: the task is asked to save and stop.
RenewLoses(p, t) ==
    /\ flight[p][t] # "none"
    /\ ~HeldBy(p, t)
    /\ Becomes(p, t, IF flight[p][t] = "own" THEN Lost(exec[p][t]) ELSE exec[p][t])
    /\ flight' = [flight EXCEPT ![p][t] = "none"]
    /\ UNCHANGED <<claim, trigger, sweep, created, life>>

\* The write fails: the next one tries again.
RenewFails(p, t) ==
    /\ flight[p][t] # "none"
    /\ flight[p][t] = "own" => exec[p][t].misses < MaxMisses
    /\ Becomes(p, t, IF flight[p][t] = "own" THEN Missed(exec[p][t]) ELSE exec[p][t])
    /\ flight' = [flight EXCEPT ![p][t] = "none"]
    /\ UNCHANGED <<claim, trigger, sweep, created, life>>

-----------------------------------------------------------------------------
(* Processes and time.                                                     *)

Boot(p) ==
    /\ life[p] = "off"
    /\ life' = [life EXCEPT ![p] = "up"]
    /\ UNCHANGED <<claim, exec, flight, trigger, sweep, created>>

\* loop.stop(): running iterations hear the signal; those in line or asleep end.
Stop(p) ==
    /\ life[p] = "up"
    /\ life' = [life EXCEPT ![p] = "stopping"]
    /\ exec' = [exec EXCEPT ![p] = [t \in Tasks |->
                  IF @[t].stage \in {"queued", "sleeping"} THEN Idle
                  ELSE IF @[t].stage = "running" THEN Told(@[t])
                  ELSE @[t]]]
    /\ UNCHANGED <<claim, flight, trigger, sweep, created>>

\* A crash, or the exit that ends a shutdown.  A write already sent may still land.
Exit(p) ==
    /\ Alive(p)
    /\ life' = [life EXCEPT ![p] = "dead"]
    /\ exec' = [exec EXCEPT ![p] = [t \in Tasks |-> Idle]]
    /\ flight' = [flight EXCEPT ![p] = [t \in Tasks |-> IF @[t] = "own" THEN "old" ELSE @[t]]]
    /\ trigger' = [trigger EXCEPT ![p] = {}]
    /\ sweep' = [sweep EXCEPT ![p] = None]
    /\ UNCHANGED <<claim, created>>

Timely ==
    \A p \in Procs, t \in Tasks :
       /\ flight[p][t] = "none"
       /\ Running(p, t) /\ ~exec[p][t].lost => exec[p][t].nextIn > 0

\* Mutant: a claim without an expiry.
AgedNever(c) == c

Aged(c) == IF c.left <= 1 THEN NoClaim ELSE [c EXCEPT !.left = @ - 1]

\* Mutant: a sleep that goes on counting when it is over.
LaterPastZero(e) ==
    CASE e.stage = "sleeping" -> [e EXCEPT !.wait = @ - 1, !.slept = @ + 1]
      [] e.stage = "running" /\ ~e.lost -> [e EXCEPT !.nextIn = @ - 1]
      [] OTHER -> e

Later(e) ==
    CASE e.stage = "sleeping" /\ e.wait > 0 -> [e EXCEPT !.wait = @ - 1, !.slept = @ + 1]
      [] e.stage = "running" /\ ~e.lost -> [e EXCEPT !.nextIn = @ - 1]
      [] OTHER -> e

Tick ==
    /\ Timely
    /\ claim' = [t \in Tasks |-> Aged(claim[t])]
    /\ exec' = [p \in Procs |-> [t \in Tasks |-> Later(exec[p][t])]]
    /\ UNCHANGED <<flight, trigger, sweep, created, life>>

-----------------------------------------------------------------------------

Triggering(p, t) ==
    \/ \E d \in Waits : TriggerClaims(p, t, d)
    \/ TriggerUnclaimed(p, t)
    \/ TriggerStarts(p, t)

Sweeping(p) ==
    \/ \E t \in Tasks : SweepTakes(p, t)
    \/ SweepStarts(p) \/ SweepGivesUp(p) \/ SweepFails(p)

Iterating(p, t) ==
    \/ Dispatch(p, t) \/ LookAtSignal(p, t)
    \/ HoldKeeps(p, t) \/ HoldFindsNotOurs(p, t) \/ HoldTakes(p, t) \/ HoldRefused(p, t)
    \/ WriteThrows(p, t)
    \/ RunThrows(p, t) \/ RunEnds(p, t)
    \/ \E w \in Waits : RunContinues(p, t, w)
    \/ Release(p, t) \/ Extend(p, t) \/ ExtendAndLeave(p, t) \/ ExtendRefused(p, t)
    \/ Wake(p, t)

Renewing(p, t) ==
    RenewIssued(p, t) \/ RenewKeeps(p, t) \/ RenewLoses(p, t) \/ RenewFails(p, t)

Next ==
    \/ \E p \in Procs, t \in Tasks : Triggering(p, t) \/ Iterating(p, t) \/ Renewing(p, t)
    \/ \E p \in Procs : Sweeping(p) \/ Boot(p) \/ Stop(p) \/ Exit(p)
    \/ Tick

Spec == Init /\ [][Next]_vars

\* Time passes, the store answers, a task told to stop does, and a process that is stopping exits.
Fairness ==
    /\ WF_vars(Tick)
    /\ \A p \in Procs :
          /\ WF_vars(life[p] = "stopping" /\ Exit(p))
          /\ \A t \in Tasks :
                /\ WF_vars(Renewing(p, t))
                /\ WF_vars(exec[p][t].told /\ (RunEnds(p, t) \/ \E w \in Waits : RunContinues(p, t, w)))

FairSpec == Spec /\ Fairness

-----------------------------------------------------------------------------
(* Properties.                                                             *)

\* The variables hold values of their types.
TypeOK ==
    /\ claim \in [Tasks -> [owner : Procs \cup {None}, left : Nat]]
    /\ exec \in [Procs -> [Tasks -> Execution]]
    /\ flight \in [Procs -> [Tasks -> {"none", "own", "old"}]]
    /\ trigger \in [Procs -> SUBSET Tasks]
    /\ sweep \in [Procs -> Tasks \cup {None}]
    /\ created \subseteq Tasks
    /\ life \in [Procs -> Lives]

\* The code's proportions: renewals that fail leave the claim with time to live, and no sweep gives up
\* a task that its own process drives.
TimelyRenewals == RenewEvery * (MaxMisses + 1) < TTL /\ ~MayGiveUp

\* Every iteration runs under the task's claim: as long as renewals are not missed for a whole TTL
\* and no sweep gives a task up, whoever runs a task holds its live claim at every instant.
RunsUnderClaim ==
    \A p \in Procs, t \in Tasks : Running(p, t) => HeldBy(p, t)

\* Only one process drives a task at a time.
OneRunner ==
    \A t \in Tasks, p, q \in Procs : Running(p, t) /\ Running(q, t) => p = q

\* The same as a refinement: seen as the set of processes that run each task, the system behaves as
\* ExclusiveRuns does, so an iteration also begins only when nobody runs the task.
Exclusive == INSTANCE ExclusiveRuns
                WITH runners <- [t \in Tasks |-> {p \in Procs : Running(p, t)}]
ImplementsExclusiveRuns == Exclusive!Spec

\* However late or often a process writes, a claim that has not run out stays its owner's: it ends
\* early only when its owner gives it back, and never passes straight to another process.
ClaimNotStolen ==
    [][\A t \in Tasks :
          LET c == claim[t]
              d == claim'[t]
          IN  c.left > 0 =>
                \/ d.left > 0 /\ d.owner = c.owner
                \/ d.left = 0 /\ (c.left = 1 \/ In(c.owner, t, "releasing") \/ sweep[c.owner] = t)]_vars

\* Other processes leave a task alone until it is due again: one that sleeps between iterations holds
\* the claim for at least the rest of its wait, however long that is.  Only a renewal from before the
\* sleep that lands in it takes from that; it leaves the task a whole TTL of its sleep.
LeftAloneUntilDue ==
    \A p \in Procs, t \in Tasks :
       LET e == exec[p][t] IN
       In(p, t, "sleeping") /\ e.wait > 0 =>
          \/ HeldBy(p, t) /\ claim[t].left >= e.wait
          \/ e.late /\ (e.slept < TTL => HeldBy(p, t) /\ claim[t].left + e.slept >= TTL)

\* The claim of a process that died ends, so that another can take the task over.
DeadOwnersClaimEnds ==
    \A p \in Procs, t \in Tasks :
       claim[t].owner = p /\ life[p] = "dead" ~> claim[t].owner # p

\* Two processes that run the same task do not go on doing so: a renewal tells the one that lost it.
\* Where sweeps give tasks up, a process's own sweep may take the task it runs again and again before
\* its renewal looks; the overlap ends if sweeps leave the task alone from some time on.
OverlapEnds ==
    \A t \in Tasks, p, q \in Procs :
       \/ MayGiveUp /\ []<>(\E r \in Procs : sweep[r] = t)
       \/ p # q /\ Running(p, t) /\ Running(q, t) ~> ~(Running(p, t) /\ Running(q, t))
=============================================================================
