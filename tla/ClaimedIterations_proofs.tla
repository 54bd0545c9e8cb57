---------------------- MODULE ClaimedIterations_proofs ----------------------
(***************************************************************************)
(* Proofs about ClaimedIterations: with timely renewals, every iteration   *)
(* runs under its task's claim, so one process drives a task at a time,    *)
(* for any number of processes, tasks and waits and any claim life.        *)
(***************************************************************************)
EXTENDS ClaimedIterations, TLAPS

USE ClaimsAssumption

-----------------------------------------------------------------------------
(* What the helpers return.                                                *)

ClaimRecord == [owner : Procs \cup {None}, left : Nat]

\* The executions the actions write are executions.
LEMMA ExecutionTypes ==
    /\ Idle \in Execution /\ Idle.stage = "none"
    /\ Begun \in Execution
    /\ \A s \in Stages : At(s) \in Execution /\ At(s).stage = s
    /\ \A s \in Stages, w \in Nat : AtFor(s, w) \in Execution /\ AtFor(s, w).stage = s
  BY DEF Idle, Begun, At, AtFor, Execution, Stages

\* The same for what they change in one that is there.
LEMMA ExecutionUpdates ==
    ASSUME NEW e \in Execution
    PROVE  /\ Issued(e) \in Execution
           /\ Extended(e) \in Execution
           /\ Missed(e) \in Execution
           /\ Told(e) \in Execution
           /\ Lost(e) \in Execution
           /\ Overtaken(e) \in Execution
           /\ (e.stage = "running" /\ ~e.lost => e.nextIn > 0) => Later(e) \in Execution
<1>1. e.misses + 1 \in Nat
  BY DEF Execution
<1>2. Issued(e) \in Execution /\ Extended(e) \in Execution /\ Missed(e) \in Execution
  BY <1>1 DEF Execution, Issued, Extended, Missed
<1>3. Told(e) \in Execution /\ Lost(e) \in Execution /\ Overtaken(e) \in Execution
  BY DEF Execution, Told, Lost, Overtaken
<1>4. ASSUME e.stage = "running" /\ ~e.lost => e.nextIn > 0
      PROVE  Later(e) \in Execution
  <2>1. ASSUME e.stage = "sleeping", e.wait > 0
        PROVE  [e EXCEPT !.wait = e.wait - 1, !.slept = e.slept + 1] \in Execution
    <3>1. e.wait - 1 \in Nat /\ e.slept + 1 \in Nat
      BY <2>1 DEF Execution
    <3> QED
      BY <3>1 DEF Execution
  <2>2. ASSUME e.stage = "running", ~e.lost
        PROVE  [e EXCEPT !.nextIn = e.nextIn - 1] \in Execution
    <3>1. e.nextIn - 1 \in Nat
      BY <1>4, <2>2 DEF Execution
    <3> QED
      BY <3>1 DEF Execution
  <2> QED
    BY <2>1, <2>2 DEF Later
<1> QED
  BY <1>2, <1>3, <1>4

\* Putting one execution in its place keeps the type and leaves the others as they were.
LEMMA BecomesType ==
    ASSUME exec \in [Procs -> [Tasks -> Execution]],
           NEW p \in Procs, NEW t \in Tasks, NEW e \in Execution, Becomes(p, t, e)
    PROVE  /\ exec' \in [Procs -> [Tasks -> Execution]]
           /\ exec'[p][t] = e
           /\ \A q \in Procs, u \in Tasks : <<q, u>> # <<p, t>> => exec'[q][u] = exec[q][u]
  BY DEF Becomes

\* Each store operation leaves one claim record per task, and touches that of one task only.
LEMMA StoreTypes ==
    ASSUME claim \in [Tasks -> ClaimRecord],
           NEW p \in Procs, NEW t \in Tasks, NEW n \in Nat,
           Take(p, t, n) \/ Keep(p, t, n) \/ Drop(p, t)
    PROVE  /\ claim' \in [Tasks -> ClaimRecord]
           /\ \A u \in Tasks : u # t => claim'[u] = claim[u]
  BY DEF ClaimRecord, Take, Keep, Drop, Claim, NoClaim

\* LeaveFlight touches one flight.
LEMMA LeaveFlightType ==
    ASSUME flight \in [Procs -> [Tasks -> {"none", "own", "old"}]],
           NEW p \in Procs, NEW t \in Tasks, LeaveFlight(p, t)
    PROVE  /\ flight' \in [Procs -> [Tasks -> {"none", "own", "old"}]]
           /\ \A q \in Procs, u \in Tasks : <<q, u>> # <<p, t>> => flight'[q][u] = flight[q][u]
  BY DEF LeaveFlight

-----------------------------------------------------------------------------
(* Type correctness.                                                       *)

\* The initial values have their types.
LEMMA InitTypeOK == Init => TypeOK
  BY ExecutionTypes DEF Init, TypeOK, NoClaim, Lives

\* Triggering a task keeps the types.
LEMMA TriggeringTypeOK ==
    ASSUME TypeOK, NEW p \in Procs, NEW t \in Tasks, Triggering(p, t)
    PROVE  TypeOK'
<1>1. CASE \E d \in Waits : TriggerClaims(p, t, d)
  <2>1. PICK d \in Waits : TriggerClaims(p, t, d)
    BY <1>1
  <2>2. claim' \in [Tasks -> ClaimRecord]
    BY <2>1, StoreTypes DEF TriggerClaims, TypeOK, ClaimRecord
  <2> QED
    BY <2>1, <2>2 DEF TriggerClaims, TypeOK, ClaimRecord
<1>2. CASE TriggerUnclaimed(p, t)
  BY <1>2 DEF TriggerUnclaimed, TypeOK
<1>3. CASE TriggerStarts(p, t)
  <2>1. exec' \in [Procs -> [Tasks -> Execution]]
    BY <1>3, ExecutionTypes DEF TriggerStarts, Start, TypeOK, Stages
  <2> QED
    BY <1>3, <2>1 DEF TriggerStarts, TypeOK
<1> QED
  BY <1>1, <1>2, <1>3 DEF Triggering

\* So does a sweep.
LEMMA SweepingTypeOK ==
    ASSUME TypeOK, NEW p \in Procs, Sweeping(p)
    PROVE  TypeOK'
<1>1. CASE \E t \in Tasks : SweepTakes(p, t)
  <2>1. PICK t \in Tasks : SweepTakes(p, t)
    BY <1>1
  <2>2. claim' \in [Tasks -> ClaimRecord]
    BY <2>1, StoreTypes DEF SweepTakes, TypeOK, ClaimRecord
  <2> QED
    BY <2>1, <2>2 DEF SweepTakes, TypeOK, ClaimRecord
<1>2. CASE SweepStarts(p)
  <2>1. exec' \in [Procs -> [Tasks -> Execution]]
    BY <1>2, ExecutionTypes DEF SweepStarts, Start, TypeOK, Stages
  <2> QED
    BY <1>2, <2>1 DEF SweepStarts, TypeOK
<1>3. CASE SweepGivesUp(p)
  <2>1. sweep[p] \in Tasks
    BY <1>3 DEF SweepGivesUp, TypeOK
  <2>2. claim' \in [Tasks -> ClaimRecord]
    BY <1>3, <2>1, StoreTypes DEF SweepGivesUp, TypeOK, ClaimRecord
  <2> QED
    BY <1>3, <2>2 DEF SweepGivesUp, TypeOK, ClaimRecord
<1>4. CASE SweepFails(p)
  BY <1>4 DEF SweepFails, TypeOK
<1> QED
  BY <1>1, <1>2, <1>3, <1>4 DEF Sweeping

\* So does every step of an iteration.
LEMMA IteratingTypeOK ==
    ASSUME TypeOK, NEW p \in Procs, NEW t \in Tasks, Iterating(p, t)
    PROVE  TypeOK'
<1> USE DEF Stages
<1>1. CASE Dispatch(p, t)
  <2>1. exec' \in [Procs -> [Tasks -> Execution]]
    BY <1>1, ExecutionTypes, BecomesType DEF Dispatch, TypeOK
  <2> QED
    BY <1>1, <2>1 DEF Dispatch, TypeOK
<1>2. CASE LookAtSignal(p, t)
  <2>1. exec' \in [Procs -> [Tasks -> Execution]]
    BY <1>2, ExecutionTypes, BecomesType DEF LookAtSignal, TypeOK
  <2> QED
    BY <1>2, <2>1 DEF LookAtSignal, TypeOK
<1>3. CASE HoldKeeps(p, t)
  <2>1. exec' \in [Procs -> [Tasks -> Execution]]
    BY <1>3, ExecutionTypes, BecomesType DEF HoldKeeps, TypeOK
  <2>2. claim' \in [Tasks -> ClaimRecord]
    BY <1>3, StoreTypes DEF HoldKeeps, TypeOK, ClaimRecord
  <2> QED
    BY <1>3, <2>1, <2>2 DEF HoldKeeps, TypeOK, ClaimRecord
<1>4. CASE HoldFindsNotOurs(p, t)
  <2>1. exec' \in [Procs -> [Tasks -> Execution]]
    BY <1>4, ExecutionTypes, BecomesType DEF HoldFindsNotOurs, TypeOK
  <2> QED
    BY <1>4, <2>1 DEF HoldFindsNotOurs, TypeOK
<1>5. CASE HoldTakes(p, t)
  <2>1. exec' \in [Procs -> [Tasks -> Execution]]
    BY <1>5, ExecutionTypes, BecomesType DEF HoldTakes, TypeOK
  <2>2. claim' \in [Tasks -> ClaimRecord]
    BY <1>5, StoreTypes DEF HoldTakes, TypeOK, ClaimRecord
  <2> QED
    BY <1>5, <2>1, <2>2 DEF HoldTakes, TypeOK, ClaimRecord
<1>6. CASE HoldRefused(p, t)
  <2>1. exec' \in [Procs -> [Tasks -> Execution]]
    BY <1>6, ExecutionTypes, BecomesType DEF HoldRefused, TypeOK
  <2> QED
    BY <1>6, <2>1 DEF HoldRefused, TypeOK
<1>7. CASE WriteThrows(p, t)
  <2>1. exec' \in [Procs -> [Tasks -> Execution]]
    BY <1>7, ExecutionTypes, BecomesType DEF WriteThrows, TypeOK
  <2> QED
    BY <1>7, <2>1 DEF WriteThrows, TypeOK
<1>8. CASE RunThrows(p, t)
  <2>1. exec' \in [Procs -> [Tasks -> Execution]]
    BY <1>8, ExecutionTypes, BecomesType DEF RunThrows, TypeOK
  <2> QED
    BY <1>8, <2>1, LeaveFlightType DEF RunThrows, TypeOK
<1>9. CASE RunEnds(p, t)
  <2>1. exec' \in [Procs -> [Tasks -> Execution]]
    BY <1>9, ExecutionTypes, BecomesType DEF RunEnds, TypeOK
  <2> QED
    BY <1>9, <2>1, LeaveFlightType DEF RunEnds, TypeOK
<1>10. CASE \E w \in Waits : RunContinues(p, t, w)
  <2>1. PICK w \in Waits : RunContinues(p, t, w)
    BY <1>10
  <2>2. w \in Nat
    OBVIOUS
  <2>3. exec' \in [Procs -> [Tasks -> Execution]]
    BY <2>1, <2>2, ExecutionTypes, BecomesType DEF RunContinues, TypeOK
  <2> QED
    BY <2>1, <2>3, LeaveFlightType DEF RunContinues, TypeOK
<1>11. CASE Release(p, t)
  <2>1. exec' \in [Procs -> [Tasks -> Execution]]
    BY <1>11, ExecutionTypes, BecomesType DEF Release, TypeOK
  <2>2. claim' \in [Tasks -> ClaimRecord]
    BY <1>11, StoreTypes DEF Release, TypeOK, ClaimRecord
  <2> QED
    BY <1>11, <2>1, <2>2 DEF Release, TypeOK, ClaimRecord
<1>12. CASE Extend(p, t)
  <2>1. exec[p][t].wait \in Nat
    BY DEF TypeOK, Execution
  <2>2. exec' \in [Procs -> [Tasks -> Execution]]
    BY <1>12, <2>1, ExecutionTypes, BecomesType DEF Extend, TypeOK
  <2>3. claim' \in [Tasks -> ClaimRecord]
    BY <1>12, <2>1, StoreTypes DEF Extend, TypeOK, ClaimRecord
  <2> QED
    BY <1>12, <2>2, <2>3 DEF Extend, TypeOK, ClaimRecord
<1>13. CASE ExtendAndLeave(p, t)
  <2>1. exec[p][t].wait \in Nat
    BY DEF TypeOK, Execution
  <2>2. exec' \in [Procs -> [Tasks -> Execution]]
    BY <1>13, ExecutionTypes, BecomesType DEF ExtendAndLeave, TypeOK
  <2>3. claim' \in [Tasks -> ClaimRecord]
    BY <1>13, <2>1, StoreTypes DEF ExtendAndLeave, TypeOK, ClaimRecord
  <2> QED
    BY <1>13, <2>2, <2>3 DEF ExtendAndLeave, TypeOK, ClaimRecord
<1>14. CASE ExtendRefused(p, t)
  <2>1. exec' \in [Procs -> [Tasks -> Execution]]
    BY <1>14, ExecutionTypes, BecomesType DEF ExtendRefused, TypeOK
  <2> QED
    BY <1>14, <2>1 DEF ExtendRefused, TypeOK
<1>15. CASE Wake(p, t)
  <2>1. exec' \in [Procs -> [Tasks -> Execution]]
    BY <1>15, ExecutionTypes, BecomesType DEF Wake, TypeOK
  <2> QED
    BY <1>15, <2>1 DEF Wake, TypeOK
<1> QED
  BY <1>1, <1>2, <1>3, <1>4, <1>5, <1>6, <1>7, <1>8, <1>9, <1>10, <1>11, <1>12, <1>13, <1>14,
     <1>15 DEF Iterating

\* So does a renewal.
LEMMA RenewingTypeOK ==
    ASSUME TypeOK, NEW p \in Procs, NEW t \in Tasks, Renewing(p, t)
    PROVE  TypeOK'
<1>1. exec[p][t] \in Execution
  BY DEF TypeOK
<1>2. CASE RenewIssued(p, t)
  <2>1. Issued(exec[p][t]) \in Execution
    BY <1>1, ExecutionUpdates
  <2>2. exec' \in [Procs -> [Tasks -> Execution]]
    BY <1>1, <1>2, <2>1, BecomesType DEF RenewIssued, TypeOK
  <2> QED
    BY <1>2, <2>2 DEF RenewIssued, TypeOK
<1>3. CASE RenewKeeps(p, t)
  <2>1. Extended(exec[p][t]) \in Execution /\ Overtaken(exec[p][t]) \in Execution
    BY <1>1, ExecutionUpdates
  <2>2. exec' \in [Procs -> [Tasks -> Execution]]
    BY <1>1, <1>3, <2>1, BecomesType DEF RenewKeeps, TypeOK
  <2>3. claim' \in [Tasks -> ClaimRecord]
    BY <1>3, StoreTypes DEF RenewKeeps, TypeOK, ClaimRecord
  <2> QED
    BY <1>3, <2>2, <2>3 DEF RenewKeeps, TypeOK, ClaimRecord
<1>4. CASE RenewLoses(p, t)
  <2>1. Lost(exec[p][t]) \in Execution
    BY <1>1, ExecutionUpdates
  <2>2. exec' \in [Procs -> [Tasks -> Execution]]
    BY <1>1, <1>4, <2>1, BecomesType DEF RenewLoses, TypeOK
  <2> QED
    BY <1>4, <2>2 DEF RenewLoses, TypeOK
<1>5. CASE RenewFails(p, t)
  <2>1. Missed(exec[p][t]) \in Execution
    BY <1>1, ExecutionUpdates
  <2>2. exec' \in [Procs -> [Tasks -> Execution]]
    BY <1>1, <1>5, <2>1, BecomesType DEF RenewFails, TypeOK
  <2> QED
    BY <1>5, <2>2 DEF RenewFails, TypeOK
<1> QED
  BY <1>2, <1>3, <1>4, <1>5 DEF Renewing

\* So do the processes' lives and the passing of time, which never counts below zero.
LEMMA LivingTypeOK ==
    ASSUME TypeOK, NEW p \in Procs, Boot(p) \/ Stop(p) \/ Exit(p)
    PROVE  TypeOK'
<1>1. CASE Boot(p)
  BY <1>1 DEF Boot, TypeOK, Lives
<1>2. CASE Stop(p)
  <2>1. \A t \in Tasks : exec[p][t] \in Execution /\ Told(exec[p][t]) \in Execution
    BY ExecutionUpdates DEF TypeOK
  <2>2. exec' \in [Procs -> [Tasks -> Execution]]
    BY <1>2, <2>1, ExecutionTypes DEF Stop, TypeOK
  <2> QED
    BY <1>2, <2>2 DEF Stop, TypeOK, Lives
<1>3. CASE Exit(p)
  <2>1. exec' \in [Procs -> [Tasks -> Execution]]
    BY <1>3, ExecutionTypes DEF Exit, TypeOK
  <2> QED
    BY <1>3, <2>1 DEF Exit, TypeOK, Lives
<1> QED
  BY <1>1, <1>2, <1>3

\* Time never counts below zero: it does not pass a renewal that is due.
LEMMA TickTypeOK == ASSUME TypeOK, Tick PROVE TypeOK'
<1>1. claim' \in [Tasks -> ClaimRecord]
  <2>1. \A t \in Tasks : Aged(claim[t]) \in ClaimRecord
    BY DEF Aged, NoClaim, TypeOK, ClaimRecord
  <2> QED
    BY <2>1 DEF Tick
<1>2. exec' \in [Procs -> [Tasks -> Execution]]
  <2>1. \A p \in Procs, t \in Tasks : Later(exec[p][t]) \in Execution
    <3>1. SUFFICES ASSUME NEW p \in Procs, NEW t \in Tasks
                   PROVE  Later(exec[p][t]) \in Execution
      OBVIOUS
    <3>2. exec[p][t] \in Execution /\ exec[p][t].nextIn \in Nat
      BY DEF TypeOK, Execution
    <3>3. exec[p][t].stage = "running" /\ ~exec[p][t].lost => exec[p][t].nextIn > 0
      BY DEF Tick, Timely, Running
    <3> QED
      BY <3>2, <3>3, ExecutionUpdates
  <2> QED
    BY <2>1 DEF Tick
<1> QED
  BY <1>1, <1>2 DEF Tick, TypeOK, ClaimRecord

\* Every step keeps the types.
LEMMA NextTypeOK == TypeOK /\ [Next]_vars => TypeOK'
<1> SUFFICES ASSUME TypeOK, [Next]_vars PROVE TypeOK'
  OBVIOUS
<1>1. CASE \E p \in Procs, t \in Tasks : Triggering(p, t) \/ Iterating(p, t) \/ Renewing(p, t)
  BY <1>1, TriggeringTypeOK, IteratingTypeOK, RenewingTypeOK
<1>2. CASE \E p \in Procs : Sweeping(p) \/ Boot(p) \/ Stop(p) \/ Exit(p)
  BY <1>2, SweepingTypeOK, LivingTypeOK
<1>3. CASE Tick
  BY <1>3, TickTypeOK
<1>4. CASE UNCHANGED vars
  BY <1>4 DEF vars, TypeOK
<1> QED
  BY <1>1, <1>2, <1>3, <1>4 DEF Next

\* The variables keep their types: no countdown passes zero, for any instance.
THEOREM TypeCorrect == Spec => []TypeOK
  BY InitTypeOK, NextTypeOK, PTL DEF Spec

-----------------------------------------------------------------------------
(* The inductive invariant.                                                *)

\* What the renewals missed so far may have cost a claim, in ticks.
Slack(m) == (m + 1) * RenewEvery

\* The claim of a task that runs is its runner's, and what it has left covers the renewals that may
\* still be missed: it lost one RenewEvery for each one missed and what has passed of the current one.
Covered(p, t) ==
    LET e == exec[p][t]
    IN  /\ ~e.lost
        /\ claim[t].owner = p
        /\ e.misses <= MaxMisses
        /\ e.nextIn <= RenewEvery
        /\ flight[p][t] = "own" => e.nextIn = RenewEvery
        /\ claim[t].left + Slack(e.misses)
             >= TTL + (IF flight[p][t] = "own" THEN 0 ELSE e.nextIn)

RunsCovered == \A p \in Procs, t \in Tasks : Running(p, t) => Covered(p, t)

\* A write that is an iteration's own belongs to one that runs.
OwnFlights == \A p \in Procs, t \in Tasks : flight[p][t] = "own" => Running(p, t)

IInv == TypeOK /\ RunsCovered /\ OwnFlights

\* The arithmetic of the bound: the only place where its product is looked into.
LEMMA SlackFacts ==
    ASSUME TimelyRenewals
    PROVE  /\ Slack(0) = RenewEvery
           /\ \A m \in Nat : /\ Slack(m) \in Nat /\ Slack(m + 1) = Slack(m) + RenewEvery
                           /\ RenewEvery <= Slack(m)
           /\ \A m \in Nat : m <= MaxMisses => Slack(m) < TTL
<1>1. Slack(0) = RenewEvery
  BY DEF Slack
<1>2. ASSUME NEW m \in Nat
      PROVE  /\ Slack(m) \in Nat /\ Slack(m + 1) = Slack(m) + RenewEvery
             /\ RenewEvery <= Slack(m)
  <2>1. Slack(m) = m * RenewEvery + RenewEvery /\ m * RenewEvery \in Nat
    BY DEF Slack
  <2>2. Slack(m + 1) = m * RenewEvery + RenewEvery + RenewEvery
    BY DEF Slack
  <2> QED
    BY <2>1, <2>2
<1>3. ASSUME NEW m \in Nat, m <= MaxMisses
      PROVE  Slack(m) < TTL
  <2>1. PICK k \in Nat : MaxMisses = m + k
    <3>1. MaxMisses - m \in Nat /\ MaxMisses = m + (MaxMisses - m)
      BY <1>3
    <3> QED
      BY <3>1
  <2>2. RenewEvery * (MaxMisses + 1) = Slack(m) + RenewEvery * k /\ RenewEvery * k \in Nat
    BY <2>1 DEF Slack
  <2> QED
    BY <1>2, <2>2 DEF TimelyRenewals
<1> QED
  BY <1>1, <1>2, <1>3

\* Whoever runs a task holds its live claim.
LEMMA CoveredIsHeld ==
    ASSUME TimelyRenewals, TypeOK, NEW p \in Procs, NEW t \in Tasks, Covered(p, t)
    PROVE  HeldBy(p, t)
<1> DEFINE e == exec[p][t]
<1>1. e.misses \in Nat /\ e.nextIn \in Nat /\ claim[t].left \in Nat
  BY DEF TypeOK, Execution
<1>2. Slack(e.misses) \in Nat /\ Slack(e.misses) < TTL
  BY <1>1, SlackFacts DEF Covered
<1>3. claim[t].left + Slack(e.misses) >= TTL
  BY <1>1, <1>2 DEF Covered
<1>4. claim[t].left > 0
  BY <1>1, <1>2, <1>3
<1> QED
  BY <1>4 DEF HeldBy, Covered

\* What a step may do to a run that goes on: leave its execution and its renewal's write as they are,
\* and its claim too unless it makes it longer.
LEMMA StaysCovered ==
    ASSUME TypeOK, TypeOK', NEW p \in Procs, NEW t \in Tasks, Covered(p, t),
           exec'[p][t] = exec[p][t], flight'[p][t] = flight[p][t],
           claim'[t].owner = claim[t].owner, claim'[t].left >= claim[t].left,
           TimelyRenewals
    PROVE  Covered(p, t)'
<1>1. /\ exec[p][t].misses \in Nat /\ exec[p][t].nextIn \in Nat
      /\ claim[t].left \in Nat /\ claim'[t].left \in Nat
  BY DEF TypeOK, Execution
<1>2. Slack(exec[p][t].misses) \in Nat
  BY <1>1, SlackFacts
<1> QED
  BY <1>1, <1>2 DEF Covered

\* An iteration that begins has a whole TTL ahead of it.
LEMMA BegunIsCovered ==
    ASSUME TimelyRenewals, NEW p \in Procs, NEW t \in Tasks, TypeOK', flight'[p][t] # "own",
           exec'[p][t] = Begun, claim'[t] = Claim(p, TTL)
    PROVE  Covered(p, t)'
<1>1. /\ exec'[p][t].misses = 0 /\ exec'[p][t].nextIn = RenewEvery /\ ~exec'[p][t].lost
      /\ claim'[t].owner = p /\ claim'[t].left = TTL
  BY DEF Begun, Idle, Claim
<1>2. Slack(0) = RenewEvery
  BY SlackFacts
<1> QED
  BY <1>1, <1>2 DEF Covered

-----------------------------------------------------------------------------
(* Every step keeps the invariant.                                         *)

\* The store never touches a live claim of another process.
LEMMA StoreRespectsOthers ==
    ASSUME TypeOK, NEW p \in Procs, NEW t \in Tasks, NEW n \in Nat,
           Take(p, t, n) \/ Keep(p, t, n) \/ Drop(p, t) \/ UNCHANGED claim,
           NEW q \in Procs, q # p, HeldBy(q, t)
    PROVE  claim'[t] = claim[t]
  BY DEF Take, Keep, Drop, HeldBy, Free, TypeOK

\* A step of one execution keeps the invariant when it keeps it there and respects the live claims of
\* the other processes.
LEMMA OneExecutionStep ==
    ASSUME TimelyRenewals, IInv, TypeOK', NEW p \in Procs, NEW t \in Tasks,
           \A q \in Procs, u \in Tasks :
              <<q, u>> # <<p, t>> => exec'[q][u] = exec[q][u] /\ flight'[q][u] = flight[q][u],
           \A u \in Tasks : u # t => claim'[u] = claim[u],
           \A q \in Procs : q # p /\ HeldBy(q, t) => claim'[t] = claim[t],
           Running(p, t)' => Covered(p, t)',
           flight'[p][t] = "own" => Running(p, t)'
    PROVE  IInv'
<1>1. ASSUME NEW q \in Procs, NEW u \in Tasks, <<q, u>> # <<p, t>>, Running(q, u)'
      PROVE  Covered(q, u)'
  <2>1. exec'[q][u] = exec[q][u] /\ flight'[q][u] = flight[q][u]
    BY <1>1
  <2>2. Covered(q, u) /\ HeldBy(q, u)
    BY <1>1, <2>1, CoveredIsHeld DEF IInv, RunsCovered, Running
  <2>3. claim'[u] = claim[u]
    BY <1>1, <2>2
  <2>4. claim'[u].left >= claim[u].left /\ claim'[u].owner = claim[u].owner
    BY <2>3 DEF IInv, TypeOK
  <2> QED
    BY <2>1, <2>2, <2>4, StaysCovered DEF IInv
<1>2. RunsCovered'
  BY <1>1 DEF RunsCovered
<1>3. OwnFlights'
  BY DEF IInv, OwnFlights, Running
<1> QED
  BY <1>2, <1>3 DEF IInv

\* A step that leaves every execution that runs alone, and every live claim, keeps the invariant.
LEMMA QuietStep ==
    ASSUME TimelyRenewals, IInv, TypeOK', flight' = flight,
           \A q \in Procs, u \in Tasks :
              (Running(q, u) \/ Running(q, u)') => exec'[q][u] = exec[q][u],
           \A q \in Procs, u \in Tasks : HeldBy(q, u) => claim'[u] = claim[u]
    PROVE  IInv'
<1>1. ASSUME NEW q \in Procs, NEW u \in Tasks, Running(q, u)'
      PROVE  Covered(q, u)'
  <2>1. exec'[q][u] = exec[q][u] /\ flight'[q][u] = flight[q][u]
    BY <1>1
  <2>2. Covered(q, u) /\ HeldBy(q, u)
    BY <1>1, <2>1, CoveredIsHeld DEF IInv, RunsCovered, Running
  <2>3. claim'[u] = claim[u]
    BY <2>2
  <2>4. claim'[u].left >= claim[u].left /\ claim'[u].owner = claim[u].owner
    BY <2>3 DEF IInv, TypeOK
  <2> QED
    BY <2>1, <2>2, <2>4, StaysCovered DEF IInv
<1>2. RunsCovered'
  BY <1>1 DEF RunsCovered
<1>3. OwnFlights'
  BY DEF IInv, OwnFlights, Running
<1> QED
  BY <1>2, <1>3 DEF IInv

\* A claim can be taken only where nobody holds one.
LEMMA TakeIsQuiet ==
    ASSUME TypeOK, NEW p \in Procs, NEW t \in Tasks, NEW n \in Nat, Take(p, t, n)
    PROVE  \A q \in Procs, u \in Tasks : HeldBy(q, u) => claim'[u] = claim[u]
  BY DEF Take, HeldBy, Free, TypeOK

\* start() touches only an execution that is not there.
LEMMA StartIsQuiet ==
    ASSUME TypeOK, NEW p \in Procs, NEW t \in Tasks, Start(p, t)
    PROVE  \A q \in Procs, u \in Tasks :
              (Running(q, u) \/ Running(q, u)') => exec'[q][u] = exec[q][u]
<1> SUFFICES ASSUME NEW q \in Procs, NEW u \in Tasks, exec'[q][u] # exec[q][u]
             PROVE  ~Running(q, u) /\ ~Running(q, u)'
  OBVIOUS
<1>1. q = p /\ u = t /\ In(p, t, "none") /\ exec'[p][t] = At("queued")
  BY DEF Start, TypeOK
<1>2. At("queued").stage = "queued"
  BY ExecutionTypes DEF Stages
<1> QED
  BY <1>1, <1>2 DEF In, Running

\* Triggering a task keeps the invariant.
LEMMA TriggeringIInv ==
    ASSUME TimelyRenewals, IInv, TypeOK', NEW p \in Procs, NEW t \in Tasks, Triggering(p, t)
    PROVE  IInv'
<1>1. CASE \E d \in Waits : TriggerClaims(p, t, d)
  <2>1. PICK d \in Waits : TriggerClaims(p, t, d)
    BY <1>1
  <2>2. TTL + d \in Nat
    OBVIOUS
  <2>3. \A q \in Procs, u \in Tasks : HeldBy(q, u) => claim'[u] = claim[u]
    BY <2>1, <2>2, TakeIsQuiet DEF TriggerClaims, IInv
  <2> QED
    BY <2>1, <2>3, QuietStep DEF TriggerClaims
<1>2. CASE TriggerUnclaimed(p, t)
  BY <1>2, QuietStep DEF TriggerUnclaimed
<1>3. CASE TriggerStarts(p, t)
  BY <1>3, StartIsQuiet, QuietStep DEF TriggerStarts, IInv
<1> QED
  BY <1>1, <1>2, <1>3 DEF Triggering

\* So does a sweep that does not give a task up: it takes only what nobody holds.
LEMMA SweepingIInv ==
    ASSUME TimelyRenewals, IInv, TypeOK', NEW p \in Procs, Sweeping(p)
    PROVE  IInv'
<1>1. CASE \E t \in Tasks : SweepTakes(p, t)
  <2>1. PICK t \in Tasks : SweepTakes(p, t)
    BY <1>1
  <2>2. \A q \in Procs, u \in Tasks : HeldBy(q, u) => claim'[u] = claim[u]
    BY <2>1, TakeIsQuiet DEF SweepTakes, IInv
  <2> QED
    BY <2>1, <2>2, QuietStep DEF SweepTakes
<1>2. CASE SweepStarts(p)
  <2>1. sweep[p] \in Tasks
    BY <1>2 DEF SweepStarts, IInv, TypeOK
  <2> QED
    BY <1>2, <2>1, StartIsQuiet, QuietStep DEF SweepStarts, IInv
<1>3. CASE SweepGivesUp(p)
  BY <1>3 DEF SweepGivesUp, TimelyRenewals
<1>4. CASE SweepFails(p)
  BY <1>4, QuietStep DEF SweepFails
<1> QED
  BY <1>1, <1>2, <1>3, <1>4 DEF Sweeping

\* A step of one execution that ends outside the runner, with the store's answer to it.
LEMMA StepOutsideRunner ==
    ASSUME TimelyRenewals, IInv, TypeOK', NEW p \in Procs, NEW t \in Tasks, NEW n \in Nat,
           NEW e \in Execution, Becomes(p, t, e), e.stage # "running",
           Take(p, t, n) \/ Keep(p, t, n) \/ Drop(p, t) \/ UNCHANGED claim,
           flight'[p][t] # "own",
           \A q \in Procs, u \in Tasks : <<q, u>> # <<p, t>> => flight'[q][u] = flight[q][u]
    PROVE  IInv'
<1>1. /\ exec'[p][t] = e
      /\ \A q \in Procs, u \in Tasks : <<q, u>> # <<p, t>> => exec'[q][u] = exec[q][u]
  BY BecomesType DEF IInv, TypeOK
<1>2. \A u \in Tasks : u # t => claim'[u] = claim[u]
  BY StoreTypes DEF IInv, TypeOK, ClaimRecord
<1>3. \A q \in Procs : q # p /\ HeldBy(q, t) => claim'[t] = claim[t]
  BY StoreRespectsOthers DEF IInv
<1>4. ~Running(p, t)'
  BY <1>1 DEF Running
<1> QED
  BY <1>1, <1>2, <1>3, <1>4, OneExecutionStep

\* Outside the runner there is no write of the iteration's own under way.
LEMMA StepElsewhere ==
    ASSUME TimelyRenewals, IInv, TypeOK', NEW p \in Procs, NEW t \in Tasks, NEW n \in Nat,
           NEW e \in Execution, Becomes(p, t, e), e.stage # "running", ~Running(p, t),
           Take(p, t, n) \/ Keep(p, t, n) \/ Drop(p, t) \/ UNCHANGED claim,
           UNCHANGED flight
    PROVE  IInv'
<1>1. flight'[p][t] # "own"
  BY DEF IInv, OwnFlights
<1>2. \A q \in Procs, u \in Tasks : <<q, u>> # <<p, t>> => flight'[q][u] = flight[q][u]
  OBVIOUS
<1> QED
  BY <1>1, <1>2, StepOutsideRunner

\* A run that ends leaves its write under way behind, and the claim as it was.
LEMMA StepOutOfRunner ==
    ASSUME TimelyRenewals, IInv, TypeOK', NEW p \in Procs, NEW t \in Tasks,
           NEW e \in Execution, Becomes(p, t, e), e.stage # "running",
           UNCHANGED claim, LeaveFlight(p, t)
    PROVE  IInv'
<1>1. flight'[p][t] # "own"
  BY DEF LeaveFlight, IInv, TypeOK
<1>2. \A q \in Procs, u \in Tasks : <<q, u>> # <<p, t>> => flight'[q][u] = flight[q][u]
  BY LeaveFlightType DEF IInv, TypeOK
<1>3. TTL \in Nat
  OBVIOUS
<1> QED
  BY <1>1, <1>2, <1>3, StepOutsideRunner

\* A step that begins an iteration, under a claim just written.
LEMMA StepIntoRunner ==
    ASSUME TimelyRenewals, IInv, TypeOK', NEW p \in Procs, NEW t \in Tasks,
           ~Running(p, t), Becomes(p, t, Begun), Take(p, t, TTL) \/ Keep(p, t, TTL),
           UNCHANGED flight
    PROVE  IInv'
<1>1. /\ exec'[p][t] = Begun
      /\ \A q \in Procs, u \in Tasks : <<q, u>> # <<p, t>> => exec'[q][u] = exec[q][u]
  BY BecomesType, ExecutionTypes DEF IInv, TypeOK
<1>2. flight'[p][t] # "own"
  BY DEF IInv, OwnFlights
<1>3. claim'[t] = Claim(p, TTL) /\ \A u \in Tasks : u # t => claim'[u] = claim[u]
  BY StoreTypes DEF IInv, TypeOK, ClaimRecord, Take, Keep
<1>4. \A q \in Procs : q # p /\ HeldBy(q, t) => claim'[t] = claim[t]
  BY StoreRespectsOthers DEF IInv
<1>5. Covered(p, t)'
  BY <1>1, <1>2, <1>3, BegunIsCovered
<1> QED
  BY <1>1, <1>2, <1>3, <1>4, <1>5, OneExecutionStep

\* Every step of an iteration keeps the invariant.
LEMMA IteratingIInv ==
    ASSUME TimelyRenewals, IInv, TypeOK', NEW p \in Procs, NEW t \in Tasks, Iterating(p, t)
    PROVE  IInv'
<1> DEFINE w0 == exec[p][t].wait
<1>0. w0 \in Nat /\ TTL + w0 \in Nat /\ TTL \in Nat
  BY DEF IInv, TypeOK, Execution
<1> USE DEF Stages
<1>1. CASE Dispatch(p, t)
  BY <1>0, <1>1, ExecutionTypes, StepElsewhere DEF Dispatch, In, Running
<1>2. CASE LookAtSignal(p, t)
  <2>1. CASE life[p] = "stopping"
    BY <1>0, <1>2, <2>1, ExecutionTypes, StepElsewhere DEF LookAtSignal, In, Running
  <2>2. CASE life[p] # "stopping"
    BY <1>0, <1>2, <2>2, ExecutionTypes, StepElsewhere DEF LookAtSignal, In, Running
  <2> QED
    BY <2>1, <2>2
<1>3. CASE HoldKeeps(p, t)
  BY <1>3, StepIntoRunner DEF HoldKeeps, In, Running
<1>4. CASE HoldFindsNotOurs(p, t)
  BY <1>0, <1>4, ExecutionTypes, StepElsewhere DEF HoldFindsNotOurs, In, Running
<1>5. CASE HoldTakes(p, t)
  BY <1>5, StepIntoRunner DEF HoldTakes, In, Running
<1>6. CASE HoldRefused(p, t)
  BY <1>0, <1>6, ExecutionTypes, StepElsewhere DEF HoldRefused, In, Running
<1>7. CASE WriteThrows(p, t)
  BY <1>0, <1>7, ExecutionTypes, StepElsewhere DEF WriteThrows, In, Running
<1>8. CASE RunThrows(p, t)
  <2>1. Idle \in Execution /\ Idle.stage # "running"
    BY ExecutionTypes
  <2>2. Becomes(p, t, Idle) /\ LeaveFlight(p, t) /\ UNCHANGED claim
    BY <1>8 DEF RunThrows
  <2> QED
    BY <1>0, <2>1, <2>2, StepOutOfRunner
<1>9. CASE RunEnds(p, t)
  <2>1. PICK e \in {Idle, At("releasing")} : Becomes(p, t, e)
    BY <1>9 DEF RunEnds
  <2>2. e \in Execution /\ e.stage # "running"
    BY <2>1, ExecutionTypes
  <2>3. LeaveFlight(p, t) /\ UNCHANGED claim
    BY <1>9 DEF RunEnds
  <2> QED
    BY <1>0, <2>1, <2>2, <2>3, StepOutOfRunner
<1>10. CASE \E w \in Waits : RunContinues(p, t, w)
  <2>1. PICK w \in Waits : RunContinues(p, t, w)
    BY <1>10
  <2>2. w \in Nat
    OBVIOUS
  <2>3. PICK e \in {Idle, At("releasing"), AtFor("extending", w), AtFor("leaving", w)} :
           Becomes(p, t, e)
    BY <2>1 DEF RunContinues
  <2>4. e \in Execution /\ e.stage # "running"
    BY <2>2, <2>3, ExecutionTypes
  <2>5. LeaveFlight(p, t) /\ UNCHANGED claim
    BY <2>1 DEF RunContinues
  <2> QED
    BY <1>0, <2>3, <2>4, <2>5, StepOutOfRunner
<1>11. CASE Release(p, t)
  BY <1>0, <1>11, ExecutionTypes, StepElsewhere DEF Release, In, Running
<1>12. CASE Extend(p, t)
  <2>1. PICK e \in {Idle, At("queued"), AtFor("sleeping", w0)} : Becomes(p, t, e)
    BY <1>12 DEF Extend
  <2>2. e \in Execution /\ e.stage # "running"
    BY <1>0, <2>1, ExecutionTypes
  <2> QED
    BY <1>0, <1>12, <2>1, <2>2, StepElsewhere DEF Extend, In, Running
<1>13. CASE ExtendAndLeave(p, t)
  BY <1>0, <1>13, ExecutionTypes, StepElsewhere DEF ExtendAndLeave, In, Running
<1>14. CASE ExtendRefused(p, t)
  BY <1>0, <1>14, ExecutionTypes, StepElsewhere DEF ExtendRefused, In, Running
<1>15. CASE Wake(p, t)
  <2>1. PICK e \in {Idle, At("queued")} : Becomes(p, t, e)
    BY <1>15 DEF Wake
  <2>2. e \in Execution /\ e.stage # "running"
    BY <2>1, ExecutionTypes
  <2> QED
    BY <1>0, <1>15, <2>1, <2>2, StepElsewhere DEF Wake, In, Running
<1> QED
  BY <1>1, <1>2, <1>3, <1>4, <1>5, <1>6, <1>7, <1>8, <1>9, <1>10, <1>11, <1>12, <1>13, <1>14,
     <1>15 DEF Iterating

\* Every step of a renewal keeps the invariant: issuing one spends the time since the last, an answer
\* brings a whole TTL, a failure counts as missed, and no refusal reaches a task that runs.
LEMMA RenewingIInv ==
    ASSUME TimelyRenewals, IInv, TypeOK', NEW p \in Procs, NEW t \in Tasks, Renewing(p, t)
    PROVE  IInv'
<1> DEFINE e == exec[p][t]
           e1 == exec'[p][t]
<1>1. /\ e \in Execution /\ e.misses \in Nat /\ e.nextIn \in Nat
      /\ claim[t].left \in Nat /\ claim'[t].left \in Nat
  <2>1. e \in Execution
    BY DEF IInv, TypeOK
  <2>2. e.misses \in Nat /\ e.nextIn \in Nat
    BY <2>1 DEF Execution
  <2>3. claim[t].left \in Nat /\ claim'[t].left \in Nat
    BY DEF IInv, TypeOK
  <2> QED
    BY <2>1, <2>2, <2>3
<1>2. /\ Slack(0) = RenewEvery
      /\ Slack(e.misses) \in Nat /\ Slack(e.misses + 1) = Slack(e.misses) + RenewEvery
  BY <1>1, SlackFacts
<1>3. /\ Issued(e) \in Execution /\ Extended(e) \in Execution
      /\ Lost(e) \in Execution /\ Missed(e) \in Execution
  BY <1>1, ExecutionUpdates
<1>4. CASE RenewIssued(p, t)
  <2>1. /\ e1 = Issued(e)
        /\ \A q \in Procs, u \in Tasks : <<q, u>> # <<p, t>> => exec'[q][u] = exec[q][u]
    BY <1>3, <1>4, BecomesType DEF RenewIssued, IInv, TypeOK
  <2>2. /\ flight'[p][t] = "own"
        /\ \A q \in Procs, u \in Tasks : <<q, u>> # <<p, t>> => flight'[q][u] = flight[q][u]
    BY <1>4 DEF RenewIssued, IInv, TypeOK
  <2>3. /\ e1.stage = "running" /\ ~e1.lost /\ e1.misses = e.misses /\ e1.nextIn = RenewEvery
    BY <1>1, <1>4, <2>1 DEF RenewIssued, Issued, Running, Execution
  <2>4. e.nextIn = 0 /\ claim' = claim /\ Covered(p, t)
    BY <1>4 DEF RenewIssued, IInv, RunsCovered
  <2>5. claim[t].left + Slack(e.misses) >= TTL
    BY <1>1, <1>2, <2>4 DEF Covered
  <2>6. Covered(p, t)'
    BY <1>2, <2>2, <2>3, <2>4, <2>5 DEF Covered
  <2> QED
    BY <2>1, <2>2, <2>3, <2>4, <2>6, OneExecutionStep DEF Running
<1>5. CASE RenewKeeps(p, t)
  <2>0. Overtaken(e) \in Execution /\ Overtaken(e).stage = e.stage
        /\ (e.stage = "running" => Overtaken(e) = e)
    BY <1>1, ExecutionUpdates DEF Overtaken, Execution
  <2>1. /\ e1 = IF flight[p][t] = "own" THEN Extended(e) ELSE Overtaken(e)
        /\ \A q \in Procs, u \in Tasks : <<q, u>> # <<p, t>> => exec'[q][u] = exec[q][u]
    BY <1>1, <1>3, <1>5, <2>0, BecomesType DEF RenewKeeps, IInv, TypeOK
  <2>2. /\ flight'[p][t] = "none"
        /\ \A q \in Procs, u \in Tasks : <<q, u>> # <<p, t>> => flight'[q][u] = flight[q][u]
    BY <1>5 DEF RenewKeeps, IInv, TypeOK
  <2>3. /\ claim'[t] = Claim(p, TTL)
        /\ \A u \in Tasks : u # t => claim'[u] = claim[u]
        /\ claim'[t].owner = p /\ claim'[t].left = TTL
    BY <1>5, StoreTypes DEF RenewKeeps, Keep, Claim, IInv, TypeOK, ClaimRecord
  <2>4. \A q \in Procs : q # p /\ HeldBy(q, t) => claim'[t] = claim[t]
    BY <1>5, StoreRespectsOthers DEF RenewKeeps, IInv
  <2>5. ASSUME Running(p, t)' PROVE Covered(p, t)'
    <3>1. Running(p, t) /\ Covered(p, t)
      BY <1>1, <2>0, <2>1, <2>5 DEF Running, Extended, Execution, IInv, RunsCovered
    <3>2. CASE flight[p][t] = "own"
      <4>1. e1.misses = 0 /\ e1.nextIn = RenewEvery /\ ~e1.lost
        BY <1>1, <2>1, <3>1, <3>2 DEF Extended, Covered, Execution
      <4> QED
        BY <1>2, <2>2, <2>3, <4>1 DEF Covered
    <3>3. CASE flight[p][t] # "own"
      <4>1. e1 = e /\ e.nextIn <= RenewEvery
        BY <2>0, <2>1, <3>1, <3>3 DEF Covered, Running
      <4>2. RenewEvery <= Slack(e.misses)
        BY <1>1, SlackFacts
      <4> QED
        BY <1>1, <1>2, <2>2, <2>3, <3>1, <4>1, <4>2 DEF Covered
    <3> QED
      BY <3>2, <3>3
  <2> QED
    BY <2>0, <2>1, <2>2, <2>3, <2>4, <2>5, OneExecutionStep
<1>6. CASE RenewLoses(p, t)
  <2>1. ~Running(p, t)
    BY <1>6, CoveredIsHeld DEF RenewLoses, IInv, RunsCovered
  <2>2. flight[p][t] # "own"
    BY <2>1 DEF IInv, OwnFlights
  <2>3. /\ e1 = e
        /\ \A q \in Procs, u \in Tasks : <<q, u>> # <<p, t>> => exec'[q][u] = exec[q][u]
    BY <1>1, <1>6, <2>2, BecomesType DEF RenewLoses, IInv, TypeOK
  <2>4. /\ flight'[p][t] = "none"
        /\ \A q \in Procs, u \in Tasks : <<q, u>> # <<p, t>> => flight'[q][u] = flight[q][u]
    BY <1>6 DEF RenewLoses, IInv, TypeOK
  <2>5. claim' = claim
    BY <1>6 DEF RenewLoses
  <2> QED
    BY <2>1, <2>3, <2>4, <2>5, OneExecutionStep DEF Running
<1>7. CASE RenewFails(p, t)
  <2>1. /\ e1 = IF flight[p][t] = "own" THEN Missed(e) ELSE e
        /\ \A q \in Procs, u \in Tasks : <<q, u>> # <<p, t>> => exec'[q][u] = exec[q][u]
    BY <1>1, <1>3, <1>7, BecomesType DEF RenewFails, IInv, TypeOK
  <2>2. /\ flight'[p][t] = "none"
        /\ \A q \in Procs, u \in Tasks : <<q, u>> # <<p, t>> => flight'[q][u] = flight[q][u]
    BY <1>7 DEF RenewFails, IInv, TypeOK
  <2>3. claim' = claim
    BY <1>7 DEF RenewFails
  <2>4. ASSUME Running(p, t)' PROVE Covered(p, t)'
    <3>1. Running(p, t) /\ Covered(p, t)
      BY <2>1, <2>4 DEF Running, Missed, IInv, RunsCovered
    <3>2. CASE flight[p][t] = "own"
      <4>1. /\ e1.misses = e.misses + 1 /\ e1.nextIn = RenewEvery /\ ~e1.lost
            /\ e1.misses <= MaxMisses
        BY <1>1, <1>7, <2>1, <3>1, <3>2 DEF Missed, Covered, RenewFails, Execution
      <4>2. claim[t].left + Slack(e.misses) >= TTL
        BY <1>1, <1>2, <3>1, <3>2 DEF Covered
      <4> QED
        BY <1>1, <1>2, <2>2, <2>3, <3>1, <4>1, <4>2 DEF Covered
    <3>3. CASE flight[p][t] # "own"
      BY <1>1, <1>2, <2>1, <2>2, <2>3, <3>1, <3>3 DEF Covered
    <3> QED
      BY <3>2, <3>3
  <2> QED
    BY <2>1, <2>2, <2>3, <2>4, OneExecutionStep
<1> QED
  BY <1>4, <1>5, <1>6, <1>7 DEF Renewing

\* A process that starts, stops or dies takes no other's claim and begins no run.
LEMMA LivingIInv ==
    ASSUME TimelyRenewals, IInv, TypeOK', NEW p \in Procs, Boot(p) \/ Stop(p) \/ Exit(p)
    PROVE  IInv'
<1>1. CASE Boot(p)
  BY <1>1, QuietStep DEF Boot
<1>2. CASE Stop(p)
  <2>1. ASSUME NEW q \in Procs, NEW t \in Tasks, Running(q, t)'
        PROVE  Covered(q, t)'
    <3>1. exec[q][t] \in Execution /\ claim' = claim /\ flight' = flight
      BY <1>2 DEF Stop, IInv, TypeOK
    <3>2. exec'[q][t] = IF q = p /\ Running(q, t) THEN Told(exec[q][t]) ELSE exec[q][t]
      BY <1>2, <2>1, ExecutionTypes DEF Stop, IInv, TypeOK, Running
    <3>3. Running(q, t)
      BY <2>1, <3>1, <3>2 DEF Running
    <3>4. Covered(q, t)
      BY <3>3 DEF IInv, RunsCovered
    <3>5. /\ exec'[q][t].lost = exec[q][t].lost
          /\ exec'[q][t].misses = exec[q][t].misses
          /\ exec'[q][t].nextIn = exec[q][t].nextIn
      BY <3>1, <3>2 DEF Told, Execution
    <3> QED
      BY <3>1, <3>4, <3>5 DEF Covered
  <2>2. OwnFlights'
    <3>1. ASSUME NEW q \in Procs, NEW t \in Tasks, flight'[q][t] = "own"
          PROVE  Running(q, t)'
      <4>1. Running(q, t) /\ exec[q][t] \in Execution
        BY <1>2, <3>1 DEF Stop, IInv, OwnFlights, TypeOK
      <4>2. exec'[q][t] = IF q = p THEN Told(exec[q][t]) ELSE exec[q][t]
        BY <1>2, <4>1 DEF Stop, IInv, TypeOK, Running
      <4> QED
        BY <4>1, <4>2 DEF Told, Running, Execution
    <3> QED
      BY <3>1 DEF OwnFlights
  <2> QED
    BY <2>1, <2>2 DEF IInv, RunsCovered
<1>3. CASE Exit(p)
  <2>1. ASSUME NEW q \in Procs, NEW t \in Tasks
        PROVE  /\ Running(q, t)' => Covered(q, t)'
               /\ flight'[q][t] = "own" => Running(q, t)'
    <3>1. CASE q = p
      <4>1. exec'[q][t] = Idle /\ flight'[q][t] # "own"
        BY <1>3, <3>1 DEF Exit, IInv, TypeOK
      <4> QED
        BY <4>1, ExecutionTypes DEF Running
    <3>2. CASE q # p
      <4>1. exec'[q][t] = exec[q][t] /\ flight'[q][t] = flight[q][t] /\ claim' = claim
        BY <1>3, <3>2 DEF Exit, IInv, TypeOK
      <4> QED
        BY <4>1 DEF Running, Covered, IInv, RunsCovered, OwnFlights
    <3> QED
      BY <3>1, <3>2
  <2> QED
    BY <2>1 DEF IInv, RunsCovered, OwnFlights
<1> QED
  BY <1>1, <1>2, <1>3

\* A tick takes one from the claim and one from the time to the next renewal, so the bound stays.
LEMMA TickIInv ==
    ASSUME TimelyRenewals, IInv, TypeOK', Tick
    PROVE  IInv'
<1>1. flight' = flight /\ \A p \in Procs, t \in Tasks : flight[p][t] # "own"
  BY DEF Tick, Timely
<1>2. ASSUME NEW p \in Procs, NEW t \in Tasks, Running(p, t)'
      PROVE  Covered(p, t)'
  <2>1. exec[p][t] \in Execution /\ exec'[p][t] = Later(exec[p][t])
    BY DEF Tick, IInv, TypeOK
  <2>2. Running(p, t)
    BY <1>2, <2>1 DEF Later, Running, Execution
  <2>3. Covered(p, t) /\ HeldBy(p, t)
    BY <2>2, CoveredIsHeld DEF IInv, RunsCovered
  <2>4. exec[p][t].nextIn \in Nat /\ exec[p][t].nextIn > 0 /\ exec[p][t].misses \in Nat
        /\ claim[t].left \in Nat
    BY <2>1, <2>2, <2>3 DEF Tick, Timely, Covered, Execution, IInv, TypeOK
  <2>5. /\ exec'[p][t].nextIn = exec[p][t].nextIn - 1
        /\ exec'[p][t].misses = exec[p][t].misses
        /\ exec'[p][t].lost = exec[p][t].lost
    BY <2>1, <2>2, <2>3 DEF Later, Running, Covered, Execution
  <2>6. Slack(exec[p][t].misses) \in Nat /\ Slack(exec[p][t].misses) < TTL
    BY <2>3, <2>4, SlackFacts DEF Covered
  <2>7. claim[t].left > 1
    BY <1>1, <2>3, <2>4, <2>6 DEF Covered
  <2>8. claim'[t].owner = claim[t].owner /\ claim'[t].left = claim[t].left - 1
    BY <2>4, <2>7 DEF Tick, Aged, IInv, TypeOK
  <2> QED
    BY <1>1, <2>3, <2>4, <2>5, <2>6, <2>8 DEF Covered
<1> QED
  BY <1>1, <1>2 DEF IInv, RunsCovered, OwnFlights

\* The inductive step.
LEMMA NextIInv ==
    ASSUME TimelyRenewals
    PROVE  IInv /\ [Next]_vars => IInv'
<1> SUFFICES ASSUME IInv, [Next]_vars PROVE IInv'
  OBVIOUS
<1>0. TypeOK'
  BY NextTypeOK DEF IInv
<1>1. CASE \E p \in Procs, t \in Tasks : Triggering(p, t) \/ Iterating(p, t) \/ Renewing(p, t)
  BY <1>0, <1>1, TriggeringIInv, IteratingIInv, RenewingIInv
<1>2. CASE \E p \in Procs : Sweeping(p) \/ Boot(p) \/ Stop(p) \/ Exit(p)
  BY <1>0, <1>2, SweepingIInv, LivingIInv
<1>3. CASE Tick
  BY <1>0, <1>3, TickIInv
<1>4. CASE UNCHANGED vars
  <2>1. \A p \in Procs, t \in Tasks :
           exec'[p][t] = exec[p][t] /\ flight'[p][t] = flight[p][t] /\ claim' = claim
    BY <1>4 DEF vars
  <2> QED
    BY <1>0, <2>1 DEF IInv, RunsCovered, OwnFlights, Covered, Running
<1> QED
  BY <1>1, <1>2, <1>3, <1>4 DEF Next

\* The initial states satisfy the invariant: nothing runs.
LEMMA InitIInv == Init => IInv
<1> SUFFICES ASSUME Init PROVE IInv
  OBVIOUS
<1>1. \A p \in Procs, t \in Tasks : ~Running(p, t) /\ flight[p][t] = "none"
  BY ExecutionTypes DEF Init, Running
<1> QED
  BY <1>1, InitTypeOK DEF IInv, RunsCovered, OwnFlights

-----------------------------------------------------------------------------
(* The theorems.                                                           *)

\* What the invariant says of who runs a task.
LEMMA IInvSafe ==
    ASSUME TimelyRenewals
    PROVE  IInv => RunsUnderClaim /\ OneRunner
<1> SUFFICES ASSUME IInv PROVE RunsUnderClaim /\ OneRunner
  OBVIOUS
<1>1. RunsUnderClaim
  BY CoveredIsHeld DEF IInv, RunsCovered, RunsUnderClaim
<1>2. OneRunner
  BY <1>1 DEF RunsUnderClaim, OneRunner, HeldBy
<1> QED
  BY <1>1, <1>2

\* Every iteration runs under its task's claim, from its first instant to its last, when renewals are
\* not missed for a whole TTL and no sweep gives up a task.
THEOREM EveryRunUnderClaim ==
    ASSUME TimelyRenewals
    PROVE  Spec => []RunsUnderClaim
<1>1. IInv => RunsUnderClaim
  BY IInvSafe
<1>2. IInv /\ [Next]_vars => IInv'
  BY NextIInv
<1> QED
  BY <1>1, <1>2, InitIInv, PTL DEF Spec

\* One process drives a task at a time, under the same condition.
THEOREM OneRunnerPerTask ==
    ASSUME TimelyRenewals
    PROVE  Spec => []OneRunner
<1>1. IInv => OneRunner
  BY IInvSafe
<1>2. IInv /\ [Next]_vars => IInv'
  BY NextIInv
<1> QED
  BY <1>1, <1>2, InitIInv, PTL DEF Spec

-----------------------------------------------------------------------------
(* The refinement: seen as who runs what, every step is one of             *)
(* ExclusiveRuns or none.                                                  *)

RunnersOf == [t \in Tasks |-> {p \in Procs : Running(p, t)}]

\* A step after which the same processes run the same tasks.
LEMMA SameRunners ==
    ASSUME \A q \in Procs, u \in Tasks : Running(q, u)' <=> Running(q, u)
    PROVE  RunnersOf' = RunnersOf
  BY DEF RunnersOf

\* What a step of one execution does to who runs what.
LEMMA BecomesRunners ==
    ASSUME TypeOK, NEW p \in Procs, NEW t \in Tasks, NEW e \in Execution, Becomes(p, t, e)
    PROVE  /\ Running(p, t)' <=> e.stage = "running"
           /\ \A q \in Procs, u \in Tasks :
                 <<q, u>> # <<p, t>> => (Running(q, u)' <=> Running(q, u))
  BY BecomesType DEF TypeOK, Running

\* A step between two stages on the same side of "running" changes nothing of it.
LEMMA QuietBecomes ==
    ASSUME TypeOK, NEW p \in Procs, NEW t \in Tasks, NEW e \in Execution, Becomes(p, t, e),
           e.stage = "running" <=> Running(p, t)
    PROVE  RunnersOf' = RunnersOf
  BY BecomesRunners, SameRunners

\* An iteration begins only where nobody runs the task.
LEMMA BeginStep ==
    ASSUME TimelyRenewals, IInv, NEW p \in Procs, NEW t \in Tasks, ~Running(p, t),
           Becomes(p, t, Begun), Take(p, t, TTL) \/ Keep(p, t, TTL)
    PROVE  Exclusive!Begin(p, t)
<1>1. \A q \in Procs : ~Running(q, t)
  <2>1. SUFFICES ASSUME NEW q \in Procs, Running(q, t) PROVE FALSE
    OBVIOUS
  <2>2. HeldBy(q, t)
    BY <2>1, IInvSafe DEF RunsUnderClaim
  <2> QED
    BY <2>1, <2>2 DEF Take, Keep, Free, HeldBy, IInv, TypeOK
<1>2. Begun \in Execution /\ Begun.stage = "running"
  BY ExecutionTypes DEF Begun, Idle
<1>3. \A q \in Procs, u \in Tasks :
         Running(q, u)' <=> (q = p /\ u = t) \/ Running(q, u)
  BY <1>1, <1>2, BecomesRunners DEF IInv
<1>4. RunnersOf[t] = {} /\ RunnersOf' = [RunnersOf EXCEPT ![t] = {p}]
  BY <1>1, <1>3 DEF RunnersOf
<1> QED
  BY <1>4 DEF Exclusive!Begin, RunnersOf

\* Runs that end leave fewer runners.
LEMMA EndStep ==
    ASSUME \A q \in Procs, u \in Tasks : Running(q, u)' => Running(q, u)
    PROVE  Exclusive!Next
<1>1. RunnersOf' \in [Tasks -> SUBSET Procs] /\ \A t \in Tasks : RunnersOf'[t] \subseteq RunnersOf[t]
  BY DEF RunnersOf
<1> QED
  BY <1>1 DEF Exclusive!Next, Exclusive!End, RunnersOf

\* A step of one execution out of the runner.
LEMMA EndBecomes ==
    ASSUME TypeOK, NEW p \in Procs, NEW t \in Tasks, NEW e \in Execution, Becomes(p, t, e),
           e.stage # "running"
    PROVE  Exclusive!Next
<1>1. \A q \in Procs, u \in Tasks : Running(q, u)' => Running(q, u)
  BY BecomesRunners
<1> QED
  BY <1>1, EndStep

\* Every step of an iteration: holding begins a run, the rest end one or are outside it.
LEMMA IteratingRefines ==
    ASSUME TimelyRenewals, IInv, NEW p \in Procs, NEW t \in Tasks, Iterating(p, t)
    PROVE  Exclusive!Next
<1>1. CASE HoldKeeps(p, t) \/ HoldTakes(p, t)
  <2>1. Exclusive!Begin(p, t)
    BY <1>1, BeginStep DEF HoldKeeps, HoldTakes, In, Running
  <2> QED
    BY <2>1 DEF Exclusive!Next
<1>2. CASE ~(HoldKeeps(p, t) \/ HoldTakes(p, t))
  <2>1. exec[p][t].wait \in Nat /\ TypeOK
    BY DEF IInv, TypeOK, Execution
  <2>2. \A w \in Waits : w \in Nat
    OBVIOUS
  <2>3. \/ Becomes(p, t, Idle)
        \/ \E s \in {"dispatched", "holding", "taking", "releasing", "queued"} :
              Becomes(p, t, At(s))
        \/ \E s \in {"extending", "leaving", "sleeping"}, w \in Nat : Becomes(p, t, AtFor(s, w))
    BY <1>2, <2>1, <2>2, Zenon
       DEF Iterating, Dispatch, LookAtSignal, HoldFindsNotOurs, HoldRefused, WriteThrows,
           RunThrows, RunEnds, RunContinues, Release, Extend, ExtendAndLeave, ExtendRefused, Wake
  <2>4. CASE Becomes(p, t, Idle)
    BY <2>1, <2>4, ExecutionTypes, EndBecomes
  <2>5. CASE \E s \in {"dispatched", "holding", "taking", "releasing", "queued"} :
                Becomes(p, t, At(s))
    BY <2>1, <2>5, ExecutionTypes, EndBecomes DEF Stages
  <2>6. CASE \E s \in {"extending", "leaving", "sleeping"}, w \in Nat : Becomes(p, t, AtFor(s, w))
    BY <2>1, <2>6, ExecutionTypes, EndBecomes DEF Stages
  <2> QED
    BY <2>3, <2>4, <2>5, <2>6
<1> QED
  BY <1>1, <1>2

\* A renewal begins and ends no run.
LEMMA RenewingRefines ==
    ASSUME IInv, NEW p \in Procs, NEW t \in Tasks, Renewing(p, t)
    PROVE  RunnersOf' = RunnersOf
<1>1. TypeOK /\ exec[p][t] \in Execution
  BY DEF IInv, TypeOK
<1>2. PICK e \in {exec[p][t], Issued(exec[p][t]), Extended(exec[p][t]), Overtaken(exec[p][t]),
                  Lost(exec[p][t]), Missed(exec[p][t])} : Becomes(p, t, e)
  BY DEF Renewing, RenewIssued, RenewKeeps, RenewLoses, RenewFails
<1>3. e \in Execution
  BY <1>1, <1>2, ExecutionUpdates
<1>4. e.stage = exec[p][t].stage
  BY <1>1, <1>2 DEF Issued, Extended, Overtaken, Lost, Missed, Execution
<1> QED
  BY <1>1, <1>2, <1>3, <1>4, QuietBecomes DEF Running

\* Every step of the system maps to a step of ExclusiveRuns or to none.
LEMMA StepRefines ==
    ASSUME TimelyRenewals, IInv, [Next]_vars
    PROVE  Exclusive!Next \/ RunnersOf' = RunnersOf
<1>0. TypeOK
  BY DEF IInv
<1>1. ASSUME NEW p \in Procs, NEW t \in Tasks, Triggering(p, t)
      PROVE  RunnersOf' = RunnersOf
  <2>1. \A q \in Procs, u \in Tasks :
           (Running(q, u) \/ Running(q, u)') => exec'[q][u] = exec[q][u]
    BY <1>0, <1>1, StartIsQuiet
       DEF Triggering, TriggerClaims, TriggerUnclaimed, TriggerStarts
  <2> QED
    BY <2>1, SameRunners DEF Running
<1>2. ASSUME NEW p \in Procs, NEW t \in Tasks, Iterating(p, t)
      PROVE  Exclusive!Next
  BY <1>2, IteratingRefines
<1>3. ASSUME NEW p \in Procs, NEW t \in Tasks, Renewing(p, t)
      PROVE  RunnersOf' = RunnersOf
  BY <1>3, RenewingRefines
<1>4. ASSUME NEW p \in Procs, Sweeping(p)
      PROVE  RunnersOf' = RunnersOf
  <2>1. sweep[p] # None => sweep[p] \in Tasks
    BY <1>0 DEF TypeOK
  <2>2. \A q \in Procs, u \in Tasks :
           (Running(q, u) \/ Running(q, u)') => exec'[q][u] = exec[q][u]
    BY <1>0, <1>4, <2>1, StartIsQuiet
       DEF Sweeping, SweepTakes, SweepStarts, SweepGivesUp, SweepFails
  <2> QED
    BY <2>2, SameRunners DEF Running
<1>5. ASSUME NEW p \in Procs, Boot(p) \/ Stop(p)
      PROVE  RunnersOf' = RunnersOf
  <2>1. CASE Boot(p)
    BY <2>1, SameRunners DEF Boot, Running
  <2>2. CASE Stop(p)
    <3>1. ASSUME NEW q \in Procs, NEW u \in Tasks
          PROVE  Running(q, u)' <=> Running(q, u)
      <4>1. exec[q][u] \in Execution /\ Told(exec[q][u]).stage = exec[q][u].stage
        BY <1>0 DEF TypeOK, Told, Execution
      <4>2. \/ exec'[q][u] = exec[q][u]
            \/ exec'[q][u] = Told(exec[q][u])
            \/ exec[q][u].stage \in {"queued", "sleeping"} /\ exec'[q][u] = Idle
        BY <1>0, <2>2 DEF Stop, TypeOK
      <4> QED
        BY <4>1, <4>2, ExecutionTypes DEF Running
    <3> QED
      BY <3>1, SameRunners
  <2> QED
    BY <1>5, <2>1, <2>2
<1>6. ASSUME NEW p \in Procs, Exit(p)
      PROVE  Exclusive!Next
  <2>1. ASSUME NEW q \in Procs, NEW u \in Tasks
        PROVE  Running(q, u)' => Running(q, u)
    <3>1. exec'[q][u] = IF q = p THEN Idle ELSE exec[q][u]
      BY <1>0, <1>6 DEF Exit, TypeOK
    <3> QED
      BY <3>1, ExecutionTypes DEF Running
  <2> QED
    BY <2>1, EndStep
<1>7. ASSUME Tick
      PROVE  RunnersOf' = RunnersOf
  <2>1. ASSUME NEW q \in Procs, NEW u \in Tasks
        PROVE  Running(q, u)' <=> Running(q, u)
    <3>1. exec[q][u] \in Execution /\ exec'[q][u] = Later(exec[q][u])
      BY <1>0, <1>7 DEF Tick, TypeOK
    <3> QED
      BY <3>1 DEF Later, Running, Execution
  <2> QED
    BY <2>1, SameRunners
<1>8. CASE UNCHANGED vars
  BY <1>8, SameRunners DEF vars, Running
<1> QED
  BY <1>1, <1>2, <1>3, <1>4, <1>5, <1>6, <1>7, <1>8 DEF Next

\* The claims implement ExclusiveRuns: an iteration begins only when nobody runs the task, and one
\* process runs it until it ends.
THEOREM ClaimsExcludeOthers ==
    ASSUME TimelyRenewals
    PROVE  Spec => ImplementsExclusiveRuns
<1>1. Init => Exclusive!Init
  <2>1. SUFFICES ASSUME Init PROVE Exclusive!Init
    OBVIOUS
  <2>2. \A p \in Procs, t \in Tasks : ~Running(p, t)
    BY <2>1, ExecutionTypes DEF Init, Running
  <2> QED
    BY <2>2 DEF Exclusive!Init
<1>2. IInv /\ [Next]_vars => [Exclusive!Next]_RunnersOf
  BY StepRefines
<1>3. IInv /\ [Next]_vars => IInv'
  BY NextIInv
<1> QED
  BY <1>1, <1>2, <1>3, InitIInv, PTL DEF Spec, ImplementsExclusiveRuns, Exclusive!Spec, RunnersOf

-----------------------------------------------------------------------------
(* Claims are not stolen: true of every step, whatever the timing.         *)

\* What a step may do to the claims.
StealsNothing ==
    \A t \in Tasks :
       LET c == claim[t]
           d == claim'[t]
       IN  c.left > 0 =>
             \/ d.left > 0 /\ d.owner = c.owner
             \/ d.left = 0 /\ (c.left = 1 \/ In(c.owner, t, "releasing") \/ sweep[c.owner] = t)

\* A tick takes one from a claim's life, and leaves nothing of one that had no more.
LEMMA AgedRecord ==
    ASSUME NEW c \in ClaimRecord
    PROVE  /\ c.left > 1 => Aged(c).left = c.left - 1 /\ Aged(c).left > 0 /\ Aged(c).owner = c.owner
           /\ c.left <= 1 => Aged(c).left = 0
           /\ c.left \in Nat
  BY DEF Aged, NoClaim, ClaimRecord

\* Writes that look at the record first steal nothing, nor does leaving it alone.
LEMMA StoreStealsNothing ==
    ASSUME TypeOK, NEW p \in Procs, NEW t \in Tasks, NEW n \in Nat \ {0},
           Take(p, t, n) \/ Keep(p, t, n)
    PROVE  StealsNothing
<1>1. claim'[t] = Claim(p, n) /\ \A u \in Tasks : u # t => claim'[u] = claim[u]
  BY DEF Take, Keep, TypeOK
<1>2. claim[t].left > 0 => claim[t].owner = p
  BY DEF Take, Keep, HeldBy, Free
<1> QED
  BY <1>1, <1>2 DEF StealsNothing, Claim

LEMMA UntouchedStealsNothing ==
    ASSUME UNCHANGED claim
    PROVE  StealsNothing
  BY DEF StealsNothing

\* release() is called by an iteration that is over, and by a sweep that gives the task up.
LEMMA DropStealsNothing ==
    ASSUME TypeOK, NEW p \in Procs, NEW t \in Tasks, Drop(p, t),
           In(p, t, "releasing") \/ sweep[p] = t
    PROVE  StealsNothing
<1>1. CASE HeldBy(p, t)
  <2>1. claim'[t] = NoClaim /\ \A u \in Tasks : u # t => claim'[u] = claim[u]
    BY <1>1 DEF Drop, TypeOK
  <2>2. claim[t].owner = p /\ NoClaim.left = 0
    BY <1>1 DEF HeldBy, NoClaim
  <2> QED
    BY <2>1, <2>2 DEF StealsNothing
<1>2. CASE ~HeldBy(p, t)
  BY <1>2, UntouchedStealsNothing DEF Drop
<1> QED
  BY <1>1, <1>2

\* Every step.
LEMMA NextStealsNothing == TypeOK /\ [Next]_vars => StealsNothing
<1> SUFFICES ASSUME TypeOK, [Next]_vars PROVE StealsNothing
  OBVIOUS
<1>1. ASSUME NEW p \in Procs, NEW t \in Tasks, Triggering(p, t)
      PROVE  StealsNothing
  <2>1. ASSUME NEW d \in Waits, TriggerClaims(p, t, d) PROVE StealsNothing
    <3>1. TTL + d \in Nat \ {0}
      OBVIOUS
    <3> QED
      BY <2>1, <3>1, StoreStealsNothing DEF TriggerClaims
  <2> QED
    BY <1>1, <2>1, UntouchedStealsNothing DEF Triggering, TriggerUnclaimed, TriggerStarts
<1>2. ASSUME NEW p \in Procs, NEW t \in Tasks, Iterating(p, t)
      PROVE  StealsNothing
  <2>1. CASE HoldKeeps(p, t) \/ HoldTakes(p, t)
    BY <2>1, StoreStealsNothing DEF HoldKeeps, HoldTakes
  <2>2. CASE Extend(p, t) \/ ExtendAndLeave(p, t)
    <3>1. TTL + exec[p][t].wait \in Nat \ {0}
      BY DEF TypeOK, Execution
    <3> QED
      BY <2>2, <3>1, StoreStealsNothing DEF Extend, ExtendAndLeave
  <2>3. CASE Release(p, t)
    BY <2>3, DropStealsNothing, UntouchedStealsNothing DEF Release
  <2>4. CASE UNCHANGED claim
    BY <2>4, UntouchedStealsNothing
  <2> QED
    BY <1>2, <2>1, <2>2, <2>3, <2>4
       DEF Iterating, Dispatch, LookAtSignal, HoldFindsNotOurs, HoldRefused, WriteThrows,
           RunThrows, RunEnds, RunContinues, ExtendRefused, Wake
<1>3. ASSUME NEW p \in Procs, NEW t \in Tasks, Renewing(p, t)
      PROVE  StealsNothing
  BY <1>3, StoreStealsNothing, UntouchedStealsNothing
     DEF Renewing, RenewIssued, RenewKeeps, RenewLoses, RenewFails
<1>4. ASSUME NEW p \in Procs, Sweeping(p)
      PROVE  StealsNothing
  <2>1. ASSUME NEW t \in Tasks, SweepTakes(p, t) PROVE StealsNothing
    BY <2>1, StoreStealsNothing DEF SweepTakes
  <2>2. CASE SweepGivesUp(p)
    <3>1. sweep[p] \in Tasks /\ Drop(p, sweep[p])
      BY <2>2 DEF SweepGivesUp, TypeOK
    <3>2. PICK t \in Tasks : t = sweep[p]
      BY <3>1
    <3>3. Drop(p, t)
      BY <3>1, <3>2 DEF Drop, HeldBy
    <3> QED
      BY <3>2, <3>3, DropStealsNothing
  <2> QED
    BY <1>4, <2>1, <2>2, UntouchedStealsNothing DEF Sweeping, SweepStarts, SweepFails
<1>5. ASSUME NEW p \in Procs, Boot(p) \/ Stop(p) \/ Exit(p)
      PROVE  StealsNothing
  BY <1>5, UntouchedStealsNothing DEF Boot, Stop, Exit
<1>6. CASE Tick
  <2>1. \A t \in Tasks : claim'[t] = Aged(claim[t]) /\ claim[t] \in ClaimRecord
    BY <1>6 DEF Tick, TypeOK, ClaimRecord
  <2>2. \A t \in Tasks : claim[t].left > 0 =>
           \/ claim'[t].left > 0 /\ claim'[t].owner = claim[t].owner
           \/ claim'[t].left = 0 /\ claim[t].left = 1
    BY <2>1, AgedRecord
  <2> QED
    BY <2>2 DEF StealsNothing
<1>7. CASE UNCHANGED vars
  BY <1>7, UntouchedStealsNothing DEF vars
<1> QED
  BY <1>1, <1>2, <1>3, <1>4, <1>5, <1>6, <1>7 DEF Next

\* A live claim never passes to another process, and ends early only when its owner's iteration is
\* over or its owner's sweep gives the task up: however late renewals and releases land.
THEOREM ClaimsAreNotStolen == Spec => ClaimNotStolen
<1>1. TypeOK /\ [Next]_vars => [StealsNothing]_vars
  BY NextStealsNothing
<1>2. Spec => [][StealsNothing]_vars
  BY <1>1, TypeCorrect, PTL DEF Spec
<1> QED
  BY <1>2, PTL DEF ClaimNotStolen, StealsNothing

-----------------------------------------------------------------------------
(* A task between iterations is left alone.                                *)

SInv == TypeOK /\ OwnFlights /\ LeftAloneUntilDue

Asleep(e) == e.stage = "sleeping" /\ e.wait > 0

\* The executions the actions write are awake; what is changed in one that is there leaves it as it
\* slept, apart from a renewal that lands late.
LEMMA SleepsWritten ==
    /\ ~Asleep(Idle) /\ ~Asleep(Begun)
    /\ \A s : s # "sleeping" => ~Asleep(At(s))
    /\ \A s, w : s # "sleeping" => ~Asleep(AtFor(s, w))
    /\ \A w : AtFor("sleeping", w).wait = w /\ AtFor("sleeping", w).slept = 0
    /\ \A e \in Execution : \A f \in {Issued(e), Extended(e), Missed(e), Told(e), Lost(e)} :
          f.stage = e.stage /\ f.wait = e.wait /\ f.slept = e.slept /\ f.late = e.late
    /\ \A e \in Execution :
          /\ Overtaken(e).stage = e.stage /\ Overtaken(e).wait = e.wait
          /\ Overtaken(e).slept = e.slept
          /\ Asleep(e) => Overtaken(e).late
  BY DEF Asleep, Idle, Begun, At, AtFor, Issued, Extended, Missed, Told, Lost, Overtaken, Execution

\* What a step that leaves time alone may do to who sleeps on: the claim is left alone, or was not
\* the sleeper's, or is set to a whole TTL by a late renewal.
SleepsOn(q, u) ==
    LET d == exec[q][u]
        e == exec'[q][u]
    IN  /\ d.stage = "sleeping" /\ e.wait = d.wait /\ e.slept = d.slept
        /\ d.late => e.late
        /\ HeldBy(q, u) =>
              \/ claim'[u] = claim[u]
              \/ e.late /\ claim'[u].owner = q /\ claim'[u].left >= TTL

LEMMA SleepersLeftAlone ==
    ASSUME SInv, TypeOK', OwnFlights', \A q \in Procs, u \in Tasks : Asleep(exec'[q][u]) => SleepsOn(q, u)
    PROVE  SInv'
<1>1. SUFFICES ASSUME NEW q \in Procs, NEW u \in Tasks, Asleep(exec'[q][u])
               PROVE  \/ /\ claim'[u].left > 0 /\ claim'[u].owner = q
                         /\ claim'[u].left >= exec'[q][u].wait
                      \/ /\ exec'[q][u].late
                         /\ exec'[q][u].slept < TTL =>
                               /\ claim'[u].left > 0 /\ claim'[u].owner = q
                               /\ claim'[u].left + exec'[q][u].slept >= TTL
  BY DEF SInv, LeftAloneUntilDue, Asleep, In, HeldBy
<1>2. /\ exec[q][u].stage = "sleeping" /\ exec[q][u].wait > 0 /\ SleepsOn(q, u)
      /\ exec'[q][u].wait = exec[q][u].wait /\ exec'[q][u].slept = exec[q][u].slept
  BY <1>1 DEF SleepsOn, Asleep
<1>3. /\ exec[q][u].slept \in Nat /\ exec[q][u].wait \in Nat
      /\ claim[u].left \in Nat /\ claim'[u].left \in Nat
  BY DEF SInv, TypeOK, Execution
<1>4. \/ HeldBy(q, u) /\ claim[u].left >= exec[q][u].wait
      \/ /\ exec[q][u].late
         /\ exec[q][u].slept < TTL => HeldBy(q, u) /\ claim[u].left + exec[q][u].slept >= TTL
  BY <1>2 DEF SInv, LeftAloneUntilDue, In
<1>5. CASE HeldBy(q, u) /\ claim'[u] = claim[u]
  BY <1>2, <1>3, <1>4, <1>5 DEF SleepsOn, HeldBy
<1>6. CASE exec'[q][u].late /\ claim'[u].owner = q /\ claim'[u].left >= TTL
  BY <1>3, <1>2, <1>6
<1>7. CASE ~HeldBy(q, u)
  BY <1>2, <1>4, <1>7 DEF SleepsOn
<1> QED
  BY <1>2, <1>5, <1>6, <1>7 DEF SleepsOn

\* An execution that changes on its own and is awake then leaves the others asleep as they were.
LEMMA OneAwake ==
    ASSUME SInv, TypeOK', OwnFlights', NEW p \in Procs, NEW t \in Tasks, NEW e \in Execution,
           Becomes(p, t, e), ~Asleep(e),
           \A q \in Procs, u \in Tasks :
              HeldBy(q, u) => claim'[u] = claim[u] \/ <<q, u>> = <<p, t>>
    PROVE  SInv'
<1>1. /\ exec'[p][t] = e
      /\ \A q \in Procs, u \in Tasks : <<q, u>> # <<p, t>> => exec'[q][u] = exec[q][u]
  BY BecomesType DEF SInv, TypeOK
<1>2. ASSUME NEW q \in Procs, NEW u \in Tasks, Asleep(exec'[q][u])
      PROVE  SleepsOn(q, u)
  <2>1. <<q, u>> # <<p, t>>
    BY <1>1, <1>2
  <2> QED
    BY <1>1, <1>2, <2>1 DEF SleepsOn, Asleep
<1> QED
  BY <1>2, SleepersLeftAlone

\* Nobody who holds a claim loses it to a take; a keep or a release is of one's own.
LEMMA TakeTouchesNobody ==
    ASSUME TypeOK, NEW p \in Procs, NEW t \in Tasks, NEW n, Take(p, t, n)
    PROVE  \A q \in Procs, u \in Tasks : HeldBy(q, u) => claim'[u] = claim[u]
  BY DEF Take, TypeOK, Free, HeldBy

LEMMA WritesAreOwn ==
    ASSUME TypeOK, NEW p \in Procs, NEW t \in Tasks, NEW n, Take(p, t, n) \/ Keep(p, t, n) \/ Drop(p, t)
    PROVE  \A q \in Procs, u \in Tasks :
              HeldBy(q, u) => claim'[u] = claim[u] \/ <<q, u>> = <<p, t>>
  BY DEF Take, Keep, Drop, TypeOK, Free, HeldBy

-----------------------------------------------------------------------------

\* start() puts an execution in line that was not there.
LEMMA StartWakesNobody ==
    ASSUME SInv, TypeOK', OwnFlights', NEW p \in Procs, NEW t \in Tasks, Start(p, t), UNCHANGED claim
    PROVE  SInv'
<1>1. \A q \in Procs, u \in Tasks :
         exec'[q][u] = exec[q][u] \/ exec'[q][u] = At("queued")
  BY DEF Start, SInv, TypeOK
<1>2. ~Asleep(At("queued"))
  BY SleepsWritten
<1> QED
  BY <1>1, <1>2, SleepersLeftAlone DEF SleepsOn, Asleep

LEMMA TriggeringSInv ==
    ASSUME SInv, TypeOK', OwnFlights', NEW p \in Procs, NEW t \in Tasks, Triggering(p, t)
    PROVE  SInv'
<1>0. TypeOK
  BY DEF SInv
<1>1. ASSUME NEW d \in Waits, TriggerClaims(p, t, d) PROVE SInv'
  <2>1. \A q \in Procs, u \in Tasks : HeldBy(q, u) => claim'[u] = claim[u]
    BY <1>0, <1>1, TakeTouchesNobody DEF TriggerClaims
  <2> QED
    BY <1>1, <2>1, SleepersLeftAlone DEF TriggerClaims, SleepsOn, Asleep
<1>2. CASE TriggerUnclaimed(p, t)
  BY <1>2, SleepersLeftAlone DEF TriggerUnclaimed, SleepsOn, Asleep
<1>3. CASE TriggerStarts(p, t)
  BY <1>3, StartWakesNobody DEF TriggerStarts
<1> QED
  BY <1>1, <1>2, <1>3 DEF Triggering

LEMMA SweepingSInv ==
    ASSUME ~MayGiveUp, SInv, TypeOK', OwnFlights', NEW p \in Procs, Sweeping(p)
    PROVE  SInv'
<1>0. TypeOK
  BY DEF SInv
<1>1. ASSUME NEW t \in Tasks, SweepTakes(p, t) PROVE SInv'
  <2>1. \A q \in Procs, u \in Tasks : HeldBy(q, u) => claim'[u] = claim[u]
    BY <1>0, <1>1, TakeTouchesNobody DEF SweepTakes
  <2> QED
    BY <1>1, <2>1, SleepersLeftAlone DEF SweepTakes, SleepsOn, Asleep
<1>2. CASE SweepStarts(p)
  <2>1. PICK t \in Tasks : t = sweep[p]
    BY <1>0, <1>2 DEF SweepStarts, TypeOK
  <2>2. Start(p, t)
    BY <1>2, <2>1 DEF SweepStarts, Start
  <2> QED
    BY <1>2, <2>2, StartWakesNobody DEF SweepStarts
<1>3. CASE SweepFails(p)
  BY <1>3, SleepersLeftAlone DEF SweepFails, SleepsOn, Asleep
<1> QED
  BY <1>1, <1>2, <1>3 DEF Sweeping, SweepGivesUp

\* The claim is extended past the wait when the task falls asleep; elsewhere nobody falls asleep.
LEMMA ExtendSInv ==
    ASSUME SInv, TypeOK', OwnFlights', NEW p \in Procs, NEW t \in Tasks, Extend(p, t)
    PROVE  SInv'
<1> DEFINE w == exec[p][t].wait
<1>0. TypeOK /\ w \in Nat
  BY DEF SInv, TypeOK, Execution
<1>1. PICK e \in {AtFor("sleeping", w), At("queued"), Idle} :
        Becomes(p, t, e)
  BY <1>0 DEF Extend
<1>2. e \in Execution /\ (Asleep(e) => e.wait = w)
  BY <1>0, <1>1, ExecutionTypes, SleepsWritten DEF Stages, Asleep
<1>3. /\ exec'[p][t] = e
      /\ \A q \in Procs, u \in Tasks : <<q, u>> # <<p, t>> => exec'[q][u] = exec[q][u]
  BY <1>0, <1>1, <1>2, BecomesType DEF TypeOK
<1>4. claim'[t] = Claim(p, TTL + w) /\ HeldBy(p, t)
      /\ \A u \in Tasks : u # t => claim'[u] = claim[u]
  BY <1>0 DEF Extend, Keep, TypeOK
<1>5. claim'[t].owner = p /\ claim'[t].left > 0 /\ claim'[t].left >= w
  BY <1>0, <1>4 DEF Claim
<1>6. ASSUME NEW q \in Procs, NEW u \in Tasks, Asleep(exec'[q][u])
      PROVE  \/ /\ claim'[u].left > 0 /\ claim'[u].owner = q
                /\ claim'[u].left >= exec'[q][u].wait
             \/ /\ exec'[q][u].late
                /\ exec'[q][u].slept < TTL =>
                      /\ claim'[u].left > 0 /\ claim'[u].owner = q
                      /\ claim'[u].left + exec'[q][u].slept >= TTL
  <2>1. CASE <<q, u>> = <<p, t>>
    BY <1>2, <1>3, <1>5, <1>6, <2>1
  <2>2. CASE <<q, u>> # <<p, t>>
    <3>1. exec'[q][u] = exec[q][u] /\ Asleep(exec[q][u])
      BY <1>3, <1>6, <2>2
    <3>2. HeldBy(q, u) => u # t
      BY <1>4, <2>2 DEF HeldBy
    <3>3. \/ HeldBy(q, u) /\ claim[u].left >= exec[q][u].wait
          \/ /\ exec[q][u].late
             /\ exec[q][u].slept < TTL => HeldBy(q, u) /\ claim[u].left + exec[q][u].slept >= TTL
      BY <3>1 DEF SInv, LeftAloneUntilDue, In, Asleep
    <3>4. HeldBy(q, u) => claim'[u] = claim[u]
      BY <1>4, <3>2
    <3> QED
      BY <3>1, <3>3, <3>4 DEF HeldBy
  <2> QED
    BY <2>1, <2>2
<1> QED
  BY <1>6 DEF SInv, LeftAloneUntilDue, In, HeldBy, Asleep

LEMMA IteratingSInv ==
    ASSUME SInv, TypeOK', OwnFlights', NEW p \in Procs, NEW t \in Tasks, Iterating(p, t)
    PROVE  SInv'
<1>0. TypeOK /\ exec[p][t].wait \in Nat
  BY DEF SInv, TypeOK, Execution
<1>1. CASE Extend(p, t)
  BY <1>1, ExtendSInv
<1>2. CASE HoldKeeps(p, t) \/ HoldTakes(p, t)
  <2>1. \A q \in Procs, u \in Tasks : HeldBy(q, u) => claim'[u] = claim[u] \/ <<q, u>> = <<p, t>>
    BY <1>0, <1>2, WritesAreOwn DEF HoldKeeps, HoldTakes
  <2> QED
    BY <1>2, <2>1, ExecutionTypes, SleepsWritten, OneAwake DEF HoldKeeps, HoldTakes
<1>3. CASE ExtendAndLeave(p, t) \/ Release(p, t)
  <2>1. \A q \in Procs, u \in Tasks : HeldBy(q, u) => claim'[u] = claim[u] \/ <<q, u>> = <<p, t>>
    BY <1>0, <1>3, WritesAreOwn DEF ExtendAndLeave, Release
  <2> QED
    BY <1>3, <2>1, ExecutionTypes, SleepsWritten, OneAwake DEF ExtendAndLeave, Release
<1>4. ASSUME UNCHANGED claim, NEW e \in Execution, Becomes(p, t, e), ~Asleep(e)
      PROVE  SInv'
  BY <1>4, OneAwake
<1>5. /\ Idle \in Execution /\ ~Asleep(Idle)
      /\ \A s \in Stages \ {"sleeping"} : At(s) \in Execution /\ ~Asleep(At(s))
      /\ \A s \in Stages \ {"sleeping"}, w \in Waits :
            AtFor(s, w) \in Execution /\ ~Asleep(AtFor(s, w))
  BY ExecutionTypes, SleepsWritten
<1>6. {"queued", "dispatched", "holding", "taking", "releasing", "extending", "leaving"}
         \subseteq Stages \ {"sleeping"}
  BY DEF Stages
<1>7. CASE Dispatch(p, t) \/ LookAtSignal(p, t) \/ HoldFindsNotOurs(p, t) \/ HoldRefused(p, t)
             \/ WriteThrows(p, t)
  BY <1>4, <1>5, <1>6, <1>7
     DEF Dispatch, LookAtSignal, HoldFindsNotOurs, HoldRefused, WriteThrows
<1>8. CASE RunThrows(p, t) \/ RunEnds(p, t)
  BY <1>4, <1>5, <1>6, <1>8 DEF RunThrows, RunEnds
<1>9. ASSUME NEW w \in Waits, RunContinues(p, t, w) PROVE SInv'
  BY <1>4, <1>5, <1>6, <1>9 DEF RunContinues
<1>10. CASE ExtendRefused(p, t) \/ Wake(p, t)
  BY <1>4, <1>5, <1>6, <1>10 DEF ExtendRefused, Wake
<1> QED
  BY <1>1, <1>2, <1>3, <1>7, <1>8, <1>9, <1>10 DEF Iterating

\* A renewal that lands while the task sleeps sets its claim to one TTL, and is remembered.
LEMMA RenewingSInv ==
    ASSUME SInv, TypeOK', OwnFlights', NEW p \in Procs, NEW t \in Tasks, Renewing(p, t)
    PROVE  SInv'
<1> DEFINE d == exec[p][t]
<1>1. TypeOK /\ d \in Execution
  BY DEF SInv, TypeOK
<1>2. CASE RenewKeeps(p, t)
  <2> DEFINE e == IF flight[p][t] = "own" THEN Extended(d) ELSE Overtaken(d)
  <2>1. Becomes(p, t, e)
    BY <1>2 DEF RenewKeeps
  <2>2. e \in Execution
    BY <1>1, <2>1, ExecutionUpdates
  <2>3. /\ exec'[p][t] = e
        /\ \A q \in Procs, u \in Tasks : <<q, u>> # <<p, t>> => exec'[q][u] = exec[q][u]
    BY <1>1, <2>1, <2>2, BecomesType DEF TypeOK
  <2>4. claim'[t] = Claim(p, TTL) /\ HeldBy(p, t)
        /\ \A u \in Tasks : u # t => claim'[u] = claim[u]
    BY <1>1, <1>2 DEF RenewKeeps, Keep, TypeOK
  <2>5. ASSUME flight[p][t] # "own", Asleep(e)
        PROVE  SleepsOn(p, t)
    <3>1. e = Overtaken(d)
      BY <2>1, <2>5
    <3>2. e.stage = d.stage /\ e.wait = d.wait /\ e.slept = d.slept /\ Asleep(d)
      BY <1>1, <2>5, <3>1, SleepsWritten DEF Asleep
    <3>3. e.late
      BY <1>1, <3>1, <3>2, SleepsWritten
    <3> QED
      BY <2>3, <2>4, <3>2, <3>3 DEF SleepsOn, Asleep, Claim
  <2>6. ASSUME flight[p][t] = "own", Asleep(e)
        PROVE  SleepsOn(p, t)
    <3>1. d.stage = "running" /\ e = Extended(d)
      BY <1>1, <2>1, <2>6 DEF SInv, OwnFlights, Running
    <3> QED
      BY <1>1, <2>6, <3>1, SleepsWritten DEF Asleep
  <2>7. ASSUME NEW q \in Procs, NEW u \in Tasks, Asleep(exec'[q][u]), <<q, u>> # <<p, t>>
        PROVE  SleepsOn(q, u)
    BY <2>3, <2>4, <2>7 DEF SleepsOn, Asleep, HeldBy
  <2> QED
    BY <2>3, <2>5, <2>6, <2>7, SleepersLeftAlone
<1>3. CASE RenewIssued(p, t) \/ RenewLoses(p, t) \/ RenewFails(p, t)
  <2>1. PICK e \in {d, Issued(d), Lost(d), Missed(d)} : Becomes(p, t, e) /\ UNCHANGED claim
    BY <1>3 DEF RenewIssued, RenewLoses, RenewFails
  <2>2. e \in Execution
    BY <1>1, <2>1, ExecutionUpdates
  <2>3. e.stage = d.stage /\ e.wait = d.wait /\ e.slept = d.slept /\ e.late = d.late
    BY <1>1, <2>1, SleepsWritten
  <2>4. /\ exec'[p][t] = e
        /\ \A q \in Procs, u \in Tasks : <<q, u>> # <<p, t>> => exec'[q][u] = exec[q][u]
    BY <1>1, <2>1, <2>2, BecomesType DEF TypeOK
  <2>5. ASSUME NEW q \in Procs, NEW u \in Tasks, Asleep(exec'[q][u])
        PROVE  SleepsOn(q, u)
    BY <2>1, <2>3, <2>4, <2>5 DEF SleepsOn, Asleep
  <2> QED
    BY <2>5, SleepersLeftAlone
<1> QED
  BY <1>2, <1>3 DEF Renewing

\* Processes that boot, stop and exit touch no claim.
LEMMA LivingSInv ==
    ASSUME SInv, TypeOK', OwnFlights', NEW p \in Procs, Boot(p) \/ Stop(p) \/ Exit(p)
    PROVE  SInv'
<1>1. UNCHANGED claim
  BY DEF Boot, Stop, Exit
<1>2. ASSUME NEW q \in Procs, NEW u \in Tasks
      PROVE  exec'[q][u] = exec[q][u] \/ exec'[q][u] = Idle \/ exec'[q][u] = Told(exec[q][u])
  <2>1. CASE Boot(p)
    BY <2>1 DEF Boot
  <2>2. CASE Stop(p)
    BY <2>2 DEF Stop, SInv, TypeOK
  <2>3. CASE Exit(p)
    BY <2>3 DEF Exit, SInv, TypeOK
  <2> QED
    BY <2>1, <2>2, <2>3
<1>3. ASSUME NEW q \in Procs, NEW u \in Tasks, Asleep(exec'[q][u])
      PROVE  SleepsOn(q, u)
  <2>1. exec[q][u] \in Execution
    BY DEF SInv, TypeOK
  <2>2. exec'[q][u] = exec[q][u] \/ exec'[q][u] = Told(exec[q][u])
    BY <1>2, <1>3, SleepsWritten
  <2> QED
    BY <1>1, <1>3, <2>1, <2>2, SleepsWritten DEF SleepsOn, Asleep
<1> QED
  BY <1>3, SleepersLeftAlone

\* The wait and the claim run down together.
LEMMA TickSInv == ASSUME SInv, TypeOK', OwnFlights', Tick PROVE SInv'
<1>1. SUFFICES ASSUME NEW q \in Procs, NEW u \in Tasks, Asleep(exec'[q][u])
               PROVE  \/ /\ claim'[u].left > 0 /\ claim'[u].owner = q
                         /\ claim'[u].left >= exec'[q][u].wait
                      \/ /\ exec'[q][u].late
                         /\ exec'[q][u].slept < TTL =>
                               /\ claim'[u].left > 0 /\ claim'[u].owner = q
                               /\ claim'[u].left + exec'[q][u].slept >= TTL
  BY DEF SInv, LeftAloneUntilDue, Asleep, In, HeldBy
<1> DEFINE d == exec[q][u]
           e == exec'[q][u]
<1>2. /\ e = Later(d) /\ d \in Execution
      /\ claim'[u] = Aged(claim[u]) /\ claim[u] \in ClaimRecord
  BY DEF Tick, SInv, TypeOK, ClaimRecord
<1>3. /\ d.stage = "sleeping" /\ d.wait \in Nat /\ d.slept \in Nat /\ d.wait > 1
      /\ e.wait = d.wait - 1 /\ e.slept = d.slept + 1 /\ e.late = d.late
  BY <1>1, <1>2 DEF Later, Asleep, Execution
<1>4. \/ HeldBy(q, u) /\ claim[u].left >= d.wait
      \/ d.late /\ (d.slept < TTL => HeldBy(q, u) /\ claim[u].left + d.slept >= TTL)
  BY <1>3 DEF SInv, LeftAloneUntilDue, In
<1>5. /\ claim[u].left \in Nat
      /\ claim[u].left > 1 => /\ claim'[u].left = claim[u].left - 1 /\ claim'[u].left > 0
                              /\ claim'[u].owner = claim[u].owner
  BY <1>2, AgedRecord
<1>6. CASE HeldBy(q, u) /\ claim[u].left >= d.wait
  BY <1>3, <1>5, <1>6 DEF HeldBy
<1>7. CASE d.late /\ (d.slept < TTL => HeldBy(q, u) /\ claim[u].left + d.slept >= TTL)
  BY <1>3, <1>5, <1>7 DEF HeldBy
<1> QED
  BY <1>4, <1>6, <1>7

\* A write that is an iteration's own belongs to one that runs, whatever the timing.
LEMMA NextOwnFlights == TypeOK /\ OwnFlights /\ [Next]_vars => OwnFlights'
<1> SUFFICES ASSUME TypeOK, OwnFlights, [Next]_vars PROVE OwnFlights'
  OBVIOUS
<1>1. ASSUME NEW p \in Procs, NEW t \in Tasks, Triggering(p, t) PROVE OwnFlights'
  BY <1>1 DEF TypeOK, OwnFlights, Running, In, Triggering, TriggerClaims, TriggerUnclaimed,
              TriggerStarts, Start
<1>2. ASSUME NEW p \in Procs, NEW t \in Tasks, Iterating(p, t) PROVE OwnFlights'
  <2>1. CASE /\ ~Running(p, t) /\ UNCHANGED flight
             /\ \A q \in Procs, u \in Tasks : <<q, u>> # <<p, t>> => exec'[q][u] = exec[q][u]
    BY <2>1 DEF OwnFlights, Running
  <2>2. CASE RunThrows(p, t) \/ RunEnds(p, t) \/ \E w \in Waits : RunContinues(p, t, w)
    <3>1. LeaveFlight(p, t) /\ \E e : Becomes(p, t, e)
      BY <2>2 DEF RunThrows, RunEnds, RunContinues
    <3>2. \A q \in Procs, u \in Tasks :
             /\ <<q, u>> # <<p, t>> => exec'[q][u] = exec[q][u] /\ flight'[q][u] = flight[q][u]
             /\ <<q, u>> = <<p, t>> => flight'[q][u] # "own"
      BY <3>1 DEF LeaveFlight, Becomes, TypeOK
    <3> QED
      BY <3>2 DEF OwnFlights, Running
  <2>3. ASSUME ~(RunThrows(p, t) \/ RunEnds(p, t) \/ \E w \in Waits : RunContinues(p, t, w))
        PROVE  /\ ~Running(p, t) /\ UNCHANGED flight
               /\ \E e : Becomes(p, t, e)
    <3>1. CASE Dispatch(p, t) \/ LookAtSignal(p, t) \/ HoldKeeps(p, t) \/ HoldFindsNotOurs(p, t)
      BY <3>1 DEF Running, In, Dispatch, LookAtSignal, HoldKeeps, HoldFindsNotOurs
    <3>2. CASE HoldTakes(p, t) \/ HoldRefused(p, t) \/ WriteThrows(p, t) \/ Wake(p, t)
      BY <3>2 DEF Running, In, HoldTakes, HoldRefused, WriteThrows, Wake
    <3>3. CASE Release(p, t) \/ Extend(p, t) \/ ExtendAndLeave(p, t) \/ ExtendRefused(p, t)
      BY <3>3 DEF Running, In, Release, Extend, ExtendAndLeave, ExtendRefused
    <3> QED
      BY <1>2, <2>3, <3>1, <3>2, <3>3 DEF Iterating
  <2>4. ASSUME NEW e, Becomes(p, t, e)
        PROVE  \A q \in Procs, u \in Tasks : <<q, u>> # <<p, t>> => exec'[q][u] = exec[q][u]
    BY <2>4 DEF Becomes, TypeOK
  <2> QED
    BY <2>1, <2>2, <2>3, <2>4
<1>3. ASSUME NEW p \in Procs, NEW t \in Tasks, Renewing(p, t) PROVE OwnFlights'
  <2> DEFINE d == exec[p][t]
  <2>1. d \in Execution
    BY DEF TypeOK
  <2>2. PICK e \in {d, Issued(d), Extended(d), Overtaken(d), Missed(d), Lost(d)} : Becomes(p, t, e)
    BY <1>3 DEF Renewing, RenewIssued, RenewKeeps, RenewLoses, RenewFails
  <2>3. e \in Execution /\ e.stage = d.stage
    <3>1. e \in Execution
      BY <2>1, <2>2, ExecutionUpdates
    <3>2. \A f \in {Issued(d), Extended(d), Overtaken(d), Missed(d), Lost(d)} : f.stage = d.stage
      BY <2>1, SleepsWritten
    <3> QED
      BY <2>2, <3>1, <3>2
  <2>4. /\ exec'[p][t] = e
        /\ \A q \in Procs, u \in Tasks : <<q, u>> # <<p, t>> => exec'[q][u] = exec[q][u]
    BY <2>2, <2>3, BecomesType DEF TypeOK
  <2>5. /\ \A q \in Procs, u \in Tasks : <<q, u>> # <<p, t>> => flight'[q][u] = flight[q][u]
        /\ flight'[p][t] = "own" => Running(p, t)
    BY <1>3 DEF Renewing, RenewIssued, RenewKeeps, RenewLoses, RenewFails, TypeOK
  <2> QED
    BY <2>3, <2>4, <2>5 DEF OwnFlights, Running
<1>4. ASSUME NEW p \in Procs, Sweeping(p) PROVE OwnFlights'
  <2>1. UNCHANGED <<exec, flight>> \/ SweepStarts(p)
    BY <1>4 DEF Sweeping, SweepTakes, SweepGivesUp, SweepFails
  <2>2. CASE UNCHANGED <<exec, flight>>
    BY <2>2 DEF OwnFlights, Running
  <2>3. CASE SweepStarts(p)
    <3>1. PICK t \in Tasks : t = sweep[p]
      BY <2>3 DEF SweepStarts, TypeOK
    <3>2. Start(p, t) /\ UNCHANGED flight
      BY <2>3, <3>1 DEF SweepStarts, Start
    <3> QED
      BY <3>2 DEF TypeOK, OwnFlights, Running, In, Start
  <2> QED
    BY <2>1, <2>2, <2>3
<1>5. ASSUME NEW p \in Procs, Boot(p) \/ Stop(p) \/ Exit(p) PROVE OwnFlights'
  <2>1. CASE Boot(p)
    BY <2>1 DEF Boot, OwnFlights, Running
  <2>2. CASE Stop(p)
    <3>1. \A e \in Execution : Told(e).stage = e.stage
      BY SleepsWritten
    <3> QED
      BY <2>2, <3>1 DEF Stop, OwnFlights, Running, TypeOK
  <2>3. CASE Exit(p)
    BY <2>3 DEF Exit, OwnFlights, Running, TypeOK
  <2> QED
    BY <1>5, <2>1, <2>2, <2>3
<1>6. CASE Tick
  <2>1. \A e \in Execution : Later(e).stage = e.stage
    BY DEF Later, Execution
  <2>2. \A p \in Procs, t \in Tasks : exec'[p][t].stage = exec[p][t].stage
    BY <1>6, <2>1 DEF Tick, TypeOK
  <2> QED
    BY <1>6, <2>2 DEF Tick, OwnFlights, Running
<1>7. CASE UNCHANGED vars
  BY <1>7 DEF vars, OwnFlights, Running
<1> QED
  BY <1>1, <1>2, <1>3, <1>4, <1>5, <1>6, <1>7 DEF Next

LEMMA NextSInv == ASSUME ~MayGiveUp PROVE SInv /\ [Next]_vars => SInv'
<1> SUFFICES ASSUME SInv, [Next]_vars PROVE SInv'
  OBVIOUS
<1>0. TypeOK' /\ OwnFlights'
  BY NextTypeOK, NextOwnFlights DEF SInv
<1>1. CASE \E p \in Procs, t \in Tasks : Triggering(p, t) \/ Iterating(p, t) \/ Renewing(p, t)
  BY <1>0, <1>1, TriggeringSInv, IteratingSInv, RenewingSInv
<1>2. CASE \E p \in Procs : Sweeping(p) \/ Boot(p) \/ Stop(p) \/ Exit(p)
  BY <1>0, <1>2, SweepingSInv, LivingSInv
<1>3. CASE Tick
  BY <1>0, <1>3, TickSInv
<1>4. CASE UNCHANGED vars
  BY <1>0, <1>4 DEF vars, SInv, LeftAloneUntilDue, In, HeldBy
<1> QED
  BY <1>1, <1>2, <1>3, <1>4 DEF Next

\* However long tasks wait, one that sleeps between iterations is left alone until it is due; a
\* renewal that lands late in its sleep leaves it a whole TTL.  (No sweep gives up a task its own
\* process drives: ~MayGiveUp.)
THEOREM SleepersAreLeftAlone ==
    ASSUME ~MayGiveUp
    PROVE  Spec => []LeftAloneUntilDue
<1>1. Init => SInv
  <2>1. Init => LeftAloneUntilDue /\ OwnFlights
    BY ExecutionTypes DEF Init, LeftAloneUntilDue, OwnFlights, In
  <2> QED
    BY <2>1, InitTypeOK DEF SInv
<1>2. SInv /\ [Next]_vars => SInv'
  BY NextSInv
<1>3. SInv => LeftAloneUntilDue
  BY DEF SInv
<1> QED
  BY <1>1, <1>2, <1>3, PTL DEF Spec
=============================================================================
