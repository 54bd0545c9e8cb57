------------------------ MODULE RecoveredTasks_proofs ------------------------
(***************************************************************************)
(* Proofs about RecoveredTasks.  Of every task that no process's sweep     *)
(* took while that process drove it: who runs it or sleeps on it holds its *)
(* claim, one process runs it at a time, as ExclusiveRuns promises,        *)
(* recovery fails it only while nobody runs it, and its outcome is undone  *)
(* only by the trigger's late answer - however long tasks wait for slots,  *)
(* whatever crashes, however stale a sweep's list is, and whichever writes *)
(* fail.                                                                   *)
(***************************************************************************)
EXTENDS RecoveredTasks, SequenceTheorems, TLAPS

-----------------------------------------------------------------------------
(* The inductive invariant, one conjunct per way in which a task's state   *)
(* hangs together.                                                         *)

Driven(p, t) == exec[p][t].stage # "none"
Working(p, t) == exec[p][t].stage \in {"begun", "body", "sleeping"}
NobodyDrives(t) == \A p \in Procs : ~Driven(p, t)
NobodySweeps(t) == \A p \in Procs : sweep[p].task # t

\* A task that no sweep will take: nobody holds it, but it was just triggered, and so says every list.
Sheltered(t) ==
    /\ Free(t) /\ rec[t].status = "pending" /\ age[t] < TTL
    /\ NobodySweeps(t)
    /\ \A p \in Procs : \A item \in list[p] : item.task = t => IsJustTriggered(item)

\* A task that does not exist yet is nowhere.
NotYet(t) ==
    rec[t].status = "none" =>
        /\ Free(t) /\ age[t] = 0
        /\ NobodyDrives(t) /\ NobodySweeps(t)
        /\ \A p \in Procs : \A item \in list[p] : item.task # t

\* Between a trigger's first two steps its task is sheltered.
JustCreated(t) ==
    trigger[t].step = "created" =>
        /\ trigger[t].by \in Procs
        /\ Sheltered(t) /\ NobodyDrives(t)
        /\ \A p \in Procs : \A item \in list[p] : item.task = t => item.age <= age[t]

\* What the trigger reads for its answer is a task that exists.
AnswerIsKnown(t) ==
    /\ trigger[t].step \in {"sent", "read"} => rec[t].status # "none"
    /\ trigger[t].step = "read" => trigger[t].read.status # "none"

Known(t) == NotYet(t) /\ JustCreated(t) /\ AnswerIsKnown(t)

\* Who runs a task, or sleeps on it, holds its claim.
WorkedIsHeld(t) ==
    \A p \in Procs : Working(p, t) => HeldBy(p, t)

\* A task in a sweep's hands is claimed for it, and its process does not drive it.
SweptIsHeld(t) ==
    \A p \in Procs : sweep[p].task = t => HeldBy(p, t) /\ In(p, t, "none")

\* The claim of a task that sleeps lasts a TTL longer than its sleep.
SleepsUnderClaim(t) ==
    \A p \in Procs : In(p, t, "sleeping") => claim[t].left >= exec[p][t].wait + TTL

\* A task whose code runs has no outcome, and no iteration has lost its claim.
BodyIsUnfinished(t) ==
    \A p \in Procs : (InBody(p, t) => rec[t].status \notin Finished) /\ ~exec[p][t].lost

\* The trigger's answer brings no outcome that the record has not.
AnswerIsBehind(t) ==
    trigger[t].step = "read" /\ trigger[t].read.status \in Finished => rec[t].status \in Finished

Exclusively(t) ==
    /\ WorkedIsHeld(t) /\ SweptIsHeld(t)
    /\ SleepsUnderClaim(t) /\ BodyIsUnfinished(t) /\ AnswerIsBehind(t)

TaskInv(t) == Known(t) /\ (~selfTaken[t] => Exclusively(t))

\* A process's line holds the tasks that are queued there, each once.
LineInv(p) ==
    /\ \A t \in Tasks : In(p, t, "queued") <=> \E i \in 1..Len(line[p]) : line[p][i] = t
    /\ \A i, j \in 1..Len(line[p]) : line[p][i] = line[p][j] => i = j

\* A sweep past its first step has a task.
SweepInv(p) == sweep[p].step # "idle" => sweep[p].task \in Tasks

IInv ==
    /\ TypeOK
    /\ \A t \in Tasks : TaskInv(t)
    /\ \A p \in Procs : LineInv(p) /\ SweepInv(p)

-----------------------------------------------------------------------------
(* Types.                                                                  *)

StageNames == {"none", "queued", "begun", "body", "sleeping"}
ExecType == [stage : StageNames, delay : Nat, wait : Nat, lost : BOOLEAN]
ExecsType == [Procs -> [Tasks -> ExecType]]
ClaimsType == [Tasks -> [owner : Procs \cup {None}, left : Nat]]
LinesType == [Procs -> Seq(Tasks)]

LEMMA AwayType == Away \in ExecType
BY DEF Away, ExecType, StageNames

\* Putting a member of its type for one task of one process.
LEMMA ExecAt ==
    ASSUME exec \in ExecsType, NEW p \in Procs, NEW t \in Tasks, NEW x \in ExecType
    PROVE  [exec EXCEPT ![p][t] = x] \in ExecsType
BY DEF ExecsType

LEMMA StageTypes ==
    ASSUME exec \in ExecsType, NEW p \in Procs, NEW t \in Tasks, NEW s \in StageNames,
           Stage(p, t, s)
    PROVE  exec' \in ExecsType
<1>1. exec' = [exec EXCEPT ![p][t] = [exec[p][t] EXCEPT !.stage = s]]
  BY DEF Stage, ExecsType
<1>2. exec[p][t] \in ExecType
  BY DEF ExecsType
<1>3. [exec[p][t] EXCEPT !.stage = s] \in ExecType
  BY <1>2 DEF ExecType
<1> QED
  BY <1>1, <1>3, ExecAt

LEMMA LeavesTypes ==
    ASSUME exec \in ExecsType, NEW p \in Procs, NEW t \in Tasks, Leaves(p, t)
    PROVE  exec' \in ExecsType
BY AwayType, ExecAt DEF Leaves

LEMMA JoinTypes ==
    ASSUME line \in LinesType, NEW p \in Procs, NEW t \in Tasks,
           line' = [line EXCEPT ![p] = Append(@, t)]
    PROVE  line' \in LinesType
<1>1. Append(line[p], t) \in Seq(Tasks)
  BY AppendProperties DEF LinesType
<1> QED
  BY <1>1 DEF LinesType

LEMMA StartTypes ==
    ASSUME exec \in ExecsType, line \in LinesType,
           NEW p \in Procs, NEW t \in Tasks, NEW d \in Nat, Start(p, t, d)
    PROVE  exec' \in ExecsType /\ line' \in LinesType
<1>1. [Away EXCEPT !.stage = "queued", !.delay = d] \in ExecType
  BY AwayType DEF ExecType, StageNames
<1>2. CASE life[p] = "up" /\ In(p, t, "none")
  <2>1. exec' = [exec EXCEPT ![p][t] = [Away EXCEPT !.stage = "queued", !.delay = d]]
        /\ line' = [line EXCEPT ![p] = Append(@, t)]
    BY <1>2 DEF Start
  <2> QED
    BY <2>1, <1>1, ExecAt, JoinTypes
<1>3. CASE ~(life[p] = "up" /\ In(p, t, "none"))
  BY <1>3 DEF Start
<1> QED
  BY <1>2, <1>3

LEMMA ReleasedType ==
    ASSUME claim \in ClaimsType, NEW p \in Procs, NEW t \in Tasks
    PROVE  Released(p, t) \in ClaimsType
BY DEF Released, NoClaim, ClaimsType

LEMMA ClaimedType ==
    ASSUME claim \in ClaimsType, NEW p \in Procs, NEW t \in Tasks, NEW n \in Nat
    PROVE  [claim EXCEPT ![t] = Claim(p, n)] \in ClaimsType
BY DEF Claim, ClaimsType

LEMMA EndsTypes ==
    ASSUME exec \in ExecsType, line \in LinesType, claim \in ClaimsType,
           NEW p \in Procs, NEW t \in Tasks, Ends(p, t)
    PROVE  exec' \in ExecsType /\ line' \in LinesType /\ claim' \in ClaimsType
BY LeavesTypes, ReleasedType DEF Ends

LEMMA GoesOnTypes ==
    ASSUME exec \in ExecsType, line \in LinesType, claim \in ClaimsType,
           NEW p \in Procs, NEW t \in Tasks, NEW w \in Nat, GoesOn(p, t, w)
    PROVE  exec' \in ExecsType /\ line' \in LinesType /\ claim' \in ClaimsType
<1>1. TTL + w \in Nat
  BY RecoveryAssumption
<1>2. claim' \in ClaimsType
  BY <1>1, ReleasedType, ClaimedType DEF GoesOn
<1>3. /\ [Away EXCEPT !.stage = "sleeping", !.wait = w] \in ExecType
      /\ [Away EXCEPT !.stage = "queued"] \in ExecType
  BY AwayType DEF ExecType, StageNames
<1>4. exec' \in ExecsType
  BY <1>3, LeavesTypes, ExecAt DEF GoesOn
<1>5. line' = line \/ line' = [line EXCEPT ![p] = Append(@, t)]
  BY DEF GoesOn
<1>6. line' \in LinesType
  BY <1>5, JoinTypes
<1> QED
  BY <1>2, <1>4, <1>6

RecsType == [Tasks -> [status : Statuses, iterations : 0..MaxIterations, saves : Nat]]
ItemType == [task : Tasks, saves : Nat, age : 0..TTL, pending : BOOLEAN]
ListsType == [Procs -> SUBSET ItemType]
SweepType == [task : Tasks \cup {None}, saves : Nat, step : {"idle", "taken", "failing", "releasing"}]
ReadType == [status : Statuses, iterations : 0..MaxIterations]
TriggerType == [by : Procs \cup {None}, step : {"none", "created", "sent", "read", "done"}, delay : Nat,
                read : ReadType]
LifeType == {"off", "up", "stopping", "dead"}

\* TypeOK by names.
LEMMA TypeParts ==
    TypeOK <=>
      /\ rec \in RecsType
      /\ age \in [Tasks -> 0..TTL]
      /\ claim \in ClaimsType
      /\ picked \in [Tasks -> [count : Nat, saves : Nat]]
      /\ trigger \in [Tasks -> TriggerType]
      /\ exec \in ExecsType
      /\ line \in LinesType
      /\ list \in ListsType
      /\ sweep \in [Procs -> SweepType]
      /\ life \in [Procs -> LifeType]
      /\ crashes \in [Tasks -> Nat]
      /\ selfTaken \in [Tasks -> BOOLEAN]
BY DEF TypeOK, RecsType, ClaimsType, TriggerType, ReadType, ExecsType, ExecType, StageNames, LinesType, ListsType,
       ItemType, SweepType, LifeType

LEMMA TypePartsPrimed ==
    TypeOK' <=>
      /\ rec' \in RecsType
      /\ age' \in [Tasks -> 0..TTL]
      /\ claim' \in ClaimsType
      /\ picked' \in [Tasks -> [count : Nat, saves : Nat]]
      /\ trigger' \in [Tasks -> TriggerType]
      /\ exec' \in ExecsType
      /\ line' \in LinesType
      /\ list' \in ListsType
      /\ sweep' \in [Procs -> SweepType]
      /\ life' \in [Procs -> LifeType]
      /\ crashes' \in [Tasks -> Nat]
      /\ selfTaken' \in [Tasks -> BOOLEAN]
BY DEF TypeOK, RecsType, ClaimsType, TriggerType, ReadType, ExecsType, ExecType, StageNames, LinesType, ListsType,
       ItemType, SweepType, LifeType

LEMMA SaveTypes ==
    ASSUME rec \in RecsType, age \in [Tasks -> 0..TTL], NEW t \in Tasks,
           NEW s \in Statuses, NEW n \in 0..MaxIterations, Save(t, s, n)
    PROVE  rec' \in RecsType /\ age' \in [Tasks -> 0..TTL]
<1>1. rec[t].saves + 1 \in Nat
  BY DEF RecsType
<1>2. [status |-> s, iterations |-> n, saves |-> rec[t].saves + 1]
        \in [status : Statuses, iterations : 0..MaxIterations, saves : Nat]
  BY <1>1
<1>3. rec' = [rec EXCEPT ![t] = [status |-> s, iterations |-> n, saves |-> rec[t].saves + 1]]
  BY DEF Save, RecsType
<1>4. rec' \in RecsType
  BY <1>2, <1>3 DEF RecsType
<1>5. 0 \in 0..TTL
  BY RecoveryAssumption
<1> QED
  BY <1>4, <1>5 DEF Save

USE DEF LifeType

LEMMA UnreadType == Unread \in ReadType /\ Triggered \in TriggerType
<1>1. 0 \in 0..MaxIterations
  BY RecoveryAssumption
<1> QED
  BY <1>1 DEF Unread, ReadType, Statuses, Triggered, TriggerType

LEMMA InitTypes == Init => TypeOK
<1> SUFFICES ASSUME Init PROVE TypeOK
  OBVIOUS
<1>1. 0 \in 0..TTL /\ 0 \in 0..MaxIterations
  BY RecoveryAssumption
<1>2. rec \in RecsType /\ age \in [Tasks -> 0..TTL]
  BY <1>1 DEF Init, RecsType, Statuses
<1>3. claim \in ClaimsType /\ picked \in [Tasks -> [count : Nat, saves : Nat]]
  BY DEF Init, ClaimsType, NoClaim
<1>4. exec \in ExecsType
  BY AwayType DEF Init, ExecsType
<1>5. trigger \in [Tasks -> TriggerType] /\ line \in LinesType /\ list \in ListsType
  BY UnreadType DEF Init, TriggerType, LinesType, ListsType
<1>6. sweep \in [Procs -> SweepType] /\ life \in [Procs -> LifeType] /\ crashes \in [Tasks -> Nat]
      /\ selfTaken \in [Tasks -> BOOLEAN]
  BY DEF Init, SweepType, NoSweep
<1> QED
  BY <1>2, <1>3, <1>4, <1>5, <1>6, TypeParts

LEMMA TriggeringTypes ==
    ASSUME TypeOK, NEW p \in Procs, NEW t \in Tasks, Triggering(p, t)
    PROVE  TypeOK'
<1>1. ASSUME NEW d \in Delays, Create(p, t, d) PROVE TypeOK'
  <2>1. d \in Nat
    BY <1>1, RecoveryAssumption
  <2>2. rec' \in RecsType
    BY <1>1, TypeParts DEF Create, RecsType, Statuses
  <2>3. trigger' \in [Tasks -> TriggerType]
    BY <1>1, <2>1, TypeParts, UnreadType DEF Create, TriggerType
  <2> QED
    BY <1>1, <2>2, <2>3, TypeParts, TypePartsPrimed DEF Create
<1>2. CASE Send(p, t)
  <2>1. trigger[t].delay \in Nat /\ TTL + trigger[t].delay \in Nat
    BY TypeParts, RecoveryAssumption DEF TriggerType
  <2>2. claim' \in ClaimsType
    BY <1>2, <2>1, TypeParts, ClaimedType DEF Send
  <2>3. exec' \in ExecsType /\ line' \in LinesType
    BY <1>2, <2>1, TypeParts, StartTypes DEF Send
  <2>4. trigger' \in [Tasks -> TriggerType]
    BY <1>2, TypeParts DEF Send, TriggerType
  <2> QED
    BY <1>2, <2>2, <2>3, <2>4, TypeParts, TypePartsPrimed DEF Send
<1>4. CASE ReadForResponse(p, t)
  <2>1. [status |-> rec[t].status, iterations |-> rec[t].iterations] \in ReadType
    BY TypeParts DEF RecsType, ReadType
  <2>2. trigger' \in [Tasks -> TriggerType]
    <3> DEFINE x == [status |-> rec[t].status, iterations |-> rec[t].iterations]
               y == [trigger[t] EXCEPT !.step = "read", !.read = x]
    <3>1. trigger[t] \in TriggerType /\ trigger \in [Tasks -> TriggerType]
      BY TypeParts
    <3>2. trigger' = [trigger EXCEPT ![t] = y]
      BY <1>4, <3>1 DEF ReadForResponse
    <3>3. y \in TriggerType
      <4> HIDE DEF x
      <4> QED BY <2>1, <3>1 DEF TriggerType, x
    <3> HIDE DEF y
    <3> QED
      BY <3>1, <3>2, <3>3
  <2> QED
    BY <1>4, <2>2, TypeParts, TypePartsPrimed DEF ReadForResponse
<1>3. CASE SaveResponse(p, t)
  <2>1. trigger[t].read.status \in Statuses /\ trigger[t].read.iterations \in 0..MaxIterations
    BY TypeParts DEF TriggerType, ReadType
  <2>2. rec' \in RecsType /\ age' \in [Tasks -> 0..TTL]
    BY <1>3, <2>1, TypeParts, SaveTypes DEF SaveResponse
  <2>3. trigger' \in [Tasks -> TriggerType]
    BY <1>3, TypeParts, UnreadType DEF SaveResponse
  <2> QED
    BY <1>3, <2>2, <2>3, TypeParts, TypePartsPrimed DEF SaveResponse
<1> QED
  BY <1>1, <1>2, <1>3, <1>4 DEF Triggering

LEMMA SweepingTypes ==
    ASSUME TypeOK, NEW p \in Procs, SweepInv(p), Sweeping(p)
    PROVE  TypeOK'
<1>1. CASE SweepLists(p)
  <2>1. \A t \in Tasks : [task |-> t, saves |-> rec[t].saves, age |-> age[t],
                          pending |-> rec[t].status = "pending"] \in ItemType
    BY TypeParts DEF RecsType, ItemType
  <2>2. list' \in ListsType
    BY <1>1, <2>1, TypeParts DEF SweepLists, ListsType
  <2> QED
    BY <1>1, <2>2, TypeParts, TypePartsPrimed DEF SweepLists
<1>2. ASSUME NEW item \in list[p], SweepSkips(p, item) PROVE TypeOK'
  <2>1. list' \in ListsType
    BY <1>2, TypeParts DEF SweepSkips, ListsType
  <2> QED
    BY <1>2, <2>1, TypeParts, TypePartsPrimed DEF SweepSkips
<1>3. ASSUME NEW item \in list[p], SweepTakes(p, item) PROVE TypeOK'
  <2>1. item \in ItemType
    BY TypeParts DEF ListsType
  <2>2. item.task \in Tasks /\ item.saves \in Nat /\ TTL \in Nat
    BY <2>1, RecoveryAssumption DEF ItemType
  <2>3. list' \in ListsType
    BY <1>3, TypeParts DEF SweepTakes, ListsType
  <2>4. claim' \in ClaimsType
    BY <1>3, <2>2, TypeParts, ClaimedType DEF SweepTakes
  <2>5. sweep' \in [Procs -> SweepType]
    BY <1>3, <2>2, TypeParts DEF SweepTakes, SweepType
  <2>6. selfTaken' \in [Tasks -> BOOLEAN]
    BY <1>3, <2>2, TypeParts DEF SweepTakes
  <2> QED
    BY <1>3, <2>3, <2>4, <2>5, <2>6, TypeParts, TypePartsPrimed DEF SweepTakes
<1>4. CASE SweepRecords(p)
  <2> DEFINE t == sweep[p].task
             n == Recoveries(t, sweep[p].saves)
  <2>1. t \in Tasks /\ sweep[p].saves \in Nat
    BY <1>4, TypeParts DEF SweepRecords, SweepInv, SweepType
  <2>2. n \in Nat
    BY <2>1, TypeParts DEF Recoveries
  <2>3. picked' \in [Tasks -> [count : Nat, saves : Nat]]
    BY <1>4, <2>1, <2>2, TypeParts DEF SweepRecords
  <2>4. sweep' \in [Procs -> SweepType]
    <3>1. sweep[p] \in SweepType /\ sweep \in [Procs -> SweepType]
      BY TypeParts
    <3>2. NoSweep \in SweepType /\ [sweep[p] EXCEPT !.step = "failing"] \in SweepType
      BY <3>1 DEF SweepType, NoSweep
    <3>3. \/ sweep' = [sweep EXCEPT ![p].step = "failing"]
          \/ sweep' = [sweep EXCEPT ![p] = NoSweep]
      BY <1>4 DEF SweepRecords
    <3> QED
      BY <3>1, <3>2, <3>3
  <2>5. exec' \in ExecsType /\ line' \in LinesType
    <3>1. CASE n > MaxRecoveries
      BY <1>4, <3>1, TypeParts DEF SweepRecords
    <3>2. CASE ~(n > MaxRecoveries)
      <4>1. Start(p, t, 0)
        BY <1>4, <3>2 DEF SweepRecords
      <4> QED
        BY <4>1, <2>1, TypeParts, StartTypes
    <3> QED
      BY <3>1, <3>2
  <2> QED
    BY <1>4, <2>3, <2>4, <2>5, TypeParts, TypePartsPrimed DEF SweepRecords
<1>5. CASE SweepFails(p)
  <2>1. sweep[p].task \in Tasks
    BY <1>5 DEF SweepFails, SweepInv
  <2>2. rec[sweep[p].task].iterations \in 0..MaxIterations /\ "failed" \in Statuses
    BY <2>1, TypeParts DEF RecsType, Statuses
  <2>3. rec' \in RecsType /\ age' \in [Tasks -> 0..TTL]
    BY <1>5, <2>1, <2>2, TypeParts, SaveTypes DEF SweepFails
  <2>4. sweep' \in [Procs -> SweepType]
    BY <1>5, TypeParts DEF SweepFails, SweepType
  <2> QED
    BY <1>5, <2>3, <2>4, TypeParts, TypePartsPrimed DEF SweepFails
<1>6. CASE SweepReleases(p)
  <2>1. sweep[p].task \in Tasks
    BY <1>6 DEF SweepReleases, SweepInv
  <2>2. claim' \in ClaimsType
    BY <1>6, <2>1, TypeParts, ReleasedType DEF SweepReleases
  <2>3. sweep' \in [Procs -> SweepType]
    BY <1>6, TypeParts DEF SweepReleases, SweepType, NoSweep
  <2> QED
    BY <1>6, <2>2, <2>3, TypeParts, TypePartsPrimed DEF SweepReleases
<1>7. CASE SweepThrows(p)
  <2>1. sweep' \in [Procs -> SweepType]
    BY <1>7, TypeParts DEF SweepThrows, SweepType, NoSweep
  <2> QED
    BY <1>7, <2>1, TypeParts, TypePartsPrimed DEF SweepThrows
<1> QED
  BY <1>1, <1>2, <1>3, <1>4, <1>5, <1>6, <1>7 DEF Sweeping

LEMMA IteratingTypes ==
    ASSUME TypeOK, NEW p \in Procs, NEW t \in Tasks, Iterating(p, t)
    PROVE  TypeOK'
<1>1. CASE Begin(p, t)
  <2>1. line' \in LinesType
    <3>1. Tail(line[p]) \in Seq(Tasks)
      BY <1>1, TypeParts, HeadTailProperties DEF Begin, LinesType
    <3> QED
      BY <3>1, <1>1, TypeParts DEF Begin, LinesType
  <2>2. claim' \in ClaimsType
    BY <1>1, TypeParts, ClaimedType, RecoveryAssumption DEF Begin
  <2>3. "begun" \in StageNames
    BY DEF StageNames
  <2>4. exec' \in ExecsType
    BY <1>1, <2>3, TypeParts, StageTypes, LeavesTypes DEF Begin
  <2> QED
    BY <1>1, <2>1, <2>2, <2>4, TypeParts, TypePartsPrimed DEF Begin
<1>2. CASE AnswersDelay(p, t)
  <2>1. exec[p][t].delay \in Nat
    BY TypeParts DEF ExecsType, ExecType
  <2>2. exec' \in ExecsType /\ line' \in LinesType /\ claim' \in ClaimsType
    BY <1>2, <2>1, TypeParts, GoesOnTypes DEF AnswersDelay
  <2> QED
    BY <1>2, <2>2, TypeParts, TypePartsPrimed DEF AnswersDelay
<1>3. CASE FindsFinished(p, t)
  <2>1. exec' \in ExecsType /\ line' \in LinesType /\ claim' \in ClaimsType
    BY <1>3, TypeParts, EndsTypes DEF FindsFinished
  <2> QED
    BY <1>3, <2>1, TypeParts, TypePartsPrimed DEF FindsFinished
<1>4. CASE StartsBody(p, t)
  <2>1. "running" \in Statuses /\ "body" \in StageNames
    BY DEF Statuses, StageNames
  <2>2. 1 \in 0..MaxIterations
    BY RecoveryAssumption
  <2>3. rec[t].iterations \in 0..MaxIterations
    BY TypeParts DEF RecsType
  <2>4. rec[t].iterations < MaxIterations => rec[t].iterations + 1 \in 0..MaxIterations
    BY <2>3, RecoveryAssumption
  <2>5. rec' \in RecsType /\ age' \in [Tasks -> 0..TTL]
    <3>1. CASE Save(t, "running", 1)
      BY <3>1, <2>1, <2>2, TypeParts, SaveTypes
    <3>2. CASE rec[t].iterations < MaxIterations /\ Save(t, "running", rec[t].iterations + 1)
      BY <3>2, <2>1, <2>4, TypeParts, SaveTypes
    <3> QED
      BY <3>1, <3>2, <1>4 DEF StartsBody
  <2>6. exec' \in ExecsType
    BY <1>4, <2>1, TypeParts, StageTypes DEF StartsBody
  <2> QED
    BY <1>4, <2>5, <2>6, TypeParts, TypePartsPrimed DEF StartsBody
<1>5. CASE ReachesMaxIterations(p, t)
  <2>1. rec[t].iterations \in 0..MaxIterations /\ "failed" \in Statuses
    BY TypeParts DEF RecsType, Statuses
  <2>2. rec' \in RecsType /\ age' \in [Tasks -> 0..TTL]
    BY <1>5, <2>1, TypeParts, SaveTypes DEF ReachesMaxIterations
  <2>3. exec' \in ExecsType /\ line' \in LinesType /\ claim' \in ClaimsType
    BY <1>5, TypeParts, EndsTypes DEF ReachesMaxIterations
  <2> QED
    BY <1>5, <2>2, <2>3, TypeParts, TypePartsPrimed DEF ReachesMaxIterations
<1>6. ASSUME NEW w \in Waits, Continues(p, t, w) PROVE TypeOK'
  <2>1. rec[t].iterations \in 0..MaxIterations /\ "running" \in Statuses
    BY TypeParts DEF RecsType, Statuses
  <2>2. rec' \in RecsType /\ age' \in [Tasks -> 0..TTL]
    BY <1>6, <2>1, TypeParts, SaveTypes DEF Continues
  <2>3. w \in Nat
    BY RecoveryAssumption
  <2>4. exec' \in ExecsType /\ line' \in LinesType /\ claim' \in ClaimsType
    BY <1>6, <2>3, TypeParts, GoesOnTypes DEF Continues
  <2>5. crashes' \in [Tasks -> Nat]
    BY <1>6, TypeParts DEF Continues
  <2> QED
    BY <1>6, <2>2, <2>4, <2>5, TypeParts, TypePartsPrimed DEF Continues
<1>7. ASSUME NEW outcome \in Finished, Finishes(p, t, outcome) PROVE TypeOK'
  <2>1. rec[t].iterations \in 0..MaxIterations /\ outcome \in Statuses
    BY TypeParts DEF RecsType, Statuses, Finished
  <2>2. rec' \in RecsType /\ age' \in [Tasks -> 0..TTL]
    <3>1. CASE Save(t, outcome, rec[t].iterations)
      BY <3>1, <2>1, TypeParts, SaveTypes
    <3>2. CASE UNCHANGED <<rec, age>>
      BY <3>2, TypeParts
    <3> QED
      BY <3>1, <3>2, <1>7 DEF Finishes
  <2>3. exec' \in ExecsType /\ line' \in LinesType /\ claim' \in ClaimsType
    BY <1>7, TypeParts, EndsTypes DEF Finishes
  <2> QED
    BY <1>7, <2>2, <2>3, TypeParts, TypePartsPrimed DEF Finishes
<1>8. CASE Wakes(p, t)
  <2>1. "queued" \in StageNames
    BY DEF StageNames
  <2>2. exec' \in ExecsType
    BY <1>8, <2>1, TypeParts, StageTypes DEF Wakes
  <2>3. line' \in LinesType
    BY <1>8, TypeParts, JoinTypes DEF Wakes
  <2> QED
    BY <1>8, <2>2, <2>3, TypeParts, TypePartsPrimed DEF Wakes
<1> QED
  BY <1>1, <1>2, <1>3, <1>4, <1>5, <1>6, <1>7, <1>8 DEF Iterating

LEMMA ProcessTypes ==
    ASSUME TypeOK, NEW p \in Procs, Boot(p) \/ Stop(p) \/ Exit(p)
    PROVE  TypeOK'
<1>1. CASE Boot(p)
  <2>1. life' \in [Procs -> LifeType]
    BY <1>1, TypeParts DEF Boot
  <2> QED
    BY <1>1, <2>1, TypeParts, TypePartsPrimed DEF Boot
<1>2. line' = [line EXCEPT ![p] = << >>] => line' \in LinesType
  BY TypeParts DEF LinesType
<1>3. CASE Stop(p)
  <2>1. [t \in Tasks |-> IF exec[p][t].stage \in {"queued", "sleeping"} THEN Away ELSE exec[p][t]]
          \in [Tasks -> ExecType]
    BY TypeParts, AwayType DEF ExecsType
  <2>2. exec' = [exec EXCEPT ![p] =
          [t \in Tasks |-> IF exec[p][t].stage \in {"queued", "sleeping"} THEN Away ELSE exec[p][t]]]
    BY <1>3, TypeParts DEF Stop, ExecsType
  <2>3. exec' \in ExecsType
    BY <2>1, <2>2, TypeParts DEF ExecsType
  <2>4. life' \in [Procs -> LifeType]
    BY <1>3, TypeParts DEF Stop
  <2> QED
    BY <1>2, <1>3, <2>3, <2>4, TypeParts, TypePartsPrimed DEF Stop
<1>4. CASE Exit(p)
  <2>1. life' \in [Procs -> LifeType]
    BY <1>4, TypeParts DEF Exit
  <2>2. crashes' \in [Tasks -> Nat]
    BY <1>4, TypeParts DEF Exit
  <2>3. exec' \in ExecsType
    BY <1>4, TypeParts, AwayType DEF Exit, ExecsType
  <2>4. list' \in ListsType
    BY <1>4, TypeParts DEF Exit, ListsType
  <2>5. sweep' \in [Procs -> SweepType]
    BY <1>4, TypeParts DEF Exit, SweepType, NoSweep
  <2>6. trigger' \in [Tasks -> TriggerType]
    BY <1>4, TypeParts, UnreadType DEF Exit
  <2> QED
    BY <1>2, <1>4, <2>1, <2>2, <2>3, <2>4, <2>5, <2>6, TypeParts, TypePartsPrimed DEF Exit
<1> QED
  BY <1>1, <1>3, <1>4

LEMMA TickTypes ==
    ASSUME TypeOK, Tick
    PROVE  TypeOK'
<1>1. \A t \in Tasks : Aged(t) \in [owner : Procs \cup {None}, left : Nat]
  <2> TAKE t \in Tasks
  <2>1. claim[t] \in [owner : Procs \cup {None}, left : Nat] /\ TTL \in Nat
    BY TypeParts, RecoveryAssumption DEF ClaimsType
  <2> QED
    BY <2>1 DEF Aged, Claim, NoClaim
<1>2. claim' \in ClaimsType
  BY <1>1 DEF Tick, ClaimsType
<1>3. \A n \in 0..TTL : Older(n) \in 0..TTL
  BY RecoveryAssumption DEF Older
<1>4. age' \in [Tasks -> 0..TTL]
  <2>1. 0 \in 0..TTL
    BY RecoveryAssumption
  <2>2. \A t \in Tasks : age[t] \in 0..TTL /\ Older(age[t]) \in 0..TTL
    BY <1>3, TypeParts
  <2>3. age' = [t \in Tasks |-> IF rec[t].status = "none" THEN 0 ELSE Older(age[t])]
    BY DEF Tick
  <2> HIDE DEF Older
  <2> QED
    BY <2>1, <2>2, <2>3
<1>5. \A p \in Procs, t \in Tasks :
        [exec[p][t] EXCEPT !.wait = Less(@), !.lost = @ \/ (Holding(p, t) /\ ~HeldBy(p, t))] \in ExecType
  <2> TAKE p \in Procs, t \in Tasks
  <2> DEFINE e == exec[p][t]
             w == Less(e.wait)
             l == e.lost \/ (Holding(p, t) /\ ~HeldBy(p, t))
  <2>1. e \in ExecType
    BY TypeParts DEF ExecsType
  <2>2. w \in Nat
    BY <2>1 DEF Less, ExecType
  <2>3. l \in BOOLEAN
    BY <2>1 DEF ExecType, Holding, HeldBy
  <2>4. [e EXCEPT !.wait = w, !.lost = l] \in ExecType
    <3> HIDE DEF e, w, l
    <3> QED BY <2>1, <2>2, <2>3 DEF ExecType
  <2> QED
    BY <2>4
<1>6. exec' \in ExecsType
  BY <1>5 DEF Tick, ExecsType
<1>7. \A item \in ItemType : [item EXCEPT !.age = Older(@)] \in ItemType
  BY <1>3 DEF ItemType
<1>8. list' \in ListsType
  BY <1>7, TypeParts DEF Tick, ListsType
<1> QED
  BY <1>2, <1>4, <1>6, <1>8, TypeParts, TypePartsPrimed DEF Tick

LEMMA NextTypes ==
    ASSUME TypeOK, \A p \in Procs : SweepInv(p), [Next]_vars
    PROVE  TypeOK'
<1>1. CASE UNCHANGED vars
  BY <1>1, TypeParts, TypePartsPrimed DEF vars
<1> QED
  BY <1>1, TriggeringTypes, IteratingTypes, SweepingTypes, ProcessTypes, TickTypes DEF Next

-----------------------------------------------------------------------------
(* What the steps that actions share do to an execution, a claim, a line.  *)

OthersGoOn(p, t) == \A q \in Procs, u \in Tasks : q # p \/ u # t => exec'[q][u] = exec[q][u]
OthersAreClaimedAlike(t) == \A u \in Tasks \ {t} : claim'[u] = claim[u]
Joins(p, t) == line' = [line EXCEPT ![p] = Append(@, t)]

LEMMA PutDoes ==
    ASSUME TypeOK, NEW p \in Procs, NEW t \in Tasks, NEW x, exec' = [exec EXCEPT ![p][t] = x]
    PROVE  exec'[p][t] = x /\ OthersGoOn(p, t)
BY TypeParts DEF ExecsType, OthersGoOn

LEMMA LeavesDoes ==
    ASSUME TypeOK, NEW p \in Procs, NEW t \in Tasks, Leaves(p, t)
    PROVE  exec'[p][t] = Away /\ OthersGoOn(p, t)
BY PutDoes DEF Leaves

LEMMA StageDoes ==
    ASSUME TypeOK, NEW p \in Procs, NEW t \in Tasks, NEW s \in StageNames, Stage(p, t, s)
    PROVE  /\ exec'[p][t].stage = s
           /\ exec'[p][t].lost = exec[p][t].lost
           /\ OthersGoOn(p, t)
<1>0. exec \in ExecsType
  BY TypeParts
<1>1. exec' = [exec EXCEPT ![p][t] = [exec[p][t] EXCEPT !.stage = s]]
  BY <1>0 DEF Stage, ExecsType
<1>2. exec[p][t] \in ExecType
  BY TypeParts DEF ExecsType
<1>3. exec'[p][t] = [exec[p][t] EXCEPT !.stage = s]
  BY <1>1, PutDoes
<1>4. exec'[p][t].stage = s /\ exec'[p][t].lost = exec[p][t].lost
  <2> DEFINE e == exec[p][t]
  <2>1. e \in ExecType /\ exec'[p][t] = [e EXCEPT !.stage = s]
    BY <1>2, <1>3
  <2> HIDE DEF e
  <2>2. exec'[p][t].stage = s /\ exec'[p][t].lost = e.lost
    BY <2>1 DEF ExecType
  <2> QED
    BY <2>2 DEF e
<1> QED
  BY <1>1, <1>4, PutDoes

LEMMA StartDoes ==
    ASSUME TypeOK, NEW p \in Procs, NEW t \in Tasks, NEW d, Start(p, t, d)
    PROVE  /\ OthersGoOn(p, t)
           /\ \/ exec' = exec /\ line' = line
              \/ /\ In(p, t, "none") /\ Joins(p, t)
                 /\ exec'[p][t].stage = "queued" /\ ~exec'[p][t].lost
<1>1. CASE life[p] = "up" /\ In(p, t, "none")
  <2> DEFINE x == [Away EXCEPT !.stage = "queued", !.delay = d]
  <2>1. exec' = [exec EXCEPT ![p][t] = x] /\ Joins(p, t)
    BY <1>1 DEF Start, Joins
  <2>2. x.stage = "queued" /\ ~x.lost
    BY DEF Away
  <2>3. exec'[p][t] = x /\ OthersGoOn(p, t)
    BY <2>1, PutDoes
  <2> QED
    BY <1>1, <2>1, <2>2, <2>3
<1>2. CASE ~(life[p] = "up" /\ In(p, t, "none"))
  BY <1>2 DEF Start, OthersGoOn
<1> QED
  BY <1>1, <1>2

LEMMA ReleasedDoes ==
    ASSUME TypeOK, NEW p \in Procs, NEW t \in Tasks
    PROVE  \A u \in Tasks : Released(p, t)[u] = IF u = t /\ HeldBy(p, t) THEN NoClaim ELSE claim[u]
BY TypeParts DEF Released, ClaimsType

LEMMA ClaimDoes ==
    ASSUME TypeOK, NEW p \in Procs, NEW t \in Tasks, NEW n \in Nat, n > 0,
           claim' = [claim EXCEPT ![t] = Claim(p, n)]
    PROVE  /\ HeldBy(p, t)' /\ claim'[t].left = n
           /\ OthersAreClaimedAlike(t)
<1>1. claim'[t] = Claim(p, n)
  BY TypeParts DEF ClaimsType
<1> QED
  BY <1>1, TypeParts DEF ClaimsType, Claim, HeldBy, OthersAreClaimedAlike

LEMMA TTLLasts == TTL \in Nat /\ TTL > 0
BY RecoveryAssumption

LEMMA EndsDoes ==
    ASSUME TypeOK, NEW p \in Procs, NEW t \in Tasks, Ends(p, t)
    PROVE  /\ exec'[p][t] = Away /\ OthersGoOn(p, t)
           /\ line' = line
           /\ OthersAreClaimedAlike(t)
BY LeavesDoes, ReleasedDoes DEF Ends, OthersAreClaimedAlike

\* An iteration that goes on ends, sleeps under a claim past its sleep, or queues under a claim.
LEMMA GoesOnDoes ==
    ASSUME TypeOK, NEW p \in Procs, NEW t \in Tasks, NEW w \in Nat, GoesOn(p, t, w)
    PROVE  /\ OthersGoOn(p, t) /\ OthersAreClaimedAlike(t)
           /\ ~exec'[p][t].lost
           /\ \/ exec'[p][t] = Away /\ line' = line
              \/ /\ exec'[p][t].stage = "sleeping" /\ line' = line
                 /\ HeldBy(p, t)' /\ claim'[t].left >= exec'[p][t].wait + TTL
              \/ /\ exec'[p][t].stage = "queued" /\ Joins(p, t)
                 /\ HeldBy(p, t)'
<1>1. ~Away.lost
  BY DEF Away
<1>2. TTL + w \in Nat /\ TTL + w > 0
  BY RecoveryAssumption
<1>5. CASE exec[p][t].lost \/ (~HeldBy(p, t) /\ ~(life[p] = "stopping" /\ w = 0))
  <2>1. claim' = claim /\ Leaves(p, t) /\ line' = line
    BY <1>5 DEF GoesOn
  <2> QED
    BY <2>1, <1>1, LeavesDoes DEF OthersAreClaimedAlike
<1>3. CASE ~exec[p][t].lost /\ life[p] = "stopping" /\ w = 0
  <2>1. claim' = Released(p, t) /\ Leaves(p, t) /\ line' = line
    BY <1>3 DEF GoesOn
  <2> QED
    BY <2>1, <1>1, LeavesDoes, ReleasedDoes DEF OthersAreClaimedAlike
<1>4. CASE ~exec[p][t].lost /\ HeldBy(p, t) /\ ~(life[p] = "stopping" /\ w = 0)
  <2>1. claim' = [claim EXCEPT ![t] = Claim(p, TTL + w)]
    BY <1>4 DEF GoesOn
  <2>2. HeldBy(p, t)' /\ claim'[t].left = TTL + w /\ OthersAreClaimedAlike(t)
    BY <2>1, <1>2, ClaimDoes
  <2>3. CASE life[p] = "stopping"
    <3>1. Leaves(p, t) /\ line' = line
      BY <1>4, <2>3 DEF GoesOn
    <3> QED
      BY <3>1, <2>2, <1>1, LeavesDoes
  <2>4. CASE life[p] # "stopping" /\ w > 0
    <3> DEFINE x == [Away EXCEPT !.stage = "sleeping", !.wait = w]
    <3>1. exec' = [exec EXCEPT ![p][t] = x] /\ line' = line
      BY <1>4, <2>4 DEF GoesOn
    <3>2. x.stage = "sleeping" /\ x.wait = w /\ ~x.lost
      BY DEF Away
    <3>3. exec'[p][t] = x /\ OthersGoOn(p, t)
      BY <3>1, PutDoes
    <3>4. claim'[t].left >= x.wait + TTL
      BY <2>2, <3>2, RecoveryAssumption
    <3> QED
      BY <3>1, <3>2, <3>3, <3>4, <2>2
  <2>5. CASE life[p] # "stopping" /\ ~(w > 0)
    <3> DEFINE x == [Away EXCEPT !.stage = "queued"]
    <3>1. exec' = [exec EXCEPT ![p][t] = x] /\ Joins(p, t)
      BY <1>4, <2>5 DEF GoesOn, Joins
    <3>2. x.stage = "queued" /\ ~x.lost
      BY DEF Away
    <3>3. exec'[p][t] = x /\ OthersGoOn(p, t)
      BY <3>1, PutDoes
    <3> QED
      BY <3>1, <3>2, <3>3, <2>2
  <2> QED
    BY <2>3, <2>4, <2>5
<1> QED
  BY <1>3, <1>4, <1>5

-----------------------------------------------------------------------------
(* Lines.                                                                  *)

LEMMA LineKept ==
    ASSUME NEW p \in Procs, LineInv(p), line'[p] = line[p],
           \A u \in Tasks : In(p, u, "queued")' <=> In(p, u, "queued")
    PROVE  LineInv(p)'
BY DEF LineInv

\* Another process's line is kept when one's own is joined or left.
LEMMA OthersLines ==
    ASSUME NEW p \in Procs, NEW t \in Tasks, NEW q \in Procs \ {p}, OthersGoOn(p, t),
           line'[q] = line[q], LineInv(q)
    PROVE  LineInv(q)'
BY LineKept DEF OthersGoOn, In

LEMMA LineJoined ==
    ASSUME TypeOK, NEW p \in Procs, NEW t \in Tasks, \A q \in Procs : LineInv(q),
           OthersGoOn(p, t), Joins(p, t), ~In(p, t, "queued"), In(p, t, "queued")'
    PROVE  \A q \in Procs : LineInv(q)'
<1>1. line \in LinesType
  BY TypeParts
<1>2. \A q \in Procs \ {p} : line'[q] = line[q]
  BY <1>1 DEF Joins, LinesType
<1>3. \A q \in Procs \ {p} : LineInv(q)'
  BY <1>2, OthersLines
<1> DEFINE l == line[p]
<1>4. l \in Seq(Tasks) /\ Len(l) \in Nat
  BY <1>1 DEF LinesType
<1>5. line'[p] = Append(l, t)
  BY <1>1 DEF Joins, LinesType
<1>6. /\ Len(line'[p]) = Len(l) + 1
      /\ \A i \in 1..Len(l) : line'[p][i] = l[i]
      /\ line'[p][Len(l) + 1] = t
  BY <1>4, <1>5, AppendProperties
<1>7. \A i \in 1..Len(line'[p]) : i \in 1..Len(l) \/ i = Len(l) + 1
  BY <1>4, <1>6
<1>8. \A i \in 1..Len(l) : l[i] # t
  BY <1>4 DEF LineInv
<1>9. \A i \in 1..Len(l) : i \in 1..Len(line'[p])
  BY <1>4, <1>6
<1>10. Len(l) + 1 \in 1..Len(line'[p])
  BY <1>4, <1>6
<1>11. \A u \in Tasks : In(p, u, "queued")' <=> In(p, u, "queued") \/ u = t
  BY DEF OthersGoOn, In
<1>12. \A u \in Tasks : In(p, u, "queued")' <=> \E i \in 1..Len(line'[p]) : line'[p][i] = u
  BY <1>6, <1>7, <1>9, <1>10, <1>11 DEF LineInv
<1>13. \A i, j \in 1..Len(line'[p]) : line'[p][i] = line'[p][j] => i = j
  BY <1>6, <1>7, <1>8 DEF LineInv
<1>14. LineInv(p)'
  BY <1>12, <1>13 DEF LineInv
<1> QED
  BY <1>3, <1>14

\* The first in line leaves it.
LEMMA LineServed ==
    ASSUME TypeOK, NEW p \in Procs, NEW t \in Tasks, \A q \in Procs : LineInv(q),
           OthersGoOn(p, t), line[p] # << >>, t = Head(line[p]),
           line' = [line EXCEPT ![p] = Tail(@)], ~In(p, t, "queued")'
    PROVE  \A q \in Procs : LineInv(q)'
<1>1. line \in LinesType
  BY TypeParts
<1>2. \A q \in Procs \ {p} : line'[q] = line[q]
  BY <1>1 DEF LinesType
<1>3. \A q \in Procs \ {p} : LineInv(q)'
  BY <1>2, OthersLines
<1> DEFINE l == line[p]
<1>4. l \in Seq(Tasks) /\ Len(l) \in Nat /\ Len(l) > 0
  BY <1>1 DEF LinesType
<1>5. line'[p] = Tail(l)
  BY <1>1 DEF LinesType
<1>6. /\ Len(line'[p]) = Len(l) - 1
      /\ \A i \in 1..Len(line'[p]) : line'[p][i] = l[i + 1]
  <2>1. Len(Tail(l)) = Len(l) - 1 /\ \A i \in 1..Len(Tail(l)) : Tail(l)[i] = l[i + 1]
    <3> HIDE DEF l
    <3> QED BY <1>4
  <2> QED
    BY <1>5, <2>1
<1>7. t = l[1]
  BY <1>4
<1>8. \A i \in 1..Len(line'[p]) : i + 1 \in 1..Len(l) /\ i + 1 # 1
  BY <1>4, <1>6
<1>9. \A i \in 1..Len(l) : i = 1 \/ (i - 1 \in 1..Len(line'[p]) /\ (i - 1) + 1 = i)
  BY <1>4, <1>6
<1>10. 1 \in 1..Len(l)
  BY <1>4
<1>11. \A u \in Tasks : In(p, u, "queued")' <=> In(p, u, "queued") /\ u # t
  BY DEF OthersGoOn, In
<1>12. \A i \in 1..Len(line'[p]) : line'[p][i] # t
  BY <1>6, <1>7, <1>8, <1>10 DEF LineInv
<1>13. ASSUME NEW u \in Tasks
       PROVE  In(p, u, "queued")' <=> \E i \in 1..Len(line'[p]) : line'[p][i] = u
  <2>1. ASSUME In(p, u, "queued")' PROVE \E i \in 1..Len(line'[p]) : line'[p][i] = u
    <3>1. PICK i \in 1..Len(l) : l[i] = u
      BY <2>1, <1>11 DEF LineInv
    <3>2. i # 1
      BY <2>1, <3>1, <1>7, <1>11
    <3>3. i - 1 \in 1..Len(line'[p]) /\ line'[p][i - 1] = u
      BY <3>1, <3>2, <1>6, <1>9
    <3> QED
      BY <3>3
  <2>2. ASSUME NEW i \in 1..Len(line'[p]), line'[p][i] = u PROVE In(p, u, "queued")'
    BY <2>2, <1>6, <1>8, <1>11, <1>12 DEF LineInv
  <2> QED
    BY <2>1, <2>2
<1>14. ASSUME NEW i \in 1..Len(line'[p]), NEW j \in 1..Len(line'[p]), line'[p][i] = line'[p][j]
       PROVE  i = j
  <2>1. l[i + 1] = l[j + 1] /\ i + 1 \in 1..Len(l) /\ j + 1 \in 1..Len(l)
    BY <1>14, <1>6, <1>8
  <2>2. i + 1 = j + 1
    BY <2>1 DEF LineInv
  <2>3. i \in Nat /\ j \in Nat
    BY <1>4, <1>6
  <2> QED
    BY <2>2, <2>3
<1>15. LineInv(p)'
  BY <1>13, <1>14 DEF LineInv
<1> QED
  BY <1>3, <1>15

\* A line that is cleared: nobody waits in it any more.
LEMMA LineCleared ==
    ASSUME TypeOK, NEW p \in Procs, \A q \in Procs : LineInv(q),
           line' = [line EXCEPT ![p] = << >>],
           \A u \in Tasks : ~In(p, u, "queued")',
           \A q \in Procs \ {p} : exec'[q] = exec[q]
    PROVE  \A q \in Procs : LineInv(q)'
<1>1. line \in LinesType
  BY TypeParts
<1>2. \A q \in Procs \ {p} : line'[q] = line[q]
  BY <1>1 DEF LinesType
<1>3. \A q \in Procs \ {p} : LineInv(q)'
  BY <1>2, LineKept DEF In
<1>4. line'[p] = << >> /\ Len(line'[p]) = 0
  BY <1>1 DEF LinesType
<1>5. LineInv(p)'
  BY <1>4 DEF LineInv
<1> QED
  BY <1>3, <1>5

LEMMA LineUnmoved ==
    ASSUME NEW p \in Procs, NEW t \in Tasks, \A q \in Procs : LineInv(q),
           OthersGoOn(p, t), line' = line, In(p, t, "queued")' <=> In(p, t, "queued")
    PROVE  \A q \in Procs : LineInv(q)'
BY LineKept DEF OthersGoOn, In

LEMMA LineStarted ==
    ASSUME TypeOK, NEW p \in Procs, NEW t \in Tasks, NEW d, Start(p, t, d), \A q \in Procs : LineInv(q)
    PROVE  \A q \in Procs : LineInv(q)'
<1>1. CASE exec' = exec /\ line' = line
  BY <1>1, LineKept DEF In
<1>2. CASE In(p, t, "none") /\ Joins(p, t) /\ exec'[p][t].stage = "queued"
  BY <1>2, StartDoes, LineJoined DEF In
<1> QED
  BY <1>1, <1>2, StartDoes

LEMMA GoesOnLines ==
    ASSUME IInv, NEW p \in Procs, NEW t \in Tasks, ~In(p, t, "queued"),
           NEW w \in Nat, GoesOn(p, t, w)
    PROVE  \A q \in Procs : LineInv(q)'
<1>1. TypeOK /\ \A q \in Procs : LineInv(q)
  BY DEF IInv
<1>2. CASE In(p, t, "queued")'
  <2>1. Joins(p, t)
    BY <1>1, <1>2, GoesOnDoes DEF In, Away
  <2> QED
    BY <1>1, <1>2, <2>1, GoesOnDoes, LineJoined
<1>3. CASE ~In(p, t, "queued")'
  <2>1. line' = line
    BY <1>1, <1>3, GoesOnDoes DEF In
  <2> QED
    BY <1>1, <1>3, <2>1, GoesOnDoes, LineUnmoved
<1> QED
  BY <1>2, <1>3

LEMMA EndsLines ==
    ASSUME IInv, NEW p \in Procs, NEW t \in Tasks, ~In(p, t, "queued"), Ends(p, t)
    PROVE  \A q \in Procs : LineInv(q)'
<1>1. TypeOK /\ \A q \in Procs : LineInv(q)
  BY DEF IInv
<1>2. exec'[p][t] = Away /\ OthersGoOn(p, t) /\ line' = line
  BY <1>1, EndsDoes
<1>3. ~In(p, t, "queued")'
  BY <1>2 DEF In, Away
<1> QED
  BY <1>1, <1>2, <1>3, LineUnmoved

LEMMA IteratingLines ==
    ASSUME IInv, NEW p \in Procs, NEW t \in Tasks, Iterating(p, t)
    PROVE  \A q \in Procs : LineInv(q)'
<1>1. TypeOK /\ \A q \in Procs : LineInv(q)
  BY DEF IInv
<1>2. CASE Begin(p, t)
  <2>0. "begun" \in StageNames
    BY DEF StageNames
  <2>1. CASE Stage(p, t, "begun")
    <3>1. OthersGoOn(p, t) /\ ~In(p, t, "queued")'
      BY <1>1, <2>0, <2>1, StageDoes DEF In
    <3> QED
      BY <1>1, <1>2, <3>1, LineServed DEF Begin
  <2>2. CASE Leaves(p, t)
    <3>1. OthersGoOn(p, t) /\ ~In(p, t, "queued")'
      BY <1>1, <2>2, LeavesDoes DEF In, Away
    <3> QED
      BY <1>1, <1>2, <3>1, LineServed DEF Begin
  <2> QED
    BY <1>2, <2>1, <2>2 DEF Begin
<1>3. CASE AnswersDelay(p, t)
  <2>1. exec[p][t].delay \in Nat
    BY <1>1, TypeParts DEF ExecsType, ExecType
  <2> QED
    BY <1>3, <2>1, GoesOnLines DEF AnswersDelay, In
<1>4. CASE FindsFinished(p, t)
  BY <1>4, EndsLines DEF FindsFinished, In
<1>5. CASE StartsBody(p, t)
  <2>1. OthersGoOn(p, t) /\ ~In(p, t, "queued")' /\ ~In(p, t, "queued") /\ line' = line
    <3>1. "body" \in StageNames
      BY DEF StageNames
    <3> QED
      BY <1>1, <1>5, <3>1, StageDoes DEF StartsBody, In
  <2> QED
    BY <1>1, <2>1, LineUnmoved
<1>6. CASE ReachesMaxIterations(p, t)
  BY <1>6, EndsLines DEF ReachesMaxIterations, In
<1>7. ASSUME NEW w \in Waits, Continues(p, t, w) PROVE \A q \in Procs : LineInv(q)'
  <2>1. w \in Nat
    BY RecoveryAssumption
  <2> QED
    BY <1>7, <2>1, GoesOnLines DEF Continues, InBody, In
<1>8. ASSUME NEW outcome \in Finished, Finishes(p, t, outcome) PROVE \A q \in Procs : LineInv(q)'
  BY <1>8, EndsLines DEF Finishes, InBody, In
<1>9. CASE Wakes(p, t)
  <2>1. OthersGoOn(p, t) /\ In(p, t, "queued")' /\ ~In(p, t, "queued") /\ Joins(p, t)
    <3>1. "queued" \in StageNames
      BY DEF StageNames
    <3> QED
      BY <1>1, <1>9, <3>1, StageDoes DEF Wakes, In, Joins
  <2> QED
    BY <1>1, <2>1, LineJoined
<1> QED
  BY <1>2, <1>3, <1>4, <1>5, <1>6, <1>7, <1>8, <1>9 DEF Iterating

LEMMA NextLines ==
    ASSUME IInv, [Next]_vars
    PROVE  \A q \in Procs : LineInv(q)'
<1>1. TypeOK /\ \A q \in Procs : LineInv(q) /\ SweepInv(q)
  BY DEF IInv
<1>2. exec' = exec /\ line' = line => \A q \in Procs : LineInv(q)'
  BY <1>1, LineKept DEF In
<1>3. CASE UNCHANGED vars
  BY <1>2, <1>3 DEF vars
<1>4. ASSUME NEW p \in Procs, NEW t \in Tasks, Triggering(p, t) PROVE \A q \in Procs : LineInv(q)'
  <2>1. CASE Send(p, t)
    BY <1>1, <2>1, LineStarted DEF Send
  <2> QED
    BY <1>2, <1>4, <2>1 DEF Triggering, Create, ReadForResponse, SaveResponse
<1>5. ASSUME NEW p \in Procs, Sweeping(p) PROVE \A q \in Procs : LineInv(q)'
  <2>1. CASE SweepRecords(p)
    <3>1. sweep[p].task \in Tasks
      BY <1>1, <2>1 DEF SweepRecords, SweepInv
    <3>2. CASE Start(p, sweep[p].task, 0)
      BY <1>1, <3>1, <3>2, LineStarted
    <3>3. CASE UNCHANGED <<exec, line>>
      BY <1>2, <3>3
    <3> QED
      BY <2>1, <3>2, <3>3 DEF SweepRecords
  <2> QED
    BY <1>2, <1>5, <2>1 DEF Sweeping, SweepLists, SweepSkips, SweepTakes, SweepFails, SweepReleases,
                            SweepThrows
<1>6. ASSUME NEW p \in Procs, Boot(p) \/ Stop(p) \/ Exit(p) PROVE \A q \in Procs : LineInv(q)'
  <2>1. CASE Boot(p)
    BY <1>2, <2>1 DEF Boot
  <2>2. CASE Stop(p)
    <3>1. exec \in ExecsType
      BY <1>1, TypeParts
    <3>2. exec' = [exec EXCEPT ![p] =
            [t \in Tasks |-> IF exec[p][t].stage \in {"queued", "sleeping"} THEN Away ELSE exec[p][t]]]
      BY <2>2, <3>1 DEF Stop, ExecsType
    <3>3. /\ \A t \in Tasks : ~In(p, t, "queued")'
          /\ \A q \in Procs \ {p} : exec'[q] = exec[q]
      BY <3>1, <3>2 DEF ExecsType, In, Away
    <3> QED
      BY <1>1, <2>2, <3>3, LineCleared DEF Stop
  <2>3. CASE Exit(p)
    <3>1. exec \in ExecsType
      BY <1>1, TypeParts
    <3>2. /\ \A t \in Tasks : ~In(p, t, "queued")'
          /\ \A q \in Procs \ {p} : exec'[q] = exec[q]
      BY <2>3, <3>1 DEF Exit, ExecsType, In, Away
    <3> QED
      BY <1>1, <2>3, <3>2, LineCleared DEF Exit
  <2> QED
    BY <1>6, <2>1, <2>2, <2>3
<1>7. CASE Tick
  <2>1. \A p \in Procs, t \in Tasks : exec'[p][t].stage = exec[p][t].stage
    <3> TAKE p \in Procs, t \in Tasks
    <3>1. exec[p][t] \in ExecType
      BY <1>1, TypeParts DEF ExecsType
    <3>2. exec'[p][t] = [exec[p][t] EXCEPT !.wait = Less(@), !.lost = @ \/ (Holding(p, t) /\ ~HeldBy(p, t))]
      BY <1>7 DEF Tick
    <3> QED
      BY <3>1, <3>2 DEF ExecType
  <2> QED
    BY <1>1, <1>7, <2>1, LineKept DEF Tick, In
<1> QED
  BY <1>3, <1>4, <1>5, <1>6, <1>7, IteratingLines DEF Next

-----------------------------------------------------------------------------
(* Sweeps have a task.                                                     *)

LEMMA NextSweeps ==
    ASSUME TypeOK, \A q \in Procs : SweepInv(q), [Next]_vars
    PROVE  \A q \in Procs : SweepInv(q)'
<1>1. TypeOK /\ \A q \in Procs : SweepInv(q)
  OBVIOUS
<1>2. sweep \in [Procs -> SweepType] /\ list \in ListsType
  BY <1>1, TypeParts
<1>3. sweep' = sweep => \A q \in Procs : SweepInv(q)'
  BY <1>1 DEF SweepInv
<1>4. ASSUME NEW p \in Procs, NEW x, sweep' = [sweep EXCEPT ![p] = x],
             x.step # "idle" => x.task \in Tasks
      PROVE  \A q \in Procs : SweepInv(q)'
  BY <1>1, <1>2, <1>4 DEF SweepInv
<1>5. NoSweep.step = "idle"
  BY DEF NoSweep
<1>6. ASSUME NEW p \in Procs, Sweeping(p) PROVE \A q \in Procs : SweepInv(q)'
  <2>1. ASSUME NEW item \in list[p], SweepTakes(p, item) PROVE \A q \in Procs : SweepInv(q)'
    <3>1. item.task \in Tasks
      BY <1>2 DEF ListsType, ItemType
    <3> DEFINE x == [task |-> item.task, saves |-> item.saves, step |-> "taken"]
    <3>2. sweep' = [sweep EXCEPT ![p] = x] /\ x.task \in Tasks
      BY <2>1, <3>1 DEF SweepTakes
    <3> QED
      BY <1>4, <3>2
  <2>2. ASSUME NEW s, sweep' = [sweep EXCEPT ![p].step = s], sweep[p].task \in Tasks
        PROVE  \A q \in Procs : SweepInv(q)'
    <3> DEFINE x == [sweep[p] EXCEPT !.step = s]
    <3>1. sweep' = [sweep EXCEPT ![p] = x]
      BY <1>2, <2>2
    <3>2. x.task = sweep[p].task
      <4>1. sweep[p] \in SweepType
        BY <1>2
      <4> QED
        BY <4>1 DEF SweepType
    <3> QED
      BY <1>4, <2>2, <3>1, <3>2
  <2>3. CASE sweep' = [sweep EXCEPT ![p] = NoSweep]
    BY <1>4, <1>5, <2>3
  <2>4. sweep[p].step # "idle" => sweep[p].task \in Tasks
    BY <1>1 DEF SweepInv
  <2>5. CASE SweepRecords(p)
    BY <2>2, <2>3, <2>4, <2>5 DEF SweepRecords
  <2>6. CASE SweepFails(p)
    BY <2>2, <2>4, <2>6 DEF SweepFails
  <2> QED
    BY <1>3, <1>6, <2>1, <2>3, <2>5, <2>6
      DEF Sweeping, SweepLists, SweepSkips, SweepReleases, SweepThrows
<1>7. ASSUME NEW p \in Procs, Exit(p) PROVE \A q \in Procs : SweepInv(q)'
  BY <1>4, <1>5, <1>7 DEF Exit
<1>8. CASE UNCHANGED vars
  BY <1>3, <1>8 DEF vars
<1>9. ASSUME NEW p \in Procs, NEW t \in Tasks, Triggering(p, t) \/ Iterating(p, t)
      PROVE  sweep' = sweep
  BY <1>9 DEF Triggering, Create, Send, ReadForResponse, SaveResponse, Iterating, Begin, AnswersDelay, FindsFinished,
              StartsBody, ReachesMaxIterations, Continues, Finishes, Wakes
<1>10. ASSUME NEW p \in Procs, Boot(p) \/ Stop(p) PROVE sweep' = sweep
  BY <1>10 DEF Boot, Stop
<1>11. Tick => sweep' = sweep
  BY DEF Tick
<1> QED
  BY <1>3, <1>6, <1>7, <1>8, <1>9, <1>10, <1>11 DEF Next

-----------------------------------------------------------------------------
(* The invariant of a task: a step that leaves the task alone, and a step  *)
(* after which one process alone may work on it.                           *)

\* Nothing of the task changes, except that some of it may be gone with its process.
Untouched(u) ==
    /\ rec'[u] = rec[u] /\ age'[u] = age[u] /\ claim'[u] = claim[u]
    /\ selfTaken'[u] = selfTaken[u]
    /\ \A q \in Procs : exec'[q][u] = exec[q][u] \/ exec'[q][u] = Away
    /\ \A q \in Procs : \A item \in list'[q] : item.task = u => item \in list[q]
    /\ \A q \in Procs : sweep'[q].task = u => sweep[q].task = u
    /\ trigger'[u] = trigger[u] \/ trigger'[u].step = "done"

LEMMA Frame ==
    ASSUME NEW u \in Tasks, TaskInv(u), Untouched(u)
    PROVE  TaskInv(u)'
<1>1. Free(u)' <=> Free(u)
  BY DEF Untouched, Free
<1>2. \A q \in Procs : HeldBy(q, u)' <=> HeldBy(q, u)
  BY DEF Untouched, HeldBy
<1>3. \A q \in Procs : Driven(q, u)' => Driven(q, u) /\ exec'[q][u] = exec[q][u]
  BY DEF Untouched, Driven, Away
<1>4. NobodyDrives(u) => NobodyDrives(u)'
  BY <1>3 DEF NobodyDrives
<1>5. NobodySweeps(u) => NobodySweeps(u)'
  BY DEF Untouched, NobodySweeps
<1>6. Sheltered(u) => Sheltered(u)'
  BY <1>1, <1>5 DEF Untouched, Sheltered, IsJustTriggered
<1>7. NotYet(u)'
  BY <1>1, <1>4, <1>5 DEF TaskInv, Known, NotYet, Untouched
<1>8. JustCreated(u)' /\ AnswerIsKnown(u)'
  BY <1>4, <1>6 DEF TaskInv, Known, JustCreated, AnswerIsKnown, Untouched
<1>9. ASSUME ~selfTaken'[u] PROVE Exclusively(u)'
  <2>1. Exclusively(u)
    BY <1>9 DEF TaskInv, Untouched
  <2>2. WorkedIsHeld(u)'
    BY <1>2, <2>1 DEF Exclusively, WorkedIsHeld, Working, Untouched, Away
  <2>3. SweptIsHeld(u)'
    BY <1>2, <2>1 DEF Exclusively, SweptIsHeld, In, Untouched, Away
  <2>4. SleepsUnderClaim(u)'
    BY <2>1 DEF Exclusively, SleepsUnderClaim, Untouched, In, Away
  <2>5. BodyIsUnfinished(u)'
    BY <2>1 DEF Exclusively, BodyIsUnfinished, Untouched, InBody, In, Away
  <2>6. AnswerIsBehind(u)'
    BY <2>1 DEF Exclusively, AnswerIsBehind, Untouched
  <2> QED
    BY <2>2, <2>3, <2>4, <2>5, <2>6 DEF Exclusively
<1> QED
  BY <1>7, <1>8, <1>9 DEF TaskInv, Known

\* No sweep has the task, and only p may work on it.
OnlyMaybe(p, u) ==
    /\ NobodySweeps(u)
    /\ \A q \in Procs \ {p} : ~Working(q, u) /\ ~exec[q][u].lost

LEMMA OneWorker ==
    ASSUME NEW u \in Tasks, NEW p \in Procs, OnlyMaybe(p, u)',
           ~exec'[p][u].lost,
           Working(p, u)' => HeldBy(p, u)',
           In(p, u, "sleeping")' => claim'[u].left >= exec'[p][u].wait + TTL,
           InBody(p, u)' => rec'[u].status \notin Finished,
           AnswerIsBehind(u)'
    PROVE  Exclusively(u)'
<1>1. WorkedIsHeld(u)'
  BY DEF OnlyMaybe, WorkedIsHeld
<1>2. SweptIsHeld(u)'
  BY DEF OnlyMaybe, SweptIsHeld, NobodySweeps
<1>3. SleepsUnderClaim(u)'
  BY DEF OnlyMaybe, SleepsUnderClaim, Working, In
<1>4. BodyIsUnfinished(u)'
  BY DEF OnlyMaybe, BodyIsUnfinished, InBody, In, Working
<1> QED
  BY <1>1, <1>2, <1>3, <1>4 DEF Exclusively

\* Two processes do not hold one claim.
LEMMA HeldByOne ==
    ASSUME NEW u \in Tasks, NEW p \in Procs, NEW q \in Procs, HeldBy(p, u), HeldBy(q, u)
    PROVE  p = q
BY DEF HeldBy

\* Who drives a task whose claim is its or nobody's is the only one to work on it, and no sweep has it.
LEMMA WorksAlone ==
    ASSUME NEW u \in Tasks, NEW p \in Procs, Exclusively(u), Driven(p, u), HeldBy(p, u) \/ Free(u)
    PROVE  OnlyMaybe(p, u)
<1>1. \A q \in Procs \ {p} : ~HeldBy(q, u)
  BY HeldByOne DEF HeldBy, Free
<1>2. \A q \in Procs \ {p} : ~Working(q, u) /\ ~exec[q][u].lost
  BY <1>1 DEF Exclusively, WorkedIsHeld, BodyIsUnfinished
<1>3. NobodySweeps(u)
  BY <1>1 DEF Exclusively, SweptIsHeld, NobodySweeps, In, Driven
<1> QED
  BY <1>2, <1>3 DEF OnlyMaybe

\* A task that is driven or swept exists, and its trigger has gone on.
LEMMA DrivenExists ==
    ASSUME NEW u \in Tasks, Known(u), ~NobodyDrives(u) \/ ~NobodySweeps(u)
    PROVE  rec[u].status # "none" /\ trigger[u].step # "created"
BY DEF Known, NotYet, JustCreated, Sheltered

\* What is known of such a task stays known as long as its record does not vanish.
LEMMA StaysKnown ==
    ASSUME NEW u \in Tasks, Known(u), trigger[u].step # "created",
           rec'[u].status # "none", trigger'[u] = trigger[u]
    PROVE  Known(u)'
BY DEF Known, NotYet, JustCreated, AnswerIsKnown

\* The other tasks, after a step of an iteration or of a trigger of one task.
LEMMA OthersUntouched ==
    ASSUME NEW p \in Procs, NEW t \in Tasks, NEW u \in Tasks \ {t},
           OthersGoOn(p, t), OthersAreClaimedAlike(t),
           rec'[u] = rec[u], age'[u] = age[u], trigger'[u] = trigger[u],
           list' = list, sweep' = sweep, selfTaken' = selfTaken
    PROVE  Untouched(u)
BY DEF Untouched, OthersGoOn, OthersAreClaimedAlike

LEMMA SaveDoes ==
    ASSUME TypeOK, NEW t \in Tasks, NEW s, NEW n, Save(t, s, n)
    PROVE  /\ rec'[t].status = s /\ age'[t] = 0
           /\ \A u \in Tasks \ {t} : rec'[u] = rec[u] /\ age'[u] = age[u]
BY TypeParts DEF Save, RecsType

-----------------------------------------------------------------------------
(* Iterations keep the invariant of every task.                            *)

\* What all steps of an iteration of t have in common.
OnlyOf(t) ==
    /\ \A u \in Tasks \ {t} : rec'[u] = rec[u] /\ age'[u] = age[u]
    /\ rec'[t].status # "none"
    /\ ~selfTaken[t] /\ rec[t].status \in Finished => rec'[t].status \in Finished
    /\ UNCHANGED <<trigger, list, sweep, selfTaken>>

\* After a step of p's execution of t, which has the claim or finds it free.
LEMMA StepOfOne ==
    ASSUME IInv, NEW p \in Procs, NEW t \in Tasks, Driven(p, t), OnlyOf(t),
           OthersGoOn(p, t), OthersAreClaimedAlike(t),
           ~selfTaken[t] =>
              /\ HeldBy(p, t) \/ Free(t)
              /\ ~exec'[p][t].lost
              /\ Working(p, t)' => HeldBy(p, t)'
              /\ In(p, t, "sleeping")' => claim'[t].left >= exec'[p][t].wait + TTL
              /\ InBody(p, t)' => rec'[t].status \notin Finished
    PROVE  \A u \in Tasks : TaskInv(u)'
<1>1. TypeOK /\ \A u \in Tasks : TaskInv(u)
  BY DEF IInv
<1>2. ASSUME NEW u \in Tasks \ {t} PROVE TaskInv(u)'
  <2>1. Untouched(u)
    BY OthersUntouched DEF OnlyOf
  <2> QED
    BY <1>1, <2>1, Frame
<1>3. Known(t)'
  <2>1. Known(t) /\ ~NobodyDrives(t)
    BY <1>1 DEF TaskInv, NobodyDrives
  <2> QED
    BY <2>1, DrivenExists, StaysKnown DEF OnlyOf
<1>4. ASSUME ~selfTaken'[t] PROVE Exclusively(t)'
  <2>1. ~selfTaken[t] /\ Exclusively(t)
    BY <1>1, <1>4 DEF OnlyOf, TaskInv
  <2>2. OnlyMaybe(p, t)
    BY <2>1, WorksAlone
  <2>3. OnlyMaybe(p, t)'
    BY <2>2 DEF OnlyMaybe, OnlyOf, NobodySweeps, OthersGoOn, Working
  <2>4. AnswerIsBehind(t)'
    BY <2>1 DEF Exclusively, AnswerIsBehind, OnlyOf
  <2> QED
    BY <2>1, <2>3, <2>4, OneWorker
<1> QED
  BY <1>2, <1>3, <1>4 DEF TaskInv

\* Who works on a task that was not taken from its own line has its claim, and knows it.
LEMMA WorkedHolds ==
    ASSUME IInv, NEW p \in Procs, NEW t \in Tasks, ~selfTaken[t], Working(p, t)
    PROVE  HeldBy(p, t) /\ ~exec[p][t].lost
BY DEF IInv, TaskInv, Exclusively, WorkedIsHeld, BodyIsUnfinished

LEMMA GoesOnTasks ==
    ASSUME IInv, NEW p \in Procs, NEW t \in Tasks, Working(p, t),
           NEW w \in Nat, GoesOn(p, t, w), OnlyOf(t)
    PROVE  \A u \in Tasks : TaskInv(u)'
<1>1. TypeOK
  BY DEF IInv
<1>2. /\ OthersGoOn(p, t) /\ OthersAreClaimedAlike(t)
      /\ ~exec'[p][t].lost
      /\ \/ exec'[p][t] = Away
         \/ /\ exec'[p][t].stage = "sleeping"
            /\ HeldBy(p, t)' /\ claim'[t].left >= exec'[p][t].wait + TTL
         \/ exec'[p][t].stage = "queued" /\ HeldBy(p, t)'
  BY <1>1, GoesOnDoes
<1>3. /\ Working(p, t)' => HeldBy(p, t)'
      /\ In(p, t, "sleeping")' => claim'[t].left >= exec'[p][t].wait + TTL
      /\ ~InBody(p, t)'
  BY <1>2 DEF Working, In, InBody, Away
<1>4. Driven(p, t)
  BY DEF Working, Driven
<1> QED
  BY <1>2, <1>3, <1>4, WorkedHolds, StepOfOne

LEMMA EndsTasks ==
    ASSUME IInv, NEW p \in Procs, NEW t \in Tasks, Working(p, t), Ends(p, t), OnlyOf(t)
    PROVE  \A u \in Tasks : TaskInv(u)'
<1>1. TypeOK
  BY DEF IInv
<1>2. exec'[p][t] = Away /\ OthersGoOn(p, t) /\ OthersAreClaimedAlike(t)
  BY <1>1, EndsDoes
<1>3. ~Working(p, t)' /\ ~In(p, t, "sleeping")' /\ ~InBody(p, t)' /\ ~exec'[p][t].lost
  BY <1>2 DEF Working, In, InBody, Away
<1>4. Driven(p, t)
  BY DEF Working, Driven
<1> QED
  BY <1>2, <1>3, <1>4, WorkedHolds, StepOfOne

\* A step that changes only where p's execution of t is.
LEMMA StageTasks ==
    ASSUME IInv, NEW p \in Procs, NEW t \in Tasks, Driven(p, t),
           NEW s \in {"queued", "begun", "body"}, Stage(p, t, s), OnlyOf(t),
           OthersAreClaimedAlike(t),
           ~selfTaken[t] =>
              /\ HeldBy(p, t) \/ Free(t)
              /\ s = "queued" \/ HeldBy(p, t)'
              /\ s = "body" => rec'[t].status \notin Finished
    PROVE  \A u \in Tasks : TaskInv(u)'
<1>1. TypeOK /\ TaskInv(t)
  BY DEF IInv
<1>2. /\ exec'[p][t].stage = s /\ exec'[p][t].lost = exec[p][t].lost
      /\ OthersGoOn(p, t)
  <2>1. s \in StageNames
    BY DEF StageNames
  <2> QED
    BY <1>1, <2>1, StageDoes
<1>3. ~selfTaken[t] => ~exec'[p][t].lost
  BY <1>1, <1>2 DEF TaskInv, Exclusively, BodyIsUnfinished
<1>4. /\ ~In(p, t, "sleeping")'
      /\ Working(p, t)' => s # "queued"
      /\ InBody(p, t)' => s = "body"
  BY <1>2 DEF In, InBody, Working
<1> QED
  BY <1>2, <1>3, <1>4, StepOfOne

LEMMA BeginQueued ==
    ASSUME IInv, NEW p \in Procs, NEW t \in Tasks, Begin(p, t)
    PROVE  In(p, t, "queued") /\ Driven(p, t)
<1>1. TypeOK /\ LineInv(p)
  BY DEF IInv
<1>2. line[p] \in Seq(Tasks) /\ line[p] # << >>
  BY <1>1, TypeParts DEF Begin, LinesType
<1>3. t = line[p][1] /\ 1 \in 1..Len(line[p])
  BY <1>2 DEF Begin
<1> QED
  BY <1>1, <1>3 DEF LineInv, In, Driven

LEMMA IteratingTasks ==
    ASSUME IInv, NEW p \in Procs, NEW t \in Tasks, Iterating(p, t)
    PROVE  \A u \in Tasks : TaskInv(u)'
<1>1. TypeOK /\ \A u \in Tasks : TaskInv(u)
  BY DEF IInv
<1>2. Driven(p, t) => rec[t].status # "none"
  BY <1>1, DrivenExists DEF TaskInv, NobodyDrives
<1>3. CASE Begin(p, t)
  <2>1. In(p, t, "queued") /\ Driven(p, t)
    BY <1>3, BeginQueued
  <2>2. CASE HeldBy(p, t) \/ Free(t)
    <3>1. claim' = [claim EXCEPT ![t] = Claim(p, TTL)] /\ Stage(p, t, "begun")
      BY <1>3, <2>2 DEF Begin
    <3>2. HeldBy(p, t)' /\ OthersAreClaimedAlike(t)
      BY <1>1, <3>1, ClaimDoes, TTLLasts
    <3>3. OnlyOf(t)
      BY <1>2, <1>3, <2>1 DEF Begin, OnlyOf
    <3> QED
      BY <2>1, <2>2, <3>1, <3>2, <3>3, StageTasks
  <2>3. CASE ~(HeldBy(p, t) \/ Free(t))
    <3>1. claim' = claim /\ exec'[p][t] = Away /\ OthersGoOn(p, t)
      BY <1>1, <1>3, <2>3, LeavesDoes DEF Begin
    <3>2. \A u \in Tasks : Untouched(u)
      BY <1>3, <3>1 DEF Begin, Untouched, OthersGoOn
    <3> QED
      BY <1>1, <3>2, Frame
  <2> QED
    BY <2>2, <2>3
<1>4. CASE AnswersDelay(p, t)
  <2>1. Working(p, t) /\ Driven(p, t) /\ GoesOn(p, t, exec[p][t].delay)
    BY <1>4 DEF AnswersDelay, In, Driven, Working
  <2>2. exec[p][t].delay \in Nat
    BY <1>1, TypeParts DEF ExecsType, ExecType
  <2>3. OnlyOf(t)
    BY <1>2, <1>4, <2>1 DEF AnswersDelay, OnlyOf
  <2> QED
    BY <2>1, <2>2, <2>3, GoesOnTasks
<1>5. CASE FindsFinished(p, t)
  <2>1. Working(p, t) /\ Driven(p, t) /\ Ends(p, t)
    BY <1>5 DEF FindsFinished, In, Driven, Working
  <2>2. OnlyOf(t)
    BY <1>2, <1>5, <2>1 DEF FindsFinished, OnlyOf
  <2> QED
    BY <2>1, <2>2, EndsTasks
<1>6. CASE StartsBody(p, t)
  <2>1. Working(p, t) /\ Driven(p, t) /\ Stage(p, t, "body")
    BY <1>6 DEF StartsBody, In, Driven, Working
  <2>2. OthersAreClaimedAlike(t)
    BY <1>6 DEF StartsBody, OthersAreClaimedAlike
  <2>3. ~selfTaken[t] => HeldBy(p, t) /\ HeldBy(p, t)'
    BY <1>6, <2>1, WorkedHolds DEF StartsBody, HeldBy
  <2>4. PICK n \in {1, rec[t].iterations + 1} : Save(t, "running", n)
    BY <1>6 DEF StartsBody
  <2>5. rec'[t].status = "running" /\ \A u \in Tasks \ {t} : rec'[u] = rec[u] /\ age'[u] = age[u]
    BY <1>1, <2>4, SaveDoes
  <2>6. OnlyOf(t) /\ rec'[t].status \notin Finished
    BY <1>6, <2>5 DEF StartsBody, OnlyOf, Finished
  <2> QED
    BY <2>1, <2>2, <2>3, <2>6, StageTasks
<1>7. CASE ReachesMaxIterations(p, t)
  <2>1. Working(p, t) /\ Ends(p, t) /\ Save(t, "failed", rec[t].iterations)
    BY <1>7 DEF ReachesMaxIterations, In, Working
  <2>2. OnlyOf(t)
    BY <1>1, <1>7, <2>1, SaveDoes DEF ReachesMaxIterations, OnlyOf, Finished
  <2> QED
    BY <2>1, <2>2, EndsTasks
<1>8. ASSUME NEW w \in Waits, Continues(p, t, w) PROVE \A u \in Tasks : TaskInv(u)'
  <2>1. Working(p, t) /\ GoesOn(p, t, w) /\ Save(t, "running", rec[t].iterations)
    BY <1>8 DEF Continues, InBody, In, Working
  <2>2. rec'[t].status = "running" /\ \A u \in Tasks \ {t} : rec'[u] = rec[u] /\ age'[u] = age[u]
    BY <1>1, <2>1, SaveDoes
  <2>3. ~selfTaken[t] => rec[t].status \notin Finished
    BY <1>1, <1>8 DEF Continues, TaskInv, Exclusively, BodyIsUnfinished
  <2>4. OnlyOf(t)
    BY <1>8, <2>2, <2>3 DEF Continues, OnlyOf
  <2>5. w \in Nat
    BY RecoveryAssumption
  <2> QED
    BY <2>1, <2>4, <2>5, GoesOnTasks
<1>9. ASSUME NEW outcome \in Finished, Finishes(p, t, outcome) PROVE \A u \in Tasks : TaskInv(u)'
  <2>1. Working(p, t) /\ Driven(p, t) /\ Ends(p, t)
    BY <1>9 DEF Finishes, InBody, In, Working, Driven
  <2>2. OnlyOf(t)
    <3>1. CASE Save(t, outcome, rec[t].iterations)
      BY <1>1, <1>9, <3>1, SaveDoes DEF Finishes, OnlyOf, Finished
    <3>2. CASE UNCHANGED <<rec, age>>
      BY <1>2, <1>9, <2>1, <3>2 DEF Finishes, OnlyOf
    <3> QED
      BY <1>9, <3>1, <3>2 DEF Finishes
  <2> QED
    BY <2>1, <2>2, EndsTasks
<1>10. CASE Wakes(p, t)
  <2>1. Working(p, t) /\ Driven(p, t) /\ Stage(p, t, "queued")
    BY <1>10 DEF Wakes, In, Working, Driven
  <2>2. OthersAreClaimedAlike(t) /\ OnlyOf(t)
    BY <1>2, <1>10, <2>1 DEF Wakes, OthersAreClaimedAlike, OnlyOf
  <2>3. ~selfTaken[t] => HeldBy(p, t)
    BY <2>1, WorkedHolds
  <2> QED
    BY <2>1, <2>2, <2>3, StageTasks
<1> QED
  BY <1>3, <1>4, <1>5, <1>6, <1>7, <1>8, <1>9, <1>10 DEF Iterating

-----------------------------------------------------------------------------
(* So do triggers,                                                         *)

LEMMA CreateTasks ==
    ASSUME IInv, NEW p \in Procs, NEW t \in Tasks, NEW d \in Delays, Create(p, t, d)
    PROVE  \A u \in Tasks : TaskInv(u)'
<1>1. TypeOK /\ \A u \in Tasks : TaskInv(u)
  BY DEF IInv
<1>2. /\ rec'[t].status = "pending"
      /\ trigger'[t].step = "created" /\ trigger'[t].by = p
      /\ \A u \in Tasks \ {t} : rec'[u] = rec[u] /\ trigger'[u] = trigger[u]
      /\ UNCHANGED <<age, claim, exec, list, sweep, selfTaken>>
  BY <1>1, TypeParts DEF Create, RecsType, TriggerType
<1>3. ASSUME NEW u \in Tasks \ {t} PROVE TaskInv(u)'
  <2>1. Untouched(u)
    BY <1>2 DEF Untouched
  <2> QED
    BY <1>1, <2>1, Frame
<1>4. /\ Free(t) /\ age[t] = 0 /\ NobodyDrives(t) /\ NobodySweeps(t)
      /\ \A q \in Procs : \A item \in list[q] : item.task # t
  BY <1>1 DEF Create, TaskInv, Known, NotYet
<1>5. /\ Free(t)' /\ NobodyDrives(t)' /\ NobodySweeps(t)'
      /\ \A q \in Procs : \A item \in list'[q] : item.task # t
  BY <1>2, <1>4 DEF Free, NobodyDrives, NobodySweeps, Driven
<1>6. Sheltered(t)'
  BY <1>2, <1>4, <1>5, RecoveryAssumption DEF Sheltered
<1>7. Known(t)'
  BY <1>2, <1>5, <1>6 DEF Known, NotYet, JustCreated, AnswerIsKnown
<1>8. ASSUME ~selfTaken'[t] PROVE Exclusively(t)'
  <2>1. \A q \in Procs : ~exec'[q][t].lost
    BY <1>1, <1>2, <1>8 DEF TaskInv, Exclusively, BodyIsUnfinished
  <2>2. \A q \in Procs : ~Working(q, t)' /\ ~In(q, t, "sleeping")' /\ ~InBody(q, t)'
    BY <1>5 DEF NobodyDrives, Driven, Working, In, InBody
  <2> QED
    BY <1>2, <1>5, <2>1, <2>2
      DEF Exclusively, WorkedIsHeld, SweptIsHeld, SleepsUnderClaim, BodyIsUnfinished, AnswerIsBehind,
          NobodySweeps
<1> QED
  BY <1>3, <1>7, <1>8 DEF TaskInv

LEMMA SendTasks ==
    ASSUME IInv, NEW p \in Procs, NEW t \in Tasks, Send(p, t)
    PROVE  \A u \in Tasks : TaskInv(u)'
<1>1. TypeOK /\ \A u \in Tasks : TaskInv(u)
  BY DEF IInv
<1>2. Sheltered(t) /\ NobodyDrives(t)
  BY <1>1 DEF Send, TaskInv, Known, JustCreated
<1>3. /\ trigger'[t].step = "sent"
      /\ \A u \in Tasks \ {t} : trigger'[u] = trigger[u]
      /\ UNCHANGED <<rec, age, list, sweep, selfTaken>>
  BY <1>1, TypeParts DEF Send, TriggerType
<1>4. /\ OthersGoOn(p, t)
      /\ exec' = exec \/ (exec'[p][t].stage = "queued" /\ ~exec'[p][t].lost)
  BY <1>1, StartDoes DEF Send
<1>5. claim' = [claim EXCEPT ![t] = Claim(p, TTL + trigger[t].delay)] \/ claim' = claim
  BY DEF Send
<1>6. TTL + trigger[t].delay \in Nat /\ TTL + trigger[t].delay > 0
  BY <1>1, TypeParts, RecoveryAssumption DEF TriggerType
<1>7. OthersAreClaimedAlike(t)
  BY <1>1, <1>5, <1>6, ClaimDoes DEF OthersAreClaimedAlike
<1>8. ASSUME NEW u \in Tasks \ {t} PROVE TaskInv(u)'
  <2>1. Untouched(u)
    BY <1>3, <1>4, <1>7, OthersUntouched
  <2> QED
    BY <1>1, <2>1, Frame
<1>9. Known(t)'
  BY <1>2, <1>3 DEF Sheltered, Known, NotYet, JustCreated, AnswerIsKnown
<1>10. ASSUME ~selfTaken'[t] PROVE Exclusively(t)'
  <2>1. \A q \in Procs : ~exec[q][t].lost
    BY <1>1, <1>3, <1>10 DEF TaskInv, Exclusively, BodyIsUnfinished
  <2>2. \A q \in Procs : exec'[q][t].stage \in {"none", "queued"} /\ ~exec'[q][t].lost
    BY <1>2, <1>4, <2>1 DEF OthersGoOn, NobodyDrives, Driven
  <2>3. NobodySweeps(t)'
    BY <1>2, <1>3 DEF Sheltered, NobodySweeps
  <2> QED
    BY <1>3, <2>2, <2>3
      DEF Exclusively, WorkedIsHeld, SweptIsHeld, SleepsUnderClaim, BodyIsUnfinished, AnswerIsBehind,
          NobodySweeps, Working, InBody, In
<1> QED
  BY <1>8, <1>9, <1>10 DEF TaskInv

\* The trigger reads a record that says at most what it will say.
LEMMA ReadForResponseTasks ==
    ASSUME IInv, NEW p \in Procs, NEW t \in Tasks, ReadForResponse(p, t)
    PROVE  \A u \in Tasks : TaskInv(u)'
<1>1. TypeOK /\ \A u \in Tasks : TaskInv(u)
  BY DEF IInv
<1>2. /\ trigger'[t].step = "read" /\ trigger'[t].read.status = rec[t].status
      /\ \A u \in Tasks \ {t} : trigger'[u] = trigger[u]
      /\ UNCHANGED <<rec, age, claim, exec, list, sweep, selfTaken>>
  <2>1. trigger \in [Tasks -> TriggerType] /\ trigger[t] \in TriggerType
    BY <1>1, TypeParts
  <2> DEFINE x == [status |-> rec[t].status, iterations |-> rec[t].iterations]
             y == [trigger[t] EXCEPT !.step = "read", !.read = x]
  <2>2. trigger' = [trigger EXCEPT ![t] = y]
    BY <2>1 DEF ReadForResponse
  <2>3. x.status = rec[t].status
    OBVIOUS
  <2> HIDE DEF x
  <2>4. y.step = "read" /\ y.read = x
    BY <2>1 DEF TriggerType
  <2> HIDE DEF y
  <2> QED
    BY <2>1, <2>2, <2>3, <2>4 DEF ReadForResponse
<1>3. ASSUME NEW u \in Tasks \ {t} PROVE TaskInv(u)'
  <2>1. Untouched(u)
    BY <1>2 DEF Untouched
  <2> QED
    BY <1>1, <2>1, Frame
<1>4. rec[t].status # "none"
  BY <1>1 DEF ReadForResponse, TaskInv, Known, AnswerIsKnown
<1>5. Known(t)'
  BY <1>2, <1>4 DEF Known, NotYet, JustCreated, AnswerIsKnown
<1>6. ASSUME ~selfTaken'[t] PROVE Exclusively(t)'
  <2>1. Exclusively(t)
    BY <1>1, <1>2, <1>6 DEF TaskInv
  <2> QED
    BY <1>2, <2>1 DEF Exclusively, WorkedIsHeld, SweptIsHeld, SleepsUnderClaim, BodyIsUnfinished,
                      AnswerIsBehind, Working, HeldBy, In, InBody
<1> QED
  BY <1>3, <1>5, <1>6 DEF TaskInv

\* and writes back an outcome only over an outcome.
LEMMA SaveResponseTasks ==
    ASSUME IInv, NEW p \in Procs, NEW t \in Tasks, SaveResponse(p, t)
    PROVE  \A u \in Tasks : TaskInv(u)'
<1>1. TypeOK /\ \A u \in Tasks : TaskInv(u)
  BY DEF IInv
<1>2. /\ rec'[t].status = trigger[t].read.status
      /\ \A u \in Tasks \ {t} : rec'[u] = rec[u] /\ age'[u] = age[u]
  BY <1>1, SaveDoes DEF SaveResponse
<1>3. /\ trigger'[t].step = "done"
      /\ \A u \in Tasks \ {t} : trigger'[u] = trigger[u]
      /\ UNCHANGED <<claim, exec, list, sweep, selfTaken>>
  BY <1>1, TypeParts DEF SaveResponse, Triggered
<1>4. ASSUME NEW u \in Tasks \ {t} PROVE TaskInv(u)'
  <2>1. Untouched(u)
    BY <1>2, <1>3 DEF Untouched
  <2> QED
    BY <1>1, <2>1, Frame
<1>5. Known(t)'
  BY <1>1, <1>2, <1>3 DEF SaveResponse, TaskInv, Known, AnswerIsKnown, NotYet, JustCreated
<1>6. ASSUME ~selfTaken'[t] PROVE Exclusively(t)'
  <2>1. Exclusively(t)
    BY <1>1, <1>3, <1>6 DEF TaskInv
  <2>2. rec'[t].status \in Finished => rec[t].status \in Finished
    BY <1>2, <2>1 DEF SaveResponse, Exclusively, AnswerIsBehind
  <2> QED
    BY <1>3, <2>1, <2>2
      DEF Exclusively, WorkedIsHeld, SweptIsHeld, SleepsUnderClaim, BodyIsUnfinished, AnswerIsBehind,
          Working, HeldBy, In, InBody
<1> QED
  BY <1>4, <1>5, <1>6 DEF TaskInv

-----------------------------------------------------------------------------
(* and sweeps,                                                             *)

LEMMA SweepListsTasks ==
    ASSUME IInv, NEW p \in Procs, SweepLists(p), NEW t \in Tasks
    PROVE  TaskInv(t)'
<1>1. TypeOK /\ TaskInv(t)
  BY DEF IInv
<1>2. list \in ListsType
  BY <1>1, TypeParts
<1>3. \A q \in Procs : \A item \in list'[q] :
        item.task = t => \/ item \in list[q]
                         \/ /\ rec[t].status \in Unfinished /\ item.age = age[t]
                            /\ item.pending = (rec[t].status = "pending")
  BY <1>2 DEF SweepLists, ListsType
<1>4. UNCHANGED <<rec, age, claim, trigger, exec, sweep, selfTaken>>
  BY DEF SweepLists
<1>5. Free(t)' = Free(t) /\ NobodyDrives(t)' = NobodyDrives(t) /\ NobodySweeps(t)' = NobodySweeps(t)
  BY <1>4 DEF Free, NobodyDrives, NobodySweeps, Driven
<1>6. Sheltered(t) => Sheltered(t)'
  BY <1>3, <1>4, <1>5 DEF Sheltered, IsJustTriggered
<1>7. NotYet(t)'
  BY <1>1, <1>3, <1>4, <1>5 DEF TaskInv, Known, NotYet, Unfinished
<1>8. JustCreated(t)'
  <2>1. \A q \in Procs : \A item \in list'[q] : item.task = t /\ item.age = age[t] => item.age <= age[t]
    BY <1>1, TypeParts, RecoveryAssumption
  <2> QED
    BY <1>1, <1>3, <1>4, <1>5, <1>6, <2>1 DEF TaskInv, Known, JustCreated
<1>9. AnswerIsKnown(t)'
  BY <1>1, <1>4 DEF TaskInv, Known, AnswerIsKnown
<1>10. Exclusively(t) => Exclusively(t)'
  BY <1>4 DEF Exclusively, WorkedIsHeld, SweptIsHeld, SleepsUnderClaim, BodyIsUnfinished,
              AnswerIsBehind, Working, HeldBy, In, InBody
<1> QED
  BY <1>1, <1>4, <1>7, <1>8, <1>9, <1>10 DEF TaskInv, Known

\* A sweep that takes a task takes one that nobody works on, sweeps or is about to start.
LEMMA SweepTakesTasks ==
    ASSUME IInv, NEW p \in Procs, NEW item \in list[p], SweepTakes(p, item)
    PROVE  \A u \in Tasks : TaskInv(u)'
<1> DEFINE t == item.task
<1>1. TypeOK /\ \A u \in Tasks : TaskInv(u)
  BY DEF IInv
<1>2. list \in ListsType /\ sweep \in [Procs -> SweepType] /\ selfTaken \in [Tasks -> BOOLEAN]
  BY <1>1, TypeParts
<1>3. t \in Tasks
  BY <1>2 DEF ListsType, ItemType
<1>4. HeldBy(p, t)' /\ OthersAreClaimedAlike(t)
  BY <1>1, <1>3, ClaimDoes, TTLLasts DEF SweepTakes
<1>5. /\ sweep'[p].task = t
      /\ \A q \in Procs \ {p} : sweep'[q] = sweep[q]
      /\ \A q \in Procs : list'[q] \subseteq list[q]
      /\ UNCHANGED <<rec, age, trigger, exec>>
  BY <1>2 DEF SweepTakes, ListsType
<1>6. /\ selfTaken'[t] = (selfTaken[t] \/ ~In(p, t, "none"))
      /\ \A u \in Tasks \ {t} : selfTaken'[u] = selfTaken[u]
  BY <1>2, <1>3 DEF SweepTakes
<1>7. ASSUME NEW u \in Tasks \ {t} PROVE TaskInv(u)'
  <2>1. Untouched(u)
    BY <1>4, <1>5, <1>6 DEF Untouched, OthersAreClaimedAlike
  <2> QED
    BY <1>1, <2>1, Frame
<1>8. Free(t) /\ ~Sheltered(t)
  BY DEF SweepTakes, Sheltered
<1>9. rec[t].status # "none" /\ trigger[t].step # "created"
  BY <1>1, <1>3, <1>8 DEF TaskInv, Known, NotYet, JustCreated
<1>10. Known(t)'
  BY <1>1, <1>3, <1>5, <1>9, StaysKnown DEF TaskInv
<1>11. ASSUME ~selfTaken'[t] PROVE Exclusively(t)'
  <2>1. In(p, t, "none") /\ Exclusively(t)
    BY <1>1, <1>3, <1>6, <1>11 DEF TaskInv
  <2>2. \A q \in Procs : ~HeldBy(q, t)
    BY <1>8 DEF Free, HeldBy
  <2>3. \A q \in Procs : ~Working(q, t) /\ sweep[q].task # t
    BY <2>1, <2>2 DEF Exclusively, WorkedIsHeld, SweptIsHeld
  <2>4. WorkedIsHeld(t)' /\ SleepsUnderClaim(t)'
    BY <1>5, <2>3 DEF WorkedIsHeld, SleepsUnderClaim, Working, In
  <2>5. SweptIsHeld(t)'
    BY <1>4, <1>5, <2>1, <2>3 DEF SweptIsHeld, In
  <2>6. BodyIsUnfinished(t)' /\ AnswerIsBehind(t)'
    BY <1>5, <2>1 DEF Exclusively, BodyIsUnfinished, AnswerIsBehind, InBody, In
  <2> QED
    BY <2>4, <2>5, <2>6 DEF Exclusively
<1>12. TaskInv(t)'
  BY <1>10, <1>11 DEF TaskInv
<1> QED
  BY <1>7, <1>12

\* What holds of a task in a sweep's hands.
LEMMA SweptExists ==
    ASSUME NEW p \in Procs, NEW t \in Tasks, TaskInv(t), sweep[p].task = t
    PROVE  /\ rec[t].status # "none" /\ trigger[t].step # "created"
           /\ ~selfTaken[t] =>
                /\ Exclusively(t)
                /\ HeldBy(p, t) /\ In(p, t, "none")
                /\ \A q \in Procs \ {p} : sweep[q].task # t
                /\ \A q \in Procs : ~Working(q, t) /\ ~exec[q][t].lost
<1>1. rec[t].status # "none" /\ trigger[t].step # "created"
  BY DrivenExists DEF TaskInv, NobodySweeps
<1>2. ASSUME ~selfTaken[t]
      PROVE  /\ Exclusively(t)
             /\ HeldBy(p, t) /\ In(p, t, "none")
             /\ \A q \in Procs \ {p} : sweep[q].task # t
             /\ \A q \in Procs : ~Working(q, t) /\ ~exec[q][t].lost
  <2>1. Exclusively(t)
    BY <1>2 DEF TaskInv
  <2>2. HeldBy(p, t) /\ In(p, t, "none")
    BY <2>1 DEF Exclusively, SweptIsHeld
  <2>3. \A q \in Procs \ {p} : ~HeldBy(q, t)
    BY <2>2, HeldByOne
  <2>4. \A q \in Procs \ {p} : sweep[q].task # t
    BY <2>1, <2>3 DEF Exclusively, SweptIsHeld
  <2>5. \A q \in Procs : ~Working(q, t) /\ ~exec[q][t].lost
    BY <2>1, <2>2, <2>3 DEF Exclusively, WorkedIsHeld, BodyIsUnfinished, Working, In
  <2> QED
    BY <2>1, <2>2, <2>4, <2>5
<1> QED
  BY <1>1, <1>2

\* A sweep that is done with its task.
LEMMA SweepLeaves ==
    ASSUME TypeOK, NEW p \in Procs, sweep' = [sweep EXCEPT ![p] = NoSweep]
    PROVE  \A q \in Procs, u \in Tasks : sweep'[q].task = u => q # p /\ sweep[q].task = u
BY TypeParts, RecoveryAssumption DEF SweepType, NoSweep

LEMMA SweepStays ==
    ASSUME TypeOK, NEW p \in Procs, NEW s, sweep' = [sweep EXCEPT ![p].step = s]
    PROVE  \A q \in Procs : sweep'[q].task = sweep[q].task
<1>1. \A q \in Procs : sweep[q] \in SweepType
  BY TypeParts
<1>2. sweep \in [Procs -> SweepType]
  BY TypeParts
<1> QED
  BY <1>1, <1>2 DEF SweepType

\* A task that a sweep had and lets go of, started or not.
LEMMA LetGo ==
    ASSUME NEW p \in Procs, NEW t \in Tasks, TaskInv(t), sweep[p].task = t, TypeOK,
           sweep' = [sweep EXCEPT ![p] = NoSweep], UNCHANGED <<rec, trigger, selfTaken>>,
           OthersGoOn(p, t),
           exec' = exec \/ (exec'[p][t].stage = "queued" /\ ~exec'[p][t].lost)
    PROVE  TaskInv(t)'
<1>1. Known(t)'
  BY SweptExists, StaysKnown DEF TaskInv
<1>2. ASSUME ~selfTaken'[t] PROVE Exclusively(t)'
  <2>1. /\ Exclusively(t) /\ In(p, t, "none")
        /\ \A q \in Procs \ {p} : sweep[q].task # t
        /\ \A q \in Procs : ~Working(q, t) /\ ~exec[q][t].lost
    BY <1>2, SweptExists
  <2>2. NobodySweeps(t)'
    BY <2>1, SweepLeaves DEF NobodySweeps
  <2>3. OnlyMaybe(p, t)'
    BY <2>1, <2>2 DEF OnlyMaybe, OthersGoOn, Working
  <2>4. ~Working(p, t)' /\ ~In(p, t, "sleeping")' /\ ~InBody(p, t)' /\ ~exec'[p][t].lost
    BY <2>1 DEF Working, In, InBody
  <2>5. AnswerIsBehind(t)'
    BY <2>1 DEF Exclusively, AnswerIsBehind
  <2> QED
    BY <2>3, <2>4, <2>5, OneWorker
<1> QED
  BY <1>1, <1>2 DEF TaskInv

LEMMA SweepRecordsTasks ==
    ASSUME IInv, NEW p \in Procs, SweepRecords(p)
    PROVE  \A u \in Tasks : TaskInv(u)'
<1> DEFINE n == Recoveries(sweep[p].task, sweep[p].saves)
<1>1. TypeOK /\ (\A u \in Tasks : TaskInv(u)) /\ SweepInv(p)
  BY DEF IInv
<1>2. PICK t \in Tasks : t = sweep[p].task
  BY <1>1 DEF SweepRecords, SweepInv
<1>3. UNCHANGED <<rec, age, claim, trigger, list, selfTaken>>
  BY DEF SweepRecords
<1>4. CASE n > MaxRecoveries
  <2>1. exec' = exec /\ \A q \in Procs : sweep'[q].task = sweep[q].task
    BY <1>1, <1>4, SweepStays DEF SweepRecords
  <2>2. \A u \in Tasks : Untouched(u)
    BY <1>3, <2>1 DEF Untouched
  <2> QED
    BY <1>1, <2>2, Frame
<1>5. CASE ~(n > MaxRecoveries)
  <2>1. sweep' = [sweep EXCEPT ![p] = NoSweep] /\ Start(p, t, 0)
    BY <1>2, <1>5 DEF SweepRecords
  <2> HIDE DEF n
  <2>2. /\ OthersGoOn(p, t)
        /\ exec' = exec \/ (exec'[p][t].stage = "queued" /\ ~exec'[p][t].lost)
    BY <1>1, <1>2, <2>1, StartDoes
  <2>3. \A q \in Procs, u \in Tasks : sweep'[q].task = u => q # p /\ sweep[q].task = u
    BY <1>1, <2>1, SweepLeaves
  <2>4. ASSUME NEW u \in Tasks \ {t} PROVE TaskInv(u)'
    <3>1. Untouched(u)
      BY <1>3, <2>2, <2>3 DEF Untouched, OthersGoOn
    <3> QED
      BY <1>1, <3>1, Frame
  <2>5. TaskInv(t)'
    BY <1>1, <1>2, <1>3, <2>1, <2>2, LetGo
  <2> QED
    BY <2>4, <2>5
<1> QED
  BY <1>4, <1>5

LEMMA SweepFailsTasks ==
    ASSUME IInv, NEW p \in Procs, SweepFails(p)
    PROVE  \A u \in Tasks : TaskInv(u)'
<1>1. TypeOK /\ (\A u \in Tasks : TaskInv(u)) /\ SweepInv(p)
  BY DEF IInv
<1>2. PICK t \in Tasks : t = sweep[p].task
  BY <1>1 DEF SweepFails, SweepInv
<1>3. /\ rec'[t].status = "failed" /\ age'[t] = 0
      /\ \A u \in Tasks \ {t} : rec'[u] = rec[u] /\ age'[u] = age[u]
  BY <1>1, <1>2, SaveDoes DEF SweepFails
<1>4. /\ UNCHANGED <<claim, trigger, exec, list, selfTaken>>
      /\ \A q \in Procs : sweep'[q].task = sweep[q].task
  BY <1>1, SweepStays DEF SweepFails
<1>5. ASSUME NEW u \in Tasks \ {t} PROVE TaskInv(u)'
  <2>1. Untouched(u)
    BY <1>3, <1>4 DEF Untouched
  <2> QED
    BY <1>1, <2>1, Frame
<1>6. Known(t)'
  BY <1>1, <1>2, <1>3, <1>4, SweptExists, StaysKnown DEF TaskInv
<1>7. ASSUME ~selfTaken'[t] PROVE Exclusively(t)'
  <2>1. /\ Exclusively(t)
        /\ \A q \in Procs : ~Working(q, t) /\ ~exec[q][t].lost
    BY <1>1, <1>2, <1>4, <1>7, SweptExists
  <2>2. \A q \in Procs : ~InBody(q, t)
    BY <2>1 DEF Working, InBody, In
  <2> QED
    BY <1>3, <1>4, <2>1, <2>2
      DEF Exclusively, WorkedIsHeld, SweptIsHeld, SleepsUnderClaim, BodyIsUnfinished, AnswerIsBehind,
          Finished, Working, HeldBy, In, InBody
<1> QED
  BY <1>5, <1>6, <1>7 DEF TaskInv

LEMMA SweepReleasesTasks ==
    ASSUME IInv, NEW p \in Procs, SweepReleases(p) \/ SweepThrows(p)
    PROVE  \A u \in Tasks : TaskInv(u)'
<1>1. TypeOK /\ \A u \in Tasks : TaskInv(u)
  BY DEF IInv
<1>2. /\ UNCHANGED <<rec, age, trigger, exec, list, selfTaken>>
      /\ sweep' = [sweep EXCEPT ![p] = NoSweep]
  BY DEF SweepReleases, SweepThrows
<1>3. \A q \in Procs, u \in Tasks : sweep'[q].task = u => q # p /\ sweep[q].task = u
  BY <1>1, <1>2, SweepLeaves
<1>4. \A u \in Tasks : u # sweep[p].task => claim'[u] = claim[u]
  <2>1. CASE SweepReleases(p)
    <3>1. sweep[p].task \in Tasks
      BY <2>1 DEF SweepReleases, SweepInv, IInv
    <3> QED
      BY <1>1, <2>1, <3>1, ReleasedDoes DEF SweepReleases
  <2>2. CASE SweepThrows(p)
    BY <2>2 DEF SweepThrows
  <2> QED
    BY <2>1, <2>2
<1>5. ASSUME NEW u \in Tasks, u # sweep[p].task PROVE TaskInv(u)'
  <2>1. Untouched(u)
    BY <1>2, <1>3, <1>4, <1>5 DEF Untouched
  <2> QED
    BY <1>1, <2>1, Frame
<1>6. ASSUME NEW u \in Tasks, u = sweep[p].task PROVE TaskInv(u)'
  BY <1>1, <1>2, <1>6, LetGo DEF OthersGoOn
<1> QED
  BY <1>5, <1>6

LEMMA SweepingTasks ==
    ASSUME IInv, NEW p \in Procs, Sweeping(p)
    PROVE  \A u \in Tasks : TaskInv(u)'
<1>1. TypeOK /\ \A u \in Tasks : TaskInv(u)
  BY DEF IInv
<1>2. ASSUME NEW item \in list[p], SweepSkips(p, item) PROVE \A u \in Tasks : TaskInv(u)'
  <2>1. \A q \in Procs : list'[q] \subseteq list[q]
    BY <1>1, <1>2, TypeParts DEF SweepSkips, ListsType
  <2>2. \A u \in Tasks : Untouched(u)
    BY <1>2, <2>1 DEF SweepSkips, Untouched
  <2> QED
    BY <1>1, <2>2, Frame
<1> QED
  BY <1>2, SweepListsTasks, SweepTakesTasks, SweepRecordsTasks, SweepFailsTasks, SweepReleasesTasks
    DEF Sweeping

-----------------------------------------------------------------------------
(* and processes, and time.                                                *)

LEMMA ProcessTasks ==
    ASSUME IInv, NEW p \in Procs, Boot(p) \/ Stop(p) \/ Exit(p)
    PROVE  \A u \in Tasks : TaskInv(u)'
<1>1. TypeOK /\ \A u \in Tasks : TaskInv(u)
  BY DEF IInv
<1>2. exec \in ExecsType /\ sweep \in [Procs -> SweepType] /\ list \in ListsType
  BY <1>1, TypeParts
<1>3. CASE Boot(p)
  <2>1. \A u \in Tasks : Untouched(u)
    BY <1>3 DEF Boot, Untouched
  <2> QED
    BY <1>1, <2>1, Frame
<1>4. CASE Stop(p)
  <2>1. exec' = [exec EXCEPT ![p] =
          [t \in Tasks |-> IF exec[p][t].stage \in {"queued", "sleeping"} THEN Away ELSE exec[p][t]]]
    BY <1>2, <1>4 DEF Stop, ExecsType
  <2>2. \A q \in Procs, u \in Tasks : exec'[q][u] = exec[q][u] \/ exec'[q][u] = Away
    BY <1>2, <2>1 DEF ExecsType
  <2>3. \A u \in Tasks : Untouched(u)
    BY <1>4, <2>2 DEF Stop, Untouched
  <2> QED
    BY <1>1, <2>3, Frame
<1>5. CASE Exit(p)
  <2>1. \A q \in Procs, u \in Tasks : exec'[q][u] = exec[q][u] \/ exec'[q][u] = Away
    BY <1>2, <1>5 DEF Exit, ExecsType
  <2>2. \A q \in Procs : list'[q] \subseteq list[q]
    BY <1>2, <1>5 DEF Exit, ListsType
  <2>3. \A q \in Procs, u \in Tasks : sweep'[q].task = u => sweep[q].task = u
    BY <1>1, <1>5, SweepLeaves DEF Exit
  <2>4. \A u \in Tasks : trigger'[u] = trigger[u] \/ trigger'[u].step = "done"
    BY <1>5 DEF Exit, Triggered
  <2>5. \A u \in Tasks : Untouched(u)
    BY <1>5, <2>1, <2>2, <2>3, <2>4 DEF Exit, Untouched
  <2> QED
    BY <1>1, <2>5, Frame
<1> QED
  BY <1>3, <1>4, <1>5

LEMMA TickTasks ==
    ASSUME IInv, Tick, NEW t \in Tasks
    PROVE  TaskInv(t)'
<1>1. TypeOK /\ TaskInv(t)
  BY DEF IInv
<1>2. claim[t] \in [owner : Procs \cup {None}, left : Nat] /\ age[t] \in 0..TTL /\ TTL \in Nat \ {0}
  BY <1>1, TypeParts, RecoveryAssumption DEF ClaimsType
<1>3. claim'[t] = Aged(t)
  BY DEF Tick
<1>4. ASSUME NEW p \in Procs
      PROVE  /\ exec'[p][t].stage = exec[p][t].stage
             /\ exec'[p][t].wait = Less(exec[p][t].wait)
             /\ exec'[p][t].lost = (exec[p][t].lost \/ (Holding(p, t) /\ ~HeldBy(p, t)))
  <2> DEFINE e == exec[p][t]
             w == Less(e.wait)
             l == e.lost \/ (Holding(p, t) /\ ~HeldBy(p, t))
  <2>1. e \in ExecType
    BY <1>1, TypeParts DEF ExecsType
  <2>2. exec'[p][t] = [e EXCEPT !.wait = w, !.lost = l]
    BY DEF Tick
  <2> HIDE DEF e, w, l
  <2>3. exec'[p][t].stage = e.stage /\ exec'[p][t].wait = w /\ exec'[p][t].lost = l
    BY <2>1, <2>2 DEF ExecType
  <2> QED
    BY <2>3 DEF e, w, l
<1>5. \A p \in Procs : sweep[p] = NoSweep /\ sweep'[p] = NoSweep
  BY DEF Tick, Prompt
<1>6. NobodySweeps(t) /\ NobodySweeps(t)'
  <2>1. NoSweep.task # t
    BY RecoveryAssumption DEF NoSweep
  <2> QED
    BY <1>5, <2>1 DEF NobodySweeps
<1>7. UNCHANGED <<rec, trigger, sweep, selfTaken>>
  BY DEF Tick
<1>8. NobodyDrives(t)' <=> NobodyDrives(t)
  BY <1>4 DEF NobodyDrives, Driven
<1>9. Free(t) => Free(t)'
  BY <1>2, <1>3 DEF Free, Aged, NoClaim
<1>10. \A p \in Procs : \A item \in list'[p] :
         \E old \in list[p] : /\ item.task = old.task /\ item.pending = old.pending
                              /\ item.age = Older(old.age) /\ old.age \in 0..TTL
  <2>1. \A p \in Procs : \A old \in list[p] : old \in ItemType
    BY <1>1, TypeParts DEF ListsType
  <2>2. \A old \in ItemType : LET item == [old EXCEPT !.age = Older(@)]
                              IN  /\ item.task = old.task /\ item.pending = old.pending
                                  /\ item.age = Older(old.age) /\ old.age \in 0..TTL
    BY DEF ItemType
  <2> QED
    BY <2>1, <2>2 DEF Tick
<1>11. age'[t] = IF rec[t].status = "none" THEN 0 ELSE Older(age[t])
  BY DEF Tick
<1>12. NotYet(t)'
  BY <1>1, <1>6, <1>7, <1>8, <1>9, <1>10, <1>11 DEF TaskInv, Known, NotYet
<1>13. JustCreated(t)'
  <2> SUFFICES ASSUME trigger[t].step = "created"
               PROVE  /\ trigger[t].by \in Procs
                      /\ Sheltered(t)' /\ NobodyDrives(t)'
                      /\ \A p \in Procs : \A item \in list'[p] : item.task = t => item.age <= age'[t]
    BY <1>7 DEF JustCreated
  <2>1. /\ trigger[t].by \in Procs /\ Sheltered(t) /\ NobodyDrives(t)
        /\ \A p \in Procs : \A item \in list[p] : item.task = t => item.age <= age[t]
    BY <1>1 DEF TaskInv, Known, JustCreated
  <2>2. age[t] + 1 < TTL
    BY <2>1 DEF Tick, Prompt
  <2>3. age'[t] = age[t] + 1
    BY <1>2, <1>11, <2>1, <2>2 DEF Sheltered, Older
  <2>4. ASSUME NEW p \in Procs, NEW item \in list'[p], item.task = t
        PROVE  item.pending /\ item.age <= age'[t] /\ item.age < TTL
    <3>1. PICK old \in list[p] : /\ item.task = old.task /\ item.pending = old.pending
                                 /\ item.age = Older(old.age) /\ old.age \in 0..TTL
      BY <1>10
    <3>2. old.age <= age[t] /\ old.pending
      BY <2>1, <2>4, <3>1 DEF Sheltered, IsJustTriggered
    <3> QED
      BY <1>2, <2>2, <2>3, <3>1, <3>2 DEF Older
  <2>5. Sheltered(t)'
    BY <1>2, <1>6, <1>7, <1>9, <2>1, <2>2, <2>3, <2>4 DEF Sheltered, IsJustTriggered
  <2> QED
    BY <1>8, <2>1, <2>4, <2>5
<1>14. AnswerIsKnown(t)'
  BY <1>1, <1>7 DEF TaskInv, Known, AnswerIsKnown
<1>15. ASSUME ~selfTaken'[t] PROVE Exclusively(t)'
  <2>1. Exclusively(t)
    BY <1>1, <1>7, <1>15 DEF TaskInv
  <2>2. \A p \in Procs : Working(p, t) => HeldBy(p, t)
    BY <2>1 DEF Exclusively, WorkedIsHeld
  <2>3. ASSUME NEW p \in Procs, Holding(p, t)
        PROVE  HeldBy(p, t)'
    <3>1. HeldBy(p, t)
      BY <2>2, <2>3 DEF Holding, Working
    <3>2. claim'[t] = Claim(p, TTL)
      BY <1>3, <2>3, <3>1 DEF Aged, HeldBy
    <3> QED
      BY <1>2, <3>2 DEF Claim, HeldBy
  <2>4. ASSUME NEW p \in Procs, In(p, t, "sleeping")
        PROVE  HeldBy(p, t)' /\ claim'[t].left >= exec'[p][t].wait + TTL
    <3>1. exec[p][t].wait \in Nat /\ exec[p][t].wait > 0
      <4>1. exec[p][t] \in ExecType
        BY <1>1, TypeParts DEF ExecsType
      <4> QED
        BY <2>4, <4>1 DEF ExecType, Tick, Prompt
    <3>2. claim[t].left >= exec[p][t].wait + TTL
      BY <2>1, <2>4 DEF Exclusively, SleepsUnderClaim
    <3>3. HeldBy(p, t)
      BY <2>2, <2>4 DEF In, Working
    <3>4. ~Holding(claim[t].owner, t)
      BY <2>4, <3>3 DEF HeldBy, Holding, In
    <3>5. claim'[t] = [claim[t] EXCEPT !.left = @ - 1]
      BY <1>2, <1>3, <3>1, <3>2, <3>4 DEF Aged
    <3>6. claim'[t].left = claim[t].left - 1 /\ claim'[t].owner = claim[t].owner
      BY <1>2, <3>5
    <3>7. exec'[p][t].wait = exec[p][t].wait - 1
      BY <1>4, <3>1 DEF Less
    <3> QED
      BY <1>2, <3>1, <3>2, <3>3, <3>6, <3>7 DEF HeldBy
  <2>5. WorkedIsHeld(t)'
    <3> SUFFICES ASSUME NEW p \in Procs, Working(p, t)' PROVE HeldBy(p, t)'
      BY DEF WorkedIsHeld
    <3>1. Holding(p, t) \/ In(p, t, "sleeping")
      BY <1>4 DEF Working, Holding, In
    <3> QED
      BY <2>3, <2>4, <3>1
  <2>6. SweptIsHeld(t)'
    BY <1>6 DEF SweptIsHeld, NobodySweeps
  <2>7. SleepsUnderClaim(t)'
    BY <1>4, <2>4 DEF SleepsUnderClaim, In
  <2>8. BodyIsUnfinished(t)'
    <3>1. \A p \in Procs : ~(Holding(p, t) /\ ~HeldBy(p, t))
      BY <2>2 DEF Holding, Working
    <3> QED
      BY <1>4, <1>7, <2>1, <3>1 DEF Exclusively, BodyIsUnfinished, InBody, In
  <2>9. AnswerIsBehind(t)'
    BY <1>7, <2>1 DEF Exclusively, AnswerIsBehind
  <2> QED
    BY <2>5, <2>6, <2>7, <2>8, <2>9 DEF Exclusively
<1> QED
  BY <1>12, <1>13, <1>14, <1>15 DEF TaskInv, Known

-----------------------------------------------------------------------------
(* The theorems.                                                           *)

LEMMA InitInv == Init => IInv
<1> SUFFICES ASSUME Init PROVE IInv
  OBVIOUS
<1>1. TypeOK
  BY InitTypes
<1>2. ASSUME NEW t \in Tasks PROVE TaskInv(t)
  <2>1. Free(t) /\ NobodyDrives(t) /\ NobodySweeps(t)
    BY RecoveryAssumption DEF Init, Free, NoClaim, NobodyDrives, NobodySweeps, Driven, Away, NoSweep
  <2>2. Known(t)
    BY <2>1 DEF Init, Known, NotYet, JustCreated, AnswerIsKnown
  <2>3. \A p \in Procs : exec[p][t].stage = "none" /\ ~exec[p][t].lost
    BY DEF Init, Away
  <2>4. Exclusively(t)
    BY <2>1, <2>3 DEF Init, Exclusively, WorkedIsHeld, Working, SweptIsHeld, NobodySweeps, SleepsUnderClaim,
                      BodyIsUnfinished, AnswerIsBehind, In, InBody
  <2> QED
    BY <2>2, <2>4 DEF TaskInv
<1>3. ASSUME NEW p \in Procs PROVE LineInv(p) /\ SweepInv(p)
  <2>1. line[p] = << >> /\ Len(line[p]) = 0
    BY DEF Init
  <2>2. \A t \in Tasks : ~In(p, t, "queued")
    BY DEF Init, In, Away
  <2>3. SweepInv(p)
    BY DEF Init, SweepInv, NoSweep
  <2> QED
    BY <2>1, <2>2, <2>3 DEF LineInv
<1> QED
  BY <1>1, <1>2, <1>3 DEF IInv

LEMMA NextInv ==
    ASSUME IInv, [Next]_vars
    PROVE  IInv'
<1>1. TypeOK /\ (\A t \in Tasks : TaskInv(t)) /\ \A p \in Procs : SweepInv(p)
  BY DEF IInv
<1>2. TypeOK' /\ \A p \in Procs : LineInv(p)' /\ SweepInv(p)'
  BY <1>1, NextTypes, NextLines, NextSweeps
<1>3. CASE UNCHANGED vars
  <2>1. \A t \in Tasks : Untouched(t)
    BY <1>3 DEF vars, Untouched
  <2>2. \A t \in Tasks : TaskInv(t)'
    BY <1>1, <2>1, Frame
  <2> QED
    BY <1>2, <2>2 DEF IInv
<1>4. ASSUME Next PROVE \A t \in Tasks : TaskInv(t)'
  <2>1. ASSUME NEW p \in Procs, NEW t \in Tasks, Triggering(p, t) PROVE \A u \in Tasks : TaskInv(u)'
    BY <2>1, CreateTasks, SendTasks, ReadForResponseTasks, SaveResponseTasks DEF Triggering
  <2> QED
    BY <1>4, <2>1, IteratingTasks, SweepingTasks, ProcessTasks, TickTasks DEF Next
<1>5. CASE Next
  BY <1>2, <1>4, <1>5 DEF IInv
<1> QED
  BY <1>3, <1>5

\* The invariant holds of every reachable state.
THEOREM Inductive == Spec => []IInv
<1>1. Init => IInv
  BY InitInv
<1>2. IInv /\ [Next]_vars => IInv'
  BY NextInv
<1> QED
  BY <1>1, <1>2, PTL DEF Spec

\* The variables hold values of their types.
THEOREM TypeCorrect == Spec => []TypeOK
<1>1. IInv => TypeOK
  BY DEF IInv
<1> QED
  BY <1>1, Inductive, PTL

\* Who runs a task or sleeps on it has its claim, so that TaskExecution's runs and waits are covered
\* by the handler's claim; a task only loses it in line for a slot, to another process, or to its own
\* process's sweep, which is what selfTaken says of it from then on.
THEOREM RunningStaysClaimed == Spec => []RunningIsClaimed
<1>1. IInv => RunningIsClaimed
  BY DEF IInv, TaskInv, Exclusively, WorkedIsHeld, Working, RunningIsClaimed
<1> QED
  BY <1>1, Inductive, PTL

\* Recovery (RecoverTasksHandler) fails no task that some process runs or sleeps on, although a task
\* that waits for its slot may be taken, and failed, by another process.
THEOREM OnlyStoppedAreGivenUp == Spec => []DrivenIsNotGivenUp
<1>1. ASSUME IInv, NEW p \in Procs, NEW q \in Procs, NEW t \in Tasks,
             sweep[p].task = t, sweep[p].step = "failing", ~selfTaken[t]
      PROVE  In(q, t, "none") \/ (In(q, t, "queued") /\ q # p)
  <2>1. TypeOK /\ Exclusively(t)
    BY <1>1 DEF IInv, TaskInv
  <2>2. HeldBy(p, t) /\ In(p, t, "none")
    BY <1>1, <2>1 DEF Exclusively, SweptIsHeld
  <2>3. exec[q][t].stage \in StageNames
    BY <2>1, TypeParts DEF ExecsType, ExecType
  <2>4. Working(q, t) => q = p
    BY <2>1, <2>2, HeldByOne DEF Exclusively, WorkedIsHeld
  <2> QED
    BY <2>2, <2>3, <2>4 DEF StageNames, Working, In
<1>2. IInv => DrivenIsNotGivenUp
  BY <1>1 DEF DrivenIsNotGivenUp
<1> QED
  BY <1>2, Inductive, PTL

\* The trigger's last step, which writes back a record it read before.
AnswersLate(t) == trigger[t].step = "read" /\ trigger'[t].step = "done"

LEMMA SavesKeepFinished ==
    ASSUME IInv, Next, NEW t \in Tasks, rec[t].status \in Finished, ~selfTaken[t]
    PROVE  rec'[t].status \in Finished \/ AnswersLate(t)
<1> DEFINE Kept == rec'[t].status \in Finished \/ AnswersLate(t)
<1>1. TypeOK /\ (\A u \in Tasks : TaskInv(u)) /\ \A p \in Procs : SweepInv(p)
  BY DEF IInv
<1>2. rec[t].status \notin {"none", "pending", "running"}
  BY DEF Finished
<1>3. rec' = rec => Kept
  OBVIOUS
<1>4. ASSUME NEW u \in Tasks, NEW s, NEW n, Save(u, s, n), u = t => s \in Finished
      PROVE  Kept
  BY <1>1, <1>4, SaveDoes
<1>5. ASSUME NEW p \in Procs, NEW u \in Tasks, Triggering(p, u) PROVE Kept
  <2>1. ASSUME NEW d \in Delays, Create(p, u, d) PROVE Kept
    BY <1>1, <1>2, <2>1, TypeParts DEF Create, RecsType
  <2>2. CASE SaveResponse(p, u)
    <3>1. CASE u = t
      BY <1>1, <2>2, <3>1, TypeParts DEF SaveResponse, AnswersLate, Triggered
    <3>2. CASE u # t
      BY <1>4, <2>2, <3>2 DEF SaveResponse
    <3> QED
      BY <3>1, <3>2
  <2> QED
    BY <1>3, <1>5, <2>1, <2>2 DEF Triggering, Send, ReadForResponse
<1>6. ASSUME NEW p \in Procs, Sweeping(p) PROVE Kept
  <2>1. CASE SweepFails(p)
    <3>1. PICK u \in Tasks : u = sweep[p].task
      BY <1>1, <2>1 DEF SweepFails, SweepInv
    <3> QED
      BY <1>4, <2>1, <3>1 DEF SweepFails, Finished
  <2> QED
    BY <1>3, <1>6, <2>1 DEF Sweeping, SweepLists, SweepSkips, SweepTakes, SweepRecords, SweepReleases,
                            SweepThrows
<1>7. ASSUME NEW p \in Procs, NEW u \in Tasks, Iterating(p, u) PROVE Kept
  <2>1. CASE StartsBody(p, u)
    BY <1>2, <1>4, <2>1 DEF StartsBody
  <2>2. CASE ReachesMaxIterations(p, u)
    BY <1>4, <2>2 DEF ReachesMaxIterations, Finished
  <2>3. ASSUME NEW w \in Waits, Continues(p, u, w) PROVE Kept
    <3>1. u # t
      BY <1>1, <2>3 DEF Continues, TaskInv, Exclusively, BodyIsUnfinished
    <3> QED
      BY <1>4, <2>3, <3>1 DEF Continues
  <2>4. ASSUME NEW outcome \in Finished, Finishes(p, u, outcome) PROVE Kept
    BY <1>3, <1>4, <2>4 DEF Finishes
  <2> QED
    BY <1>3, <1>7, <2>1, <2>2, <2>3, <2>4 DEF Iterating, Begin, AnswersDelay, FindsFinished, Wakes
<1>8. ASSUME NEW p \in Procs, Boot(p) \/ Stop(p) \/ Exit(p) PROVE Kept
  BY <1>3, <1>8 DEF Boot, Stop, Exit
<1>9. CASE Tick
  BY <1>3, <1>9 DEF Tick
<1> QED
  BY <1>5, <1>6, <1>7, <1>8, <1>9 DEF Next

\* A recorded outcome stays, though sweeps work through old lists (RecoverTasksHandler) and tasks wait
\* in line past their claims (TaskExecution); only BackgroundTaskService.trigger's late answer undoes it.
THEOREM OutcomeStays == Spec => FinishedStaysFinished
<1> DEFINE Kept == \A t \in Tasks : rec[t].status \in Finished /\ ~selfTaken[t]
                      => rec'[t].status \in Finished \/ (trigger[t].step = "read" /\ trigger'[t].step = "done")
<1>1. ASSUME IInv, [Next]_vars PROVE [Kept]_vars
  BY <1>1, SavesKeepFinished DEF AnswersLate
<1> HIDE DEF Kept
<1>2. Spec => [][Kept]_vars
  BY <1>1, Inductive, PTL DEF Spec
<1> QED
  BY <1>2 DEF FinishedStaysFinished, Kept

-----------------------------------------------------------------------------
(* The refinement: seen as who is in an iteration of what, every step is   *)
(* one of ExclusiveRuns or none.                                           *)

Runs(q, u) == Holding(q, u) /\ ~selfTaken[u]
Runners == [t \in Tasks |-> {p \in Procs : Holding(p, t) /\ ~selfTaken[t]}]

\* What a sweep took from its own process's line stays so.
TakenStays == \A u \in Tasks : selfTaken[u] => selfTaken'[u]

\* Iterations that end leave fewer in one.
LEMMA EndStep ==
    ASSUME \A q \in Procs, u \in Tasks : Runs(q, u)' => Runs(q, u)
    PROVE  Exclusive!Next
<1>1. Runners' \in [Tasks -> SUBSET Procs] /\ \A t \in Tasks : Runners'[t] \subseteq Runners[t]
  BY DEF Runners, Runs
<1> QED
  BY <1>1 DEF Exclusive!Next, Exclusive!End, Runners

\* One execution goes on, to where it holds no claim or from where it did.
LEMMA OneGoesOn ==
    ASSUME NEW p \in Procs, NEW t \in Tasks, OthersGoOn(p, t), Holding(p, t)' => Holding(p, t),
           TakenStays
    PROVE  Exclusive!Next
<1>1. \A q \in Procs, u \in Tasks : Runs(q, u)' => Runs(q, u)
  BY DEF OthersGoOn, Holding, Runs, TakenStays
<1> QED
  BY <1>1, EndStep

LEMMA SameExec ==
    ASSUME exec' = exec, TakenStays
    PROVE  Exclusive!Next
  BY EndStep DEF Holding, Runs, TakenStays

LEMMA StartRefines ==
    ASSUME TypeOK, NEW p \in Procs, NEW t \in Tasks, NEW d, Start(p, t, d), TakenStays
    PROVE  Exclusive!Next
<1>1. OthersGoOn(p, t) /\ (Holding(p, t)' => Holding(p, t))
  BY StartDoes DEF Holding
<1> QED
  BY <1>1, OneGoesOn

\* The first in line is given its slot, and with its claim it is the only one to work on its task.
LEMMA BeginRefines ==
    ASSUME IInv, NEW p \in Procs, NEW t \in Tasks, Begin(p, t)
    PROVE  Exclusive!Next
<1>1. TypeOK /\ TaskInv(t) /\ selfTaken' = selfTaken
  BY DEF IInv, Begin
<1>2. TakenStays
  BY <1>1 DEF TakenStays
<1>3. CASE Leaves(p, t)
  BY <1>1, <1>2, <1>3, LeavesDoes, OneGoesOn DEF Holding, Away
<1>4. CASE (HeldBy(p, t) \/ Free(t)) /\ Stage(p, t, "begun") /\ ~selfTaken[t]
  <2>1. Exclusively(t) /\ In(p, t, "queued") /\ Driven(p, t)
    BY <1>1, <1>4, BeginQueued DEF TaskInv
  <2>2. OnlyMaybe(p, t)
    BY <1>4, <2>1, WorksAlone
  <2>3. exec'[p][t].stage = "begun" /\ OthersGoOn(p, t)
    BY <1>1, <1>4, StageDoes DEF StageNames
  <2>4. \A q \in Procs : ~Holding(q, t)
    BY <2>1, <2>2 DEF OnlyMaybe, Working, Holding, In
  <2>5. \A q \in Procs, u \in Tasks : Holding(q, u)' <=> (q = p /\ u = t) \/ Holding(q, u)
    BY <2>3, <2>4 DEF OthersGoOn, Holding
  <2>6. Runners[t] = {} /\ Runners' = [Runners EXCEPT ![t] = {p}]
    BY <1>1, <1>4, <2>4, <2>5 DEF Runners
  <2>7. Exclusive!Begin(p, t)
    BY <2>6 DEF Exclusive!Begin, Runners
  <2> QED
    BY <2>7 DEF Exclusive!Next
<1>5. CASE Stage(p, t, "begun") /\ selfTaken[t]
  <2>1. OthersGoOn(p, t)
    BY <1>1, <1>5, StageDoes DEF StageNames
  <2>2. \A q \in Procs, u \in Tasks : Runs(q, u)' => Runs(q, u)
    BY <1>1, <1>5, <2>1 DEF OthersGoOn, Holding, Runs
  <2> QED
    BY <2>2, EndStep
<1> QED
  BY <1>3, <1>4, <1>5 DEF Begin

\* An iteration that goes on with another one is over, and no step but Begin starts one.
LEMMA IteratingRefines ==
    ASSUME IInv, NEW p \in Procs, NEW t \in Tasks, Iterating(p, t)
    PROVE  Exclusive!Next
<1>1. TypeOK /\ exec[p][t].delay \in Nat
  <2>1. TypeOK
    BY DEF IInv
  <2> QED
    BY <2>1, TypeParts DEF ExecsType, ExecType
<1>7. selfTaken' = selfTaken
  BY DEF Iterating, Begin, AnswersDelay, FindsFinished, StartsBody, ReachesMaxIterations, Continues, Finishes,
         Wakes
<1>8. TakenStays
  BY <1>7 DEF TakenStays
<1>2. ASSUME NEW w \in Nat, GoesOn(p, t, w) PROVE Exclusive!Next
  <2> DEFINE asleep == [Away EXCEPT !.stage = "sleeping", !.wait = w]
             inLine == [Away EXCEPT !.stage = "queued"]
  <2>1. \/ Leaves(p, t)
        \/ exec' = [exec EXCEPT ![p][t] = asleep]
        \/ exec' = [exec EXCEPT ![p][t] = inLine]
    BY <1>2 DEF GoesOn
  <2>2. Away.stage = "none" /\ asleep.stage = "sleeping" /\ inLine.stage = "queued"
    BY DEF Away
  <2> HIDE DEF asleep, inLine
  <2>3. OthersGoOn(p, t) /\ exec'[p][t] \in {Away, asleep, inLine}
    BY <1>1, <2>1, LeavesDoes, PutDoes
  <2> QED
    BY <1>8, <2>2, <2>3, OneGoesOn DEF Holding
<1>3. ASSUME Ends(p, t) PROVE Exclusive!Next
  <2>1. OthersGoOn(p, t) /\ exec'[p][t].stage = "none"
    BY <1>1, <1>3, LeavesDoes DEF Ends, Away
  <2> QED
    BY <1>8, <2>1, OneGoesOn DEF Holding
<1>4. CASE StartsBody(p, t)
  <2>1. OthersGoOn(p, t) /\ Holding(p, t)
    BY <1>1, <1>4, StageDoes DEF StartsBody, StageNames, In, Holding
  <2> QED
    BY <1>8, <2>1, OneGoesOn
<1>5. CASE Wakes(p, t)
  <2>1. OthersGoOn(p, t) /\ ~Holding(p, t)'
    BY <1>1, <1>5, StageDoes DEF Wakes, StageNames, Holding
  <2> QED
    BY <1>8, <2>1, OneGoesOn
<1>6. \A w \in Waits : w \in Nat
  BY RecoveryAssumption
<1> QED
  BY <1>1, <1>2, <1>3, <1>4, <1>5, <1>6, BeginRefines
     DEF Iterating, AnswersDelay, FindsFinished, ReachesMaxIterations, Continues, Finishes

LEMMA StepRefines ==
    ASSUME IInv, [Next]_vars
    PROVE  Exclusive!Next
<1>1. TypeOK /\ \A p \in Procs : SweepInv(p)
  BY DEF IInv
<1>2. ASSUME NEW p \in Procs, NEW t \in Tasks, Triggering(p, t) PROVE Exclusive!Next
  <2>1. TakenStays
    BY <1>2 DEF Triggering, Create, Send, ReadForResponse, SaveResponse, TakenStays
  <2> QED
    BY <1>1, <1>2, <2>1, SameExec, StartRefines DEF Triggering, Create, Send, ReadForResponse, SaveResponse
<1>3. ASSUME NEW p \in Procs, NEW t \in Tasks, Iterating(p, t) PROVE Exclusive!Next
  BY <1>3, IteratingRefines
<1>4. ASSUME NEW p \in Procs, Sweeping(p) PROVE Exclusive!Next
  <2>1. TakenStays
    <3>1. ASSUME NEW item \in list[p], SweepTakes(p, item) PROVE TakenStays
      <4>1. selfTaken \in [Tasks -> BOOLEAN]
        BY <1>1, TypeParts
      <4>2. selfTaken' = [selfTaken EXCEPT ![item.task] = selfTaken[item.task] \/ ~In(p, item.task, "none")]
        BY <3>1 DEF SweepTakes
      <4> QED
        BY <4>1, <4>2 DEF TakenStays
    <3> QED
      BY <1>4, <3>1 DEF Sweeping, SweepLists, SweepSkips, SweepRecords, SweepFails, SweepReleases, SweepThrows,
                        TakenStays
  <2>2. CASE SweepRecords(p)
    <3>1. PICK t \in Tasks : t = sweep[p].task
      BY <1>1, <2>2 DEF SweepRecords, SweepInv
    <3>2. exec' = exec \/ Start(p, t, 0)
      BY <2>2, <3>1 DEF SweepRecords
    <3> QED
      BY <1>1, <2>1, <3>2, SameExec, StartRefines
  <2> QED
    BY <1>4, <2>1, <2>2, SameExec DEF Sweeping, SweepLists, SweepSkips, SweepTakes, SweepFails, SweepReleases,
                                      SweepThrows
<1>5. ASSUME NEW p \in Procs, Boot(p) \/ Stop(p) \/ Exit(p) PROVE Exclusive!Next
  <2>1. exec \in ExecsType
    BY <1>1, TypeParts
  <2>2. \A q \in Procs, u \in Tasks : exec'[q][u] = exec[q][u] \/ exec'[q][u] = Away
    BY <1>5, <2>1 DEF Boot, Stop, Exit, ExecsType
  <2>3. \A q \in Procs, u \in Tasks : Runs(q, u)' => Runs(q, u)
    BY <1>5, <2>2 DEF Boot, Stop, Exit, Holding, Away, Runs
  <2> QED
    BY <2>3, EndStep
<1>6. CASE Tick
  <2>1. ASSUME NEW q \in Procs, NEW u \in Tasks
        PROVE  exec'[q][u].stage = exec[q][u].stage
    <3>1. exec[q][u] \in ExecType
      BY <1>1, TypeParts DEF ExecsType
    <3>2. exec'[q][u] = [exec[q][u] EXCEPT !.wait = Less(@), !.lost = @ \/ (Holding(q, u) /\ ~HeldBy(q, u))]
      BY <1>6 DEF Tick
    <3> QED
      BY <3>1, <3>2 DEF ExecType
  <2> QED
    BY <1>6, <2>1, EndStep DEF Tick, Holding, Runs
<1>7. CASE UNCHANGED vars
  BY <1>7, SameExec DEF vars, TakenStays
<1> QED
  BY <1>2, <1>3, <1>4, <1>5, <1>6, <1>7 DEF Next

\* Triggered, taken over, crashed and restarted, the tasks implement ExclusiveRuns: an iteration
\* begins only when no other process is in one of the task, and one process is in it until it ends or
\* its own sweep takes the task from its line.
THEOREM TakeoversExcludeOthers == Spec => ImplementsExclusiveRuns
<1>1. Init => Exclusive!Init
  BY DEF Init, Away, Holding, Exclusive!Init
<1>2. IInv /\ [Next]_vars => [Exclusive!Next]_Runners
  BY StepRefines
<1> QED
  BY <1>1, <1>2, Inductive, PTL DEF Spec, ImplementsExclusiveRuns, Exclusive!Spec, Runners
=============================================================================
