----------------------- MODULE ScheduledActions_proofs ------------------------
(***************************************************************************)
(* Proofs about ScheduledActions, for any number of actions and processes, *)
(* any horizon and any bounds: its types, that a run within its claim is   *)
(* the only one of its action and due time, and that this is ExclusiveRuns.*)
(*                                                                         *)
(* The argument: the stored claim lasts at least as long as the run that   *)
(* took it believes (ClaimOutlastsRun).  A claim is taken only where there *)
(* is none, and then no run is covered by one (OneCoveredRun).  Time wears *)
(* both down together, and a run that failed only prolongs the claim, for  *)
(* RunClaim <= RetryAfter.                                                 *)
(***************************************************************************)
EXTENDS ScheduledActions, TLAPS

\* Past its first read a run knows the due time it runs for, and a request that sets a timer knows
\* the time to set.
DuesKnown ==
    /\ \A p \in Procs, s \in Sources :
          runs[p][s] # None =>
             /\ runs[p][s].stage # "read" => runs[p][s].due \in Dues
             /\ runs[p][s].stage = "save" => runs[p][s].seen \in Dues
    /\ \A p \in Procs :
          request[p] # None =>
             (request[p].stage \notin {"unarm", "drop"} => request[p].due \in Dues)

IInv == TypeOK /\ DuesKnown /\ OneCoveredRun /\ ClaimOutlastsRun

USE SchedulerAssumption, NoneIsNoRun

-----------------------------------------------------------------------------
(* Records and updates.                                                    *)

LEMMA RunUpdates ==
    ASSUME NEW r \in Run
    PROVE  /\ r # None
           /\ \A g \in RunStages :
                 LET n == [r EXCEPT !.stage = g]
                 IN  /\ n \in Run /\ n # None /\ n.stage = g
                     /\ n.action = r.action /\ n.due = r.due
                     /\ n.left = r.left /\ n.seen = r.seen
           /\ LET n == [r EXCEPT !.left = Lapse(@)]
              IN  /\ n \in Run /\ n # None /\ n.stage = r.stage
                  /\ n.action = r.action /\ n.due = r.due
                  /\ n.left = Lapse(r.left) /\ n.seen = r.seen
  BY DEF Run, Lapse, RunStages

LEMMA NewRuns ==
    ASSUME NEW a \in Actions
    PROVE  NewRun(a) \in Run /\ NewRun(a).stage = "read"
  BY DEF NewRun, Run, RunStages

\* A step that changes one run.
LEMMA OneRunChanges ==
    ASSUME runs \in [Procs -> [Sources -> Run \cup {None}]],
           NEW p \in Procs, NEW s \in Sources, NEW r \in Run \cup {None},
           runs' = [runs EXCEPT ![p][s] = r]
    PROVE  /\ runs' \in [Procs -> [Sources -> Run \cup {None}]]
           /\ runs'[p][s] = r
           /\ \A q \in Procs, t \in Sources :
                 <<q, t>> # <<p, s>> => runs'[q][t] = runs[q][t]
  OBVIOUS

\* A step that covers no run anew leaves the covered ones apart, if it leaves them their claims.
LEMMA NothingCovered ==
    ASSUME OneCoveredRun,
           \A p \in Procs, s \in Sources, a \in Actions, d \in Dues :
              Covered(p, s, a, d)' => Covered(p, s, a, d) /\ claim'[a][d] >= runs'[p][s].left
    PROVE  OneCoveredRun' /\ ClaimOutlastsRun'
  BY DEF OneCoveredRun, ClaimOutlastsRun

-----------------------------------------------------------------------------
(* The steps of a run.                                                     *)

\* One run goes to r, and the claims and the processes stay as they are.
RunBecomes(p, s, r) ==
    /\ runs' = [runs EXCEPT ![p][s] = r]
    /\ UNCHANGED <<clock, process, sweep, request>>

\* r knows its dues, and is under a claim only if the run it follows was, and then under the same.
Follows(p, s, r) ==
    r # None =>
       /\ r.stage # "read" => r.due \in Dues
       /\ r.stage = "save" => r.seen \in Dues
       /\ r.stage \in Claimed =>
             /\ runs[p][s] # None /\ runs[p][s].stage \in Claimed
             /\ r.action = runs[p][s].action /\ r.due = runs[p][s].due
             /\ r.left = runs[p][s].left

NoNewCover ==
    \A p \in Procs, s \in Sources, a \in Actions, d \in Dues :
       Covered(p, s, a, d)' => Covered(p, s, a, d)

LEMMA RunBecomesSafe ==
    ASSUME IInv, NEW p \in Procs, NEW s \in Sources, NEW r \in Run \cup {None},
           RunBecomes(p, s, r), UNCHANGED claim, Follows(p, s, r),
           entry' \in [Actions -> Dues \cup {None}],
           used' \in [requests : Nat, faults : Nat]
    PROVE  IInv' /\ NoNewCover
<1>1. /\ runs' \in [Procs -> [Sources -> Run \cup {None}]]
      /\ runs'[p][s] = r
      /\ \A q \in Procs, t \in Sources : <<q, t>> # <<p, s>> => runs'[q][t] = runs[q][t]
  BY OneRunChanges DEF IInv, TypeOK, RunBecomes
<1>2. TypeOK'
  BY <1>1 DEF IInv, TypeOK, RunBecomes, clock, process
<1>3. DuesKnown'
  BY <1>1 DEF IInv, DuesKnown, RunBecomes, Follows
<1>4. \A q \in Procs, t \in Sources, a \in Actions, d \in Dues :
         Covered(q, t, a, d)' => Covered(q, t, a, d) /\ claim'[a][d] >= runs'[q][t].left
  <2>1. ASSUME NEW q \in Procs, NEW t \in Sources, NEW a \in Actions, NEW d \in Dues,
               Covered(q, t, a, d)'
        PROVE  Covered(q, t, a, d) /\ runs'[q][t].left = runs[q][t].left
    <3>1. CASE <<q, t>> = <<p, s>>
      BY <1>1, <2>1, <3>1 DEF Covered, Follows
    <3>2. CASE <<q, t>> # <<p, s>>
      BY <1>1, <2>1, <3>2 DEF Covered
    <3> QED
      BY <3>1, <3>2
  <2> QED
    BY <2>1 DEF IInv, ClaimOutlastsRun
<1> QED
  BY <1>2, <1>3, <1>4, NothingCovered DEF IInv, NoNewCover

\* The steps of a run that leave the claims alone.
LEMMA QuietRunStep ==
    ASSUME IInv, NEW p \in Procs, NEW s \in Sources,
           \/ ReadDue(p, s) \/ LoadAction(p, s) \/ Handled(p, s) \/ HandlerFails(p, s)
           \/ DeleteEntry(p, s) \/ DeleteFails(p, s) \/ ReadToBlame(p, s) \/ SaveError(p, s)
    PROVE  IInv' /\ NoNewCover
<1> DEFINE o == runs[p][s]
           Step(r) == RunBecomes(p, s, r) /\ UNCHANGED claim /\ Follows(p, s, r)
<1>1. o \in Run /\ o # None /\ o.action \in Actions /\ TypeOK /\ DuesKnown
  BY DEF ReadDue, LoadAction, Handled, HandlerFails, DeleteEntry, DeleteFails, ReadToBlame,
         SaveError, At, IInv, TypeOK, Run
<1>2. entry[o.action] \in Dues \cup {None}
  BY <1>1 DEF TypeOK
<1>3. Follows(p, s, None)
  BY DEF Follows
<1>4. \E r \in Run \cup {None} : Step(r)
  <2>1. CASE ReadDue(p, s)
    <3>1. CASE entry[o.action] # None /\ entry[o.action] <= now + Early
      <4> DEFINE r == [o EXCEPT !.stage = "claim", !.due = entry[o.action]]
      <4>1. r \in Run /\ r.stage = "claim" /\ r.due \in Dues
        BY <1>1, <1>2, <3>1 DEF Run, RunStages
      <4>2. runs' = [runs EXCEPT ![p][s] = r]
        BY <2>1, <3>1 DEF ReadDue
      <4> HIDE DEF r
      <4>3. Step(r)
        BY <2>1, <4>1, <4>2 DEF ReadDue, RunBecomes, Follows, Claimed
      <4> QED
        BY <4>1, <4>3
    <3>2. CASE ~(entry[o.action] # None /\ entry[o.action] <= now + Early)
      BY <1>3, <2>1, <3>2 DEF ReadDue, RunBecomes, Ends
    <3> QED
      BY <3>1, <3>2
  <2>2. ASSUME NEW g \in Claimed, Goes(p, s, g), o.stage \in Claimed, g # "save",
               UNCHANGED <<clock, claim, process, sweep, request>>
        PROVE  \E r \in Run \cup {None} : Step(r)
    <3> DEFINE r == [o EXCEPT !.stage = g]
    <3>1. /\ r \in Run /\ r.stage = g
          /\ r.action = o.action /\ r.due = o.due /\ r.left = o.left
      BY <1>1, RunUpdates DEF Claimed
    <3>2. o.due \in Dues
      BY <1>1, <2>2 DEF DuesKnown, Claimed
    <3>3. runs' = [runs EXCEPT ![p][s] = r]
      BY <2>2 DEF Goes
    <3> HIDE DEF r
    <3>4. Step(r)
      BY <1>1, <2>2, <3>1, <3>2, <3>3 DEF RunBecomes, Follows
    <3> QED
      BY <3>1, <3>4
  <2>3. CASE LoadAction(p, s) \/ Handled(p, s) \/ HandlerFails(p, s)
    BY <2>2, <2>3 DEF LoadAction, Handled, HandlerFails, At, Claimed, RunStages
  <2>4. CASE DeleteFails(p, s)
    BY <2>2, <2>4 DEF DeleteFails, At, Claimed, RunStages
  <2>5. CASE DeleteEntry(p, s)
    <3>1. CASE Scheduled(o.action)
      BY <1>3, <2>5, <3>1 DEF DeleteEntry, RunBecomes, Ends
    <3>2. CASE ~Scheduled(o.action)
      BY <2>2, <2>5, <3>2 DEF DeleteEntry, At, Claimed, RunStages
    <3> QED
      BY <3>1, <3>2
  <2>6. CASE ReadToBlame(p, s)
    <3>1. CASE entry[o.action] # None
      <4> DEFINE r == [o EXCEPT !.stage = "save", !.seen = entry[o.action]]
      <4>1. /\ r \in Run /\ r.stage = "save" /\ r.seen \in Dues
            /\ r.action = o.action /\ r.due = o.due /\ r.left = o.left
        BY <1>1, <1>2, <3>1 DEF Run, RunStages
      <4>2. runs' = [runs EXCEPT ![p][s] = r]
        BY <2>6, <3>1 DEF ReadToBlame
      <4>3. o.stage \in Claimed /\ o.due \in Dues
        BY <1>1, <2>6 DEF ReadToBlame, At, DuesKnown, Claimed, RunStages
      <4> HIDE DEF r
      <4>4. Step(r)
        BY <1>1, <2>6, <4>1, <4>2, <4>3 DEF ReadToBlame, RunBecomes, Follows
      <4> QED
        BY <4>1, <4>4
    <3>2. CASE entry[o.action] = None
      BY <2>2, <2>6, <3>2 DEF ReadToBlame, At, Claimed, RunStages
    <3> QED
      BY <3>1, <3>2
  <2>7. CASE SaveError(p, s)
    <3> DEFINE r == [o EXCEPT !.stage = "hold", !.seen = None]
    <3>1. /\ r \in Run /\ r.stage = "hold"
          /\ r.action = o.action /\ r.due = o.due /\ r.left = o.left
      BY <1>1 DEF Run, RunStages
    <3>2. runs' = [runs EXCEPT ![p][s] = r]
      BY <2>7 DEF SaveError
    <3>3. o.stage \in Claimed /\ o.due \in Dues
      BY <1>1, <2>7 DEF SaveError, At, DuesKnown, Claimed, RunStages
    <3> HIDE DEF r
    <3>4. Step(r)
      BY <1>1, <2>7, <3>1, <3>2, <3>3 DEF SaveError, RunBecomes, Follows
    <3> QED
      BY <3>1, <3>4
  <2> QED
    BY <2>1, <2>3, <2>4, <2>5, <2>6, <2>7
<1>5. entry' \in [Actions -> Dues \cup {None}]
  <2>1. CASE SaveError(p, s)
    <3>1. o.seen \in Dues
      BY <1>1, <2>1 DEF SaveError, At, DuesKnown
    <3> QED
      BY <1>1, <2>1, <3>1 DEF SaveError, TypeOK
  <2>2. CASE ~SaveError(p, s)
    BY <1>1, <2>2 DEF TypeOK, ReadDue, LoadAction, Handled, HandlerFails, DeleteEntry, DeleteFails,
                      ReadToBlame
  <2> QED
    BY <2>1, <2>2
<1>6. used' \in [requests : Nat, faults : Nat]
  <2>1. CASE HandlerFails(p, s) \/ DeleteFails(p, s)
    <3>1. used' = [used EXCEPT !.faults = @ + 1]
      BY <2>1 DEF HandlerFails, DeleteFails
    <3>2. used \in [requests : Nat, faults : Nat] /\ used.faults + 1 \in Nat
      BY <1>1 DEF TypeOK
    <3> QED
      BY <3>1, <3>2
  <2>2. CASE ~HandlerFails(p, s) /\ ~DeleteFails(p, s)
    <3>1. UNCHANGED used
      BY <2>2 DEF ReadDue, LoadAction, Handled, DeleteEntry, ReadToBlame, SaveError
    <3> QED
      BY <1>1, <3>1 DEF TypeOK
  <2> QED
    BY <2>1, <2>2
<1> QED
  BY <1>4, <1>5, <1>6, RunBecomesSafe

\* p and s take the claim on a at d, and nothing else about covered runs changes.
Begins(p, s, a, d) ==
    /\ \A q \in Procs, t \in Sources : ~Covered(q, t, a, d)
    /\ \A q \in Procs, t \in Sources, b \in Actions, e \in Dues :
          Covered(q, t, b, e)' <=> Covered(q, t, b, e) \/ (q = p /\ t = s /\ b = a /\ e = d)

LEMMA TakeClaimStep ==
    ASSUME IInv, NEW p \in Procs, NEW s \in Sources, TakeClaim(p, s)
    PROVE  IInv' /\ (NoNewCover \/ \E a \in Actions, d \in Dues : Begins(p, s, a, d))
<1> DEFINE o == runs[p][s]
           a == o.action
           d == o.due
           r == [o EXCEPT !.stage = "load", !.left = RunClaim]
<1>1. /\ o \in Run /\ o # None /\ o.stage = "claim"
      /\ a \in Actions /\ d \in Dues /\ TypeOK
  BY DEF TakeClaim, At, IInv, TypeOK, DuesKnown, Run
<1>2. CASE claim[a][d] = 0
  <2>1. /\ r \in Run /\ r # None /\ r.stage = "load"
        /\ r.action = a /\ r.due = d /\ r.left = RunClaim
    <3>1. RunClaim \in 0..RunClaim /\ "load" \in RunStages
      BY DEF RunStages
    <3> QED
      BY <1>1, <3>1 DEF Run
  <2>2. claim' = [claim EXCEPT ![a][d] = RunClaim]
    BY <1>2 DEF TakeClaim
  <2>3. /\ claim' \in [Actions -> [Dues -> Nat]]
        /\ claim'[a][d] = RunClaim
        /\ \A b \in Actions, e \in Dues : (b # a \/ e # d) => claim'[b][e] = claim[b][e]
    BY <1>1, <2>2 DEF TypeOK
  <2>4. RunBecomes(p, s, r)
    BY <1>2 DEF TakeClaim, RunBecomes
  <2> HIDE DEF r
  <2>5. /\ runs' \in [Procs -> [Sources -> Run \cup {None}]]
        /\ runs'[p][s] = r
        /\ \A q \in Procs, t \in Sources : <<q, t>> # <<p, s>> => runs'[q][t] = runs[q][t]
    BY <1>1, <2>1, <2>4, OneRunChanges DEF TypeOK, RunBecomes
  <2>6. \A q \in Procs, t \in Sources : ~Covered(q, t, a, d)
    <3>1. ASSUME NEW q \in Procs, NEW t \in Sources, Covered(q, t, a, d)
          PROVE  FALSE
      <4>1. claim[a][d] >= runs[q][t].left /\ runs[q][t].left > 0
        BY <1>1, <3>1 DEF IInv, ClaimOutlastsRun, Covered
      <4>2. runs[q][t].left \in Nat
        <5>1. runs[q][t] \in Run
          BY <1>1, <3>1 DEF TypeOK, Covered
        <5> QED
          BY <5>1 DEF Run
      <4> QED
        BY <1>2, <4>1, <4>2
    <3> QED
      BY <3>1
  <2>7. \A q \in Procs, t \in Sources, b \in Actions, e \in Dues :
          Covered(q, t, b, e)' <=> Covered(q, t, b, e) \/ (q = p /\ t = s /\ b = a /\ e = d)
    <3>1. ASSUME NEW q \in Procs, NEW t \in Sources, NEW b \in Actions, NEW e \in Dues
          PROVE  Covered(q, t, b, e)' <=>
                    Covered(q, t, b, e) \/ (q = p /\ t = s /\ b = a /\ e = d)
      <4>1. CASE q = p /\ t = s
        BY <1>1, <2>1, <2>5, <4>1 DEF Covered, Claimed, RunStages
      <4>2. CASE <<q, t>> # <<p, s>>
        BY <2>5, <4>2 DEF Covered
      <4> QED
        BY <4>1, <4>2
    <3> QED
      BY <3>1
  <2>8. Begins(p, s, a, d)
    BY <2>6, <2>7 DEF Begins
  <2>9. TypeOK'
    BY <1>1, <2>3, <2>4, <2>5 DEF TakeClaim, TypeOK, RunBecomes, clock, process
  <2>10. DuesKnown'
    BY <1>1, <2>1, <2>4, <2>5 DEF IInv, DuesKnown, RunBecomes
  <2>11. OneCoveredRun'
    BY <2>6, <2>7 DEF IInv, OneCoveredRun
  <2>12. ClaimOutlastsRun'
    <3>1. ASSUME NEW b \in Actions, NEW e \in Dues, NEW q \in Procs, NEW t \in Sources,
                 Covered(q, t, b, e)'
          PROVE  claim'[b][e] >= runs'[q][t].left
      <4>1. CASE b = a /\ e = d
        BY <2>1, <2>3, <2>5, <2>6, <2>7, <3>1, <4>1
      <4>2. CASE ~(b = a /\ e = d)
        <5>1. Covered(q, t, b, e) /\ claim'[b][e] = claim[b][e]
          BY <2>3, <2>7, <3>1, <4>2
        <5>2. <<q, t>> # <<p, s>>
          BY <1>1, <5>1 DEF Covered, Claimed
        <5> QED
          BY <2>5, <5>1, <5>2 DEF IInv, ClaimOutlastsRun
      <4> QED
        BY <4>1, <4>2
    <3> QED
      BY <3>1 DEF ClaimOutlastsRun
  <2> QED
    BY <1>1, <2>8, <2>9, <2>10, <2>11, <2>12 DEF IInv
<1>3. CASE claim[a][d] # 0
  <2>1. RunBecomes(p, s, None) /\ UNCHANGED <<claim, entry, used>>
    BY <1>3 DEF TakeClaim, RunBecomes, Ends
  <2>2. Follows(p, s, None)
    BY DEF Follows
  <2>3. /\ entry' \in [Actions -> Dues \cup {None}]
        /\ used' \in [requests : Nat, faults : Nat]
    BY <1>1, <2>1 DEF TypeOK
  <2> QED
    BY <2>1, <2>2, <2>3, RunBecomesSafe
<1> QED
  BY <1>2, <1>3

\* A run that failed prolongs the claim on its action and due time, whoever's it is.
LEMMA HoldStep ==
    ASSUME IInv, NEW p \in Procs, NEW s \in Sources, HoldAfterFailure(p, s)
    PROVE  IInv' /\ NoNewCover
<1> DEFINE a == runs[p][s].action
           d == runs[p][s].due
<1>1. a \in Actions /\ d \in Dues /\ TypeOK
  BY DEF HoldAfterFailure, At, IInv, TypeOK, DuesKnown, Run
<1>2. claim' = [claim EXCEPT ![a][d] = RetryAfter]
  BY DEF HoldAfterFailure
<1>3. /\ claim' \in [Actions -> [Dues -> Nat]]
      /\ claim'[a][d] = RetryAfter
      /\ \A b \in Actions, e \in Dues : (b # a \/ e # d) => claim'[b][e] = claim[b][e]
  BY <1>1, <1>2 DEF TypeOK
<1>4. RunBecomes(p, s, None)
  BY DEF HoldAfterFailure, RunBecomes, Ends
<1>5. /\ runs' \in [Procs -> [Sources -> Run \cup {None}]]
      /\ runs'[p][s] = None
      /\ \A q \in Procs, t \in Sources : <<q, t>> # <<p, s>> => runs'[q][t] = runs[q][t]
  BY <1>1, <1>4, OneRunChanges DEF TypeOK, RunBecomes
<1>6. ASSUME NEW q \in Procs, NEW t \in Sources, NEW b \in Actions, NEW e \in Dues,
             Covered(q, t, b, e)'
      PROVE  Covered(q, t, b, e) /\ claim'[b][e] >= runs'[q][t].left
  <2>1. runs'[q][t] = runs[q][t] /\ Covered(q, t, b, e)
    BY <1>5, <1>6 DEF Covered
  <2>2. claim[b][e] >= runs[q][t].left
    BY <2>1 DEF IInv, ClaimOutlastsRun
  <2>3. runs[q][t].left \in 0..RunClaim
    <3>1. runs[q][t] \in Run
      BY <1>1, <2>1 DEF TypeOK, Covered
    <3> QED
      BY <3>1 DEF Run
  <2> QED
    BY <1>3, <2>1, <2>2, <2>3
<1>7. TypeOK'
  BY <1>1, <1>3, <1>4, <1>5 DEF HoldAfterFailure, TypeOK, RunBecomes, clock, process
<1>8. DuesKnown'
  BY <1>4, <1>5 DEF IInv, DuesKnown, RunBecomes
<1>9. NoNewCover
  BY <1>6 DEF NoNewCover
<1> QED
  BY <1>6, <1>7, <1>8, <1>9, NothingCovered DEF IInv

-----------------------------------------------------------------------------
(* The clock.                                                              *)

LEMMA TickStep ==
    ASSUME IInv, Tick
    PROVE  IInv' /\ NoNewCover
<1>1. TypeOK
  BY DEF IInv
<1>2. \A q \in Procs, t \in Sources :
         runs'[q][t] = IF runs[q][t] = None THEN None
                       ELSE [runs[q][t] EXCEPT !.left = Lapse(@)]
  BY DEF Tick
<1>3. ASSUME NEW q \in Procs, NEW t \in Sources
      PROVE  /\ runs'[q][t] = None <=> runs[q][t] = None
             /\ runs'[q][t] \in Run \cup {None}
             /\ runs[q][t] # None =>
                   /\ runs[q][t] \in Run
                   /\ runs'[q][t].stage = runs[q][t].stage
                   /\ runs'[q][t].action = runs[q][t].action
                   /\ runs'[q][t].due = runs[q][t].due
                   /\ runs'[q][t].seen = runs[q][t].seen
                   /\ runs'[q][t].left = Lapse(runs[q][t].left)
  <2>1. CASE runs[q][t] = None
    BY <1>2, <2>1
  <2>2. CASE runs[q][t] # None
    <3>1. runs[q][t] \in Run
      BY <1>1, <2>2 DEF TypeOK
    <3>2. runs'[q][t] = [runs[q][t] EXCEPT !.left = Lapse(@)]
      BY <1>2, <2>2
    <3> QED
      BY <2>2, <3>1, <3>2, RunUpdates
  <2> QED
    BY <2>1, <2>2
<1>4. \A b \in Actions, e \in Dues :
         claim'[b][e] = Lapse(claim[b][e]) /\ claim[b][e] \in Nat
  BY <1>1 DEF Tick, TypeOK
<1>5. claim' \in [Actions -> [Dues -> Nat]]
  <2>1. \A n \in Nat : Lapse(n) \in Nat
    BY DEF Lapse
  <2> QED
    BY <1>1, <2>1 DEF Tick, TypeOK
<1>6. runs' \in [Procs -> [Sources -> Run \cup {None}]]
  BY <1>3 DEF Tick
<1>7. now' \in 0..Horizon
  BY <1>1 DEF Tick, TypeOK
<1>8. TypeOK'
  BY <1>1, <1>5, <1>6, <1>7 DEF Tick, TypeOK, process
<1>9. DuesKnown'
  BY <1>3 DEF Tick, IInv, DuesKnown
<1>10. ASSUME NEW q \in Procs, NEW t \in Sources, NEW b \in Actions, NEW e \in Dues,
              Covered(q, t, b, e)'
       PROVE  Covered(q, t, b, e) /\ claim'[b][e] >= runs'[q][t].left
  <2>1. /\ runs[q][t] # None /\ runs[q][t] \in Run
        /\ runs[q][t].stage \in Claimed
        /\ runs[q][t].action = b /\ runs[q][t].due = e
        /\ runs'[q][t].left = Lapse(runs[q][t].left) /\ runs'[q][t].left > 0
    BY <1>3, <1>10 DEF Covered
  <2>2. runs[q][t].left \in Nat
    BY <2>1 DEF Run
  <2>3. runs[q][t].left > 0
    BY <2>1, <2>2 DEF Lapse
  <2>4. Covered(q, t, b, e)
    BY <2>1, <2>3 DEF Covered
  <2>5. claim[b][e] >= runs[q][t].left
    BY <2>4 DEF IInv, ClaimOutlastsRun
  <2>6. claim'[b][e] = Lapse(claim[b][e]) /\ claim[b][e] \in Nat
    BY <1>4
  <2>7. Lapse(claim[b][e]) >= Lapse(runs[q][t].left)
    BY <2>2, <2>3, <2>5, <2>6 DEF Lapse
  <2> QED
    BY <2>1, <2>4, <2>6, <2>7
<1>11. NoNewCover
  BY <1>10 DEF NoNewCover
<1> QED
  BY <1>8, <1>9, <1>10, <1>11, NothingCovered DEF IInv

-----------------------------------------------------------------------------
(* Everything else leaves the claims alone, and at most starts or drops runs. *)

LEMMA OtherRunsSafe ==
    ASSUME IInv, UNCHANGED claim,
           runs' \in [Procs -> [Sources -> Run \cup {None}]],
           \A q \in Procs, t \in Sources :
              \/ runs'[q][t] = runs[q][t]
              \/ runs'[q][t] = None
              \/ runs'[q][t] # None /\ runs'[q][t].stage = "read"
    PROVE  /\ OneCoveredRun' /\ ClaimOutlastsRun' /\ NoNewCover
           /\ \A p \in Procs, s \in Sources :
                 runs'[p][s] # None =>
                    /\ runs'[p][s].stage # "read" => runs'[p][s].due \in Dues
                    /\ runs'[p][s].stage = "save" => runs'[p][s].seen \in Dues
<1>1. \A q \in Procs, t \in Sources, a \in Actions, d \in Dues :
         Covered(q, t, a, d)' => Covered(q, t, a, d) /\ runs'[q][t] = runs[q][t]
  BY DEF Covered, Claimed
<1>2. \A q \in Procs, t \in Sources, a \in Actions, d \in Dues :
         Covered(q, t, a, d)' => Covered(q, t, a, d) /\ claim'[a][d] >= runs'[q][t].left
  BY <1>1 DEF IInv, ClaimOutlastsRun
<1> QED
  BY <1>1, <1>2, NothingCovered DEF IInv, DuesKnown, NoNewCover

\* A run is started in one place.
LEMMA TriggerSafe ==
    ASSUME TypeOK, NEW p \in Procs, NEW s \in Sources, NEW a \in Actions, Trigger(p, s, a)
    PROVE  /\ runs' \in [Procs -> [Sources -> Run \cup {None}]]
           /\ \A q \in Procs, t \in Sources :
                 \/ runs'[q][t] = runs[q][t]
                 \/ runs'[q][t] # None /\ runs'[q][t].stage = "read"
<1>1. CASE stopped[p]
  BY <1>1 DEF Trigger, TypeOK
<1>2. CASE ~stopped[p]
  <2>1. NewRun(a) \in Run /\ NewRun(a).stage = "read" /\ NewRun(a) # None
    BY NewRuns
  <2>2. runs' = [runs EXCEPT ![p][s] = NewRun(a)]
    BY <1>2 DEF Trigger
  <2> QED
    BY <2>1, <2>2, OneRunChanges DEF TypeOK
<1> QED
  BY <1>1, <1>2

Armed == [Procs -> [Actions -> Dues \cup {None}]]

LEMMA TimersTyped ==
    ASSUME NEW f \in Armed, NEW p \in Procs, NEW a \in Actions
    PROVE  /\ Removed(f, p, a) \in Armed
           /\ \A d \in Dues : [f EXCEPT ![p][a] = d] \in Armed
  BY DEF Removed, Armed

LEMMA ArmTyped ==
    ASSUME TypeOK, NEW p \in Procs, NEW a \in Actions, NEW d \in Dues, NEW ok, Arm(p, a, d, ok)
    PROVE  jobs' \in Armed /\ timers' \in Armed
<1>1. jobs \in Armed /\ timers \in Armed
  BY DEF TypeOK, Armed
<1>2. /\ [jobs EXCEPT ![p][a] = d] \in Armed
      /\ [timers EXCEPT ![p][a] = d] \in Armed
  BY <1>1, TimersTyped
<1> QED
  BY <1>1, <1>2 DEF Arm

\* The due time of a request that sets a timer.
KnowsItsDue(r) == r # None => (r.stage \notin {"unarm", "drop"} => r.due \in Dues)

LEMMA RequestBecomes ==
    ASSUME IInv, NEW p \in Procs, NEW r \in Request \cup {None}, KnowsItsDue(r),
           request' = [request EXCEPT ![p] = r]
    PROVE  /\ request' \in [Procs -> Request \cup {None}]
           /\ \A q \in Procs : KnowsItsDue(request'[q])
<1>1. request \in [Procs -> Request \cup {None}] /\ \A q \in Procs : KnowsItsDue(request[q])
  BY DEF IInv, TypeOK, DuesKnown, KnowsItsDue
<1>2. \A q \in Procs : request'[q] = IF q = p THEN r ELSE request[q]
  BY <1>1
<1> QED
  BY <1>1, <1>2

LEMMA Answers ==
    ASSUME IInv, NEW p \in Procs, Answered(p)
    PROVE  /\ request' \in [Procs -> Request \cup {None}]
           /\ \A q \in Procs : KnowsItsDue(request'[q])
  BY RequestBecomes DEF Answered, KnowsItsDue

LEMMA CarriesOn ==
    ASSUME IInv, NEW p \in Procs, request[p] # None, NEW g \in RequestStages, Continues(p, g),
           request[p].stage \in {"unarm", "drop"} => g \in {"unarm", "drop"}
    PROVE  /\ request' \in [Procs -> Request \cup {None}]
           /\ \A q \in Procs : KnowsItsDue(request'[q])
<1> DEFINE r == [request[p] EXCEPT !.stage = g]
<1>1. request[p] \in Request
  BY DEF IInv, TypeOK
<1>2. r \in Request /\ r.stage = g /\ r.due = request[p].due
  BY <1>1 DEF Request
<1>3. KnowsItsDue(r)
  BY <1>2 DEF IInv, DuesKnown, KnowsItsDue
<1>4. request' = [request EXCEPT ![p] = r]
  BY DEF Continues
<1> HIDE DEF r
<1> QED
  BY <1>2, <1>3, <1>4, RequestBecomes

\* A step outside the runs keeps the invariant if it keeps its part of it.
LEMMA OtherSafe ==
    ASSUME IInv, UNCHANGED claim,
           runs' \in [Procs -> [Sources -> Run \cup {None}]],
           \A q \in Procs, t \in Sources :
              \/ runs'[q][t] = runs[q][t]
              \/ runs'[q][t] = None
              \/ runs'[q][t] # None /\ runs'[q][t].stage = "read",
           now' = now,
           entry' \in [Actions -> Dues \cup {None}],
           jobs' \in Armed, timers' \in Armed,
           fired' \in [Procs -> SUBSET Actions],
           sweep' \in [Procs -> Pending \cup {None}],
           request' \in [Procs -> Request \cup {None}],
           \A q \in Procs : KnowsItsDue(request'[q]),
           stopped' \in [Procs -> BOOLEAN],
           used' \in [requests : Nat, faults : Nat]
    PROVE  IInv' /\ NoNewCover
<1>1. /\ OneCoveredRun' /\ ClaimOutlastsRun' /\ NoNewCover
      /\ \A p \in Procs, s \in Sources :
            runs'[p][s] # None =>
               /\ runs'[p][s].stage # "read" => runs'[p][s].due \in Dues
               /\ runs'[p][s].stage = "save" => runs'[p][s].seen \in Dues
  BY OtherRunsSafe
<1>2. TypeOK'
  BY DEF IInv, TypeOK, Armed
<1>3. DuesKnown'
  BY <1>1 DEF DuesKnown, KnowsItsDue
<1> QED
  BY <1>1, <1>2, <1>3 DEF IInv

\* What there is to start from.
LEMMA Before ==
    ASSUME IInv
    PROVE  /\ TypeOK
           /\ runs \in [Procs -> [Sources -> Run \cup {None}]]
           /\ now \in Int
           /\ entry \in [Actions -> Dues \cup {None}]
           /\ jobs \in Armed /\ timers \in Armed
           /\ fired \in [Procs -> SUBSET Actions]
           /\ sweep \in [Procs -> Pending \cup {None}]
           /\ request \in [Procs -> Request \cup {None}]
           /\ \A q \in Procs : KnowsItsDue(request[q])
           /\ stopped \in [Procs -> BOOLEAN]
           /\ used \in [requests : Nat, faults : Nat]
           /\ [used EXCEPT !.requests = @ + 1] \in [requests : Nat, faults : Nat]
           /\ [used EXCEPT !.faults = @ + 1] \in [requests : Nat, faults : Nat]
<1>1. TypeOK
  BY DEF IInv
<1>2. used \in [requests : Nat, faults : Nat]
  BY <1>1 DEF TypeOK
<1>3. used.requests + 1 \in Nat /\ used.faults + 1 \in Nat
  BY <1>2
<1>4. /\ [used EXCEPT !.requests = @ + 1] \in [requests : Nat, faults : Nat]
      /\ [used EXCEPT !.faults = @ + 1] \in [requests : Nat, faults : Nat]
  BY <1>2, <1>3
<1>5. now \in Int
  BY <1>1 DEF TypeOK
<1>6. \A q \in Procs : KnowsItsDue(request[q])
  BY DEF IInv, DuesKnown, KnowsItsDue
<1> QED
  BY <1>1, <1>4, <1>5, <1>6 DEF TypeOK, Armed

LEMMA SweepStepSafe ==
    ASSUME IInv, NEW p \in Procs, StartSweep(p) \/ SweepStep(p)
    PROVE  IInv' /\ NoNewCover
<1>1. CASE StartSweep(p)
  <2> DEFINE w == [overdue |-> {a \in Actions : Scheduled(a) /\ Overdue(entry[a], now)},
                   upcoming |-> {i \in Actions \X Dues :
                                   entry[i[1]] = i[2] /\ ~Overdue(i[2], now)},
                   moved |-> {}]
  <2>1. w \in Pending
    BY DEF Pending
  <2>2. sweep' = [sweep EXCEPT ![p] = w]
    BY <1>1 DEF StartSweep
  <2> HIDE DEF w
  <2>3. sweep' \in [Procs -> Pending \cup {None}]
    BY <2>1, <2>2, Before
  <2> QED
    BY <1>1, <2>3, Before, OtherSafe DEF StartSweep, clock, process
<1>2. ASSUME NEW a \in Actions, SweepOverdue(p, a)
      PROVE  IInv' /\ NoNewCover
  <2>1. sweep[p] \in Pending
    BY <1>2, Before DEF SweepOverdue, LooksOn, Sweeping
  <2>2. [sweep[p] EXCEPT !.overdue = @ \ {a}] \in Pending
    BY <2>1 DEF Pending
  <2>3. sweep' = [sweep EXCEPT ![p] = [sweep[p] EXCEPT !.overdue = @ \ {a}]]
    BY <1>2 DEF SweepOverdue
  <2>4. sweep' \in [Procs -> Pending \cup {None}]
    BY <2>2, <2>3, Before
  <2>5. "recovery" \in Sources /\ Trigger(p, "recovery", a)
    BY <1>2 DEF SweepOverdue, Sources
  <2> QED
    BY <1>2, <2>4, <2>5, Before, TriggerSafe, OtherSafe DEF SweepOverdue, clock, process
<1>3. ASSUME NEW a \in Actions, NEW d \in Dues, SweepUpcoming(p, a, d) \/ SweepMoved(p, a, d)
      PROVE  IInv' /\ NoNewCover
  <2>1. sweep[p] \in Pending
    BY <1>3, Before DEF SweepUpcoming, SweepMoved, LooksOn, Sweeping
  <2>2. /\ [sweep[p] EXCEPT !.upcoming = @ \ {<<a, d>>}] \in Pending
        /\ [sweep[p] EXCEPT !.moved = {<<a, d>>}] \in Pending
        /\ [sweep[p] EXCEPT !.upcoming = @ \ {<<a, d>>}, !.moved = {}] \in Pending
    <3>1. [sweep[p] EXCEPT !.upcoming = @ \ {<<a, d>>}] \in Pending
      BY <2>1 DEF Pending
    <3>2. {<<a, d>>} \in SUBSET (Actions \X Dues)
      OBVIOUS
    <3>3. [sweep[p] EXCEPT !.moved = {<<a, d>>}] \in Pending
      BY <2>1, <3>2 DEF Pending
    <3>4. [sweep[p] EXCEPT !.upcoming = @ \ {<<a, d>>}, !.moved = {}] \in Pending
      BY <2>1 DEF Pending
    <3> QED
      BY <3>1, <3>3, <3>4
  <2>3. \/ sweep' = [sweep EXCEPT ![p] = [sweep[p] EXCEPT !.upcoming = @ \ {<<a, d>>}]]
        \/ sweep' = [sweep EXCEPT ![p] = [sweep[p] EXCEPT !.moved = {<<a, d>>}]]
        \/ sweep' = [sweep EXCEPT ![p].upcoming = @ \ {<<a, d>>}, ![p].moved = {}]
        \/ sweep' = [sweep EXCEPT ![p] = None]
    BY <1>3 DEF SweepUpcoming, SweepMoved, SweepArms
  <2>4. sweep' \in [Procs -> Pending \cup {None}]
    <3> DEFINE w == [sweep[p] EXCEPT !.upcoming = @ \ {<<a, d>>}, !.moved = {}]
    <3>1. CASE sweep' = [sweep EXCEPT ![p].upcoming = @ \ {<<a, d>>}, ![p].moved = {}]
      <4>1. sweep' = [sweep EXCEPT ![p] = w]
        BY <3>1, Before
      <4> QED
        BY <2>2, <4>1, Before
    <3> QED
      BY <2>2, <2>3, <3>1, Before
  <2>5. jobs' \in Armed /\ timers' \in Armed
    <3>1. CASE \E ok \in BOOLEAN : Arm(p, a, d, ok)
      BY <3>1, Before, ArmTyped
    <3>2. CASE RemoveTimer(p, a)
      BY <3>2, Before, TimersTyped DEF RemoveTimer
    <3>3. CASE UNCHANGED <<jobs, timers>>
      BY <3>3, Before
    <3> QED
      BY <1>3, <3>1, <3>2, <3>3 DEF SweepUpcoming, SweepMoved, SweepArms
  <2> QED
    BY <1>3, <2>4, <2>5, Before, OtherSafe DEF SweepUpcoming, SweepMoved, clock
<1>4. CASE EndSweep(p)
  <2>1. sweep' \in [Procs -> Pending \cup {None}]
    BY <1>4, Before DEF EndSweep
  <2> QED
    BY <1>4, <2>1, Before, OtherSafe DEF EndSweep, clock, process
<1> QED
  BY <1>1, <1>2, <1>3, <1>4 DEF SweepStep

LEMMA AskSafe ==
    ASSUME IInv, NEW p \in Procs, NEW a \in Actions,
           \/ AskToCancel(p, a)
           \/ \E d \in Dues, immediately \in BOOLEAN : AskToSchedule(p, a, d, immediately)
    PROVE  IInv' /\ NoNewCover
<1>1. PICK r \in Request : KnowsItsDue(r) /\ request' = [request EXCEPT ![p] = r]
  <2>1. CASE AskToCancel(p, a)
    <3> DEFINE r == [stage |-> "unarm", action |-> a, due |-> None, fresh |-> FALSE]
    <3>1. r \in Request /\ KnowsItsDue(r)
      BY DEF Request, RequestStages, KnowsItsDue
    <3>2. request' = [request EXCEPT ![p] = r]
      BY <2>1 DEF AskToCancel
    <3> HIDE DEF r
    <3> QED
      BY <3>1, <3>2
  <2>2. ASSUME NEW d \in Dues, NEW immediately \in BOOLEAN, AskToSchedule(p, a, d, immediately)
        PROVE  \E r \in Request : KnowsItsDue(r) /\ request' = [request EXCEPT ![p] = r]
    <3> DEFINE r == IF Scheduled(a)
                      THEN [stage |-> "update", action |-> a, due |-> d, fresh |-> FALSE]
                      ELSE [stage |-> "create", action |-> a,
                            due |-> IF immediately THEN now + 1 ELSE d, fresh |-> TRUE]
    <3>1. now + 1 \in Dues
      <4>1. now \in 0..Horizon /\ now < Horizon
        BY <2>2 DEF AskToSchedule, IInv, TypeOK
      <4> QED
        BY <4>1 DEF Dues
    <3>2. r \in Request /\ KnowsItsDue(r)
      BY <3>1 DEF Request, RequestStages, KnowsItsDue
    <3>3. request' = [request EXCEPT ![p] = r]
      BY <2>2 DEF AskToSchedule
    <3> HIDE DEF r
    <3> QED
      BY <3>2, <3>3
  <2> QED
    BY <2>1, <2>2
<1>2. /\ request' \in [Procs -> Request \cup {None}]
      /\ \A q \in Procs : KnowsItsDue(request'[q])
  BY <1>1, RequestBecomes
<1>3. used' = [used EXCEPT !.requests = @ + 1]
  BY DEF AskToCancel, AskToSchedule
<1>4. UNCHANGED <<now, stopped, entry, claim, jobs, timers, fired, runs, sweep>>
  BY DEF AskToCancel, AskToSchedule, clock, process
<1> QED
  BY <1>2, <1>3, <1>4, Before, OtherSafe

LEMMA RequestStepSafe ==
    ASSUME IInv, NEW p \in Procs, RequestStep(p)
    PROVE  IInv' /\ NoNewCover
<1>1. request[p] # None /\ request[p] \in Request
  BY Before DEF RequestStep, CreateEntry, UpdateEntry, UpdateTimer, CreateTimer, RollBack,
                CancelTimer, CancelEntry, Asked
<1>2. Target(p) \in Actions
  BY <1>1 DEF Target, Request
<1>3. KnowsItsDue(request[p])
  BY Before
<1>4. /\ request' \in [Procs -> Request \cup {None}]
      /\ \A q \in Procs : KnowsItsDue(request'[q])
  <2>1. Answered(p) \/ \E g \in RequestStages :
           /\ Continues(p, g)
           /\ request[p].stage \in {"unarm", "drop"} => g \in {"unarm", "drop"}
    BY DEF RequestStep, CreateEntry, UpdateEntry, UpdateTimer, CreateTimer, RollBack,
           CancelTimer, CancelEntry, Asked, TimerFails, RequestStages
  <2> QED
    BY <1>1, <2>1, Answers, CarriesOn
<1>5. entry' \in [Actions -> Dues \cup {None}]
  <2>1. \/ entry' = entry
        \/ entry' = [entry EXCEPT ![Target(p)] = None]
        \/ /\ entry' = [entry EXCEPT ![Target(p)] = request[p].due]
           /\ request[p].stage \in {"create", "update"}
    BY DEF RequestStep, CreateEntry, UpdateEntry, UpdateTimer, CreateTimer, RollBack,
           CancelTimer, CancelEntry, Asked
  <2> QED
    BY <1>1, <1>2, <1>3, <2>1, Before DEF KnowsItsDue
<1>6. jobs' \in Armed /\ timers' \in Armed
  <2>1. \/ UNCHANGED <<jobs, timers>>
        \/ RemoveTimer(p, Target(p))
        \/ /\ request[p].stage = "arm"
           /\ \E ok \in BOOLEAN : Arm(p, Target(p), request[p].due, ok)
    BY DEF RequestStep, CreateEntry, UpdateEntry, UpdateTimer, CreateTimer, RollBack,
           CancelTimer, CancelEntry, Asked, process
  <2>2. CASE RemoveTimer(p, Target(p))
    BY <1>2, <2>2, Before, TimersTyped DEF RemoveTimer
  <2>3. CASE request[p].stage = "arm" /\ \E ok \in BOOLEAN : Arm(p, Target(p), request[p].due, ok)
    BY <1>1, <1>2, <1>3, <2>3, Before, ArmTyped DEF KnowsItsDue
  <2> QED
    BY <2>1, <2>2, <2>3, Before
<1>7. UNCHANGED <<now, stopped, claim, fired, runs, sweep, used>>
  BY DEF RequestStep, CreateEntry, UpdateEntry, UpdateTimer, CreateTimer, RollBack,
         CancelTimer, CancelEntry, clock, process
<1> QED
  BY <1>4, <1>5, <1>6, <1>7, Before, OtherSafe

LEMMA TimerStepSafe ==
    ASSUME IInv, NEW p \in Procs, NEW a \in Actions, Fire(p, a) \/ HandleFired(p, a)
    PROVE  IInv' /\ NoNewCover
<1>1. CASE Fire(p, a)
  <2>1. timers' \in Armed /\ fired' \in [Procs -> SUBSET Actions]
    BY <1>1, Before, TimersTyped DEF Fire
  <2> QED
    BY <1>1, <2>1, Before, OtherSafe DEF Fire, clock
<1>2. CASE HandleFired(p, a)
  <2>1. jobs' \in Armed /\ fired' \in [Procs -> SUBSET Actions]
    BY <1>2, Before, TimersTyped DEF HandleFired
  <2>2. "timer" \in Sources /\ (runs' = runs \/ Trigger(p, "timer", a))
    BY <1>2 DEF HandleFired, Sources
  <2>3. /\ runs' \in [Procs -> [Sources -> Run \cup {None}]]
        /\ \A q \in Procs, t \in Sources :
              \/ runs'[q][t] = runs[q][t]
              \/ runs'[q][t] # None /\ runs'[q][t].stage = "read"
    BY <2>2, Before, TriggerSafe
  <2> QED
    BY <1>2, <2>1, <2>3, Before, OtherSafe DEF HandleFired, clock
<1> QED
  BY <1>1, <1>2

LEMMA ProcessStepSafe ==
    ASSUME IInv, NEW p \in Procs, Stop(p) \/ Restart(p)
    PROVE  IInv' /\ NoNewCover
<1>1. [timers EXCEPT ![p] = [a \in Actions |-> None]] \in Armed
  BY Before DEF Armed
<1>2. CASE Stop(p)
  <2>1. stopped' \in [Procs -> BOOLEAN]
    BY <1>2, Before DEF Stop
  <2> QED
    BY <1>1, <1>2, <2>1, Before, OtherSafe DEF Stop
<1>3. CASE Restart(p)
  <2>1. jobs' \in Armed
    BY <1>3, Before DEF Restart, Armed
  <2>2. /\ fired' \in [Procs -> SUBSET Actions]
        /\ sweep' \in [Procs -> Pending \cup {None}]
        /\ stopped' \in [Procs -> BOOLEAN]
    BY <1>3, Before DEF Restart
  <2>3. /\ runs' \in [Procs -> [Sources -> Run \cup {None}]]
        /\ \A q \in Procs, t \in Sources : runs'[q][t] = runs[q][t] \/ runs'[q][t] = None
    BY <1>3, Before DEF Restart
  <2>4. /\ request' \in [Procs -> Request \cup {None}]
        /\ \A q \in Procs : KnowsItsDue(request'[q])
    <3>1. KnowsItsDue(None)
      BY DEF KnowsItsDue
    <3> QED
      BY <1>3, <3>1, Before, RequestBecomes DEF Restart
  <2>5. used' \in [requests : Nat, faults : Nat]
    BY <1>3, Before DEF Restart
  <2>6. UNCHANGED <<now, entry, claim>> /\ timers' \in Armed
    BY <1>1, <1>3 DEF Restart
  <2> QED
    BY <2>1, <2>2, <2>3, <2>4, <2>5, <2>6, Before, OtherSafe
<1> QED
  BY <1>2, <1>3

-----------------------------------------------------------------------------
(* Theorems.                                                               *)

LEMMA InitIInv == Init => IInv
<1> SUFFICES ASSUME Init PROVE IInv
  OBVIOUS
<1>1. TypeOK
  BY DEF Init, TypeOK
<1>2. /\ \A p \in Procs, s \in Sources : runs[p][s] = None
      /\ \A p \in Procs : request[p] = None
  BY DEF Init
<1> QED
  BY <1>1, <1>2 DEF IInv, DuesKnown, OneCoveredRun, ClaimOutlastsRun, Covered

\* Every step keeps the invariant, and covers no run anew but the one that takes a claim, when no
\* other run of the action at its due time is covered.
LEMMA NextStep ==
    ASSUME IInv, [Next]_vars
    PROVE  /\ IInv'
           /\ \/ NoNewCover
              \/ \E p \in Procs, s \in Sources, a \in Actions, d \in Dues : Begins(p, s, a, d)
<1>1. CASE Tick
  BY <1>1, TickStep
<1>2. ASSUME NEW p \in Procs, NEW a \in Actions,
             \/ Fire(p, a) \/ HandleFired(p, a) \/ AskToCancel(p, a)
             \/ \E d \in Dues, immediately \in BOOLEAN : AskToSchedule(p, a, d, immediately)
      PROVE  IInv' /\ NoNewCover
  BY <1>2, TimerStepSafe, AskSafe
<1>3. ASSUME NEW p \in Procs, NEW s \in Sources, RunStep(p, s)
      PROVE  IInv' /\ (NoNewCover \/ \E a \in Actions, d \in Dues : Begins(p, s, a, d))
  BY <1>3, QuietRunStep, TakeClaimStep, HoldStep DEF RunStep
<1>4. ASSUME NEW p \in Procs, StartSweep(p) \/ SweepStep(p)
      PROVE  IInv' /\ NoNewCover
  BY <1>4, SweepStepSafe
<1>5. ASSUME NEW p \in Procs, RequestStep(p)
      PROVE  IInv' /\ NoNewCover
  BY <1>5, RequestStepSafe
<1>6. ASSUME NEW p \in Procs, Stop(p) \/ Restart(p)
      PROVE  IInv' /\ NoNewCover
  BY <1>6, ProcessStepSafe
<1>7. CASE UNCHANGED vars
  BY <1>7 DEF vars, IInv, TypeOK, DuesKnown, OneCoveredRun, ClaimOutlastsRun, Covered, NoNewCover
<1> QED
  BY <1>1, <1>2, <1>3, <1>4, <1>5, <1>6, <1>7 DEF Next

\* The variables keep their types.
THEOREM TypeCorrect == Spec => []TypeOK
<1>1. IInv /\ [Next]_vars => IInv'
  BY NextStep
<1>2. IInv => TypeOK
  BY DEF IInv
<1> QED
  BY <1>1, <1>2, InitIInv, PTL DEF Spec

\* A run within its claim is the only one of its action and due time, through crashes, restarts,
\* failures, moves and cancellations.
THEOREM OneRunPerClaim == Spec => []OneCoveredRun
<1>1. IInv /\ [Next]_vars => IInv'
  BY NextStep
<1>2. IInv => OneCoveredRun
  BY DEF IInv
<1> QED
  BY <1>1, <1>2, InitIInv, PTL DEF Spec

\* The stored claim lasts at least as long as its run believes.
THEOREM ClaimOutlasts == Spec => []ClaimOutlastsRun
<1>1. IInv /\ [Next]_vars => IInv'
  BY NextStep
<1>2. IInv => ClaimOutlastsRun
  BY DEF IInv
<1> QED
  BY <1>1, <1>2, InitIInv, PTL DEF Spec

\* The runners ExclusiveRuns sees.
CoveredRuns == [k \in Actions \X Dues |->
                  {r \in Procs \X Sources : Covered(r[1], r[2], k[1], k[2])}]

LEMMA StepRefines ==
    ASSUME IInv, [Next]_vars
    PROVE  Exclusive!Next
<1>1. CASE NoNewCover
  <2>1. CoveredRuns' \in [Actions \X Dues -> SUBSET (Procs \X Sources)]
    BY DEF CoveredRuns
  <2>2. ASSUME NEW k \in Actions \X Dues
        PROVE  CoveredRuns'[k] \subseteq CoveredRuns[k]
    BY <1>1 DEF NoNewCover, CoveredRuns
  <2> QED
    BY <2>1, <2>2 DEF Exclusive!Next, Exclusive!End, CoveredRuns
<1>2. ASSUME NEW p \in Procs, NEW s \in Sources, NEW a \in Actions, NEW d \in Dues,
             Begins(p, s, a, d)
      PROVE  Exclusive!Next
  <2>1. <<a, d>> \in Actions \X Dues /\ <<p, s>> \in Procs \X Sources
    OBVIOUS
  <2>2. CoveredRuns[<<a, d>>] = {}
    BY <1>2 DEF Begins, CoveredRuns
  <2>3. CoveredRuns'[<<a, d>>] = {<<p, s>>}
    BY <1>2 DEF Begins, CoveredRuns
  <2>4. ASSUME NEW k \in Actions \X Dues, k # <<a, d>>
        PROVE  CoveredRuns'[k] = CoveredRuns[k]
    BY <1>2, <2>4 DEF Begins, CoveredRuns
  <2>5. CoveredRuns' = [CoveredRuns EXCEPT ![<<a, d>>] = {<<p, s>>}]
    BY <2>1, <2>3, <2>4 DEF CoveredRuns
  <2>6. Exclusive!Begin(<<p, s>>, <<a, d>>)
    BY <2>2, <2>5 DEF Exclusive!Begin, CoveredRuns
  <2> QED
    BY <2>1, <2>6 DEF Exclusive!Next
<1> QED
  BY <1>1, <1>2, NextStep

\* Scheduling implements ExclusiveRuns: a run begins under a claim only when no other run of the
\* action at that due time is within its own.
THEOREM RunsExcludeOthers == Spec => ImplementsExclusiveRuns
<1>1. Init => Exclusive!Init
  <2> SUFFICES ASSUME Init PROVE Exclusive!Init
    OBVIOUS
  <2>1. \A p \in Procs, s \in Sources, a \in Actions, d \in Dues : ~Covered(p, s, a, d)
    BY DEF Init, Covered
  <2> QED
    BY <2>1 DEF Exclusive!Init
<1>2. IInv /\ [Next]_vars => [Exclusive!Next]_CoveredRuns
  BY StepRefines
<1>3. IInv /\ [Next]_vars => IInv'
  BY NextStep
<1> QED
  BY <1>1, <1>2, <1>3, InitIInv, PTL
     DEF Spec, ImplementsExclusiveRuns, Exclusive!Spec, CoveredRuns
=============================================================================
