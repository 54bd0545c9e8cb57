-------------------------- MODULE TaskRecord_proofs --------------------------
(***************************************************************************)
(* Proofs about TaskRecord: its types, that a settled task stays settled,  *)
(* and which updates can undo an outcome.                                  *)
(***************************************************************************)
EXTENDS TaskRecord, TLAPS

\* What the writers ask for.
Changes ==
    /\ Asked("trigger") => update["trigger"].change.status = None
    /\ \A a \in Aborters : Asked(a) => update[a].change.status = "aborted"

\* The iteration knows the task it runs.
Fetched == At("fetched") => run.task # None

\* No iteration is under way once an outcome is stored or about to be written again.
Outcomes ==
    /\ run.stage \in {"fetched", "starting", "body", "ending"} => ~Stored({"success", "failed"})
    /\ HasRead("trigger") /\ update["trigger"].base.status \in {"success", "failed"}
         => run.stage \in {"idle", "due"} /\ ~Stored(Unfinished)

\* What an iteration that goes on is about to save is no outcome.
Saving ==
    run.stage \in {"starting", "body"} /\ Asked("runner") =>
        /\ update["runner"].change.status \in {None, "running"}
        /\ HasRead("runner") => update["runner"].base.status \notin {"success", "failed"}

\* There is no record before the trigger.
Fresh == trigger = "none" => rec = None

IInv == TypeOK /\ Changes /\ Fetched /\ Outcomes /\ Saving /\ Fresh

USE RecordAssumption DEF Unfinished, Finished, Records, Partials, Writers

\* The type of update.
Updates(u) == u \in [Writers -> [change : Partials \cup {None}, base : Records \cup {None}]]

-----------------------------------------------------------------------------
(* What an update under way is, and what it writes.                        *)

LEMMA UpdateIs ==
    ASSUME IInv, NEW w \in Writers, Asked(w)
    PROVE  /\ update[w].change \in Partials
           /\ HasRead(w) => update[w].base \in Records
  BY DEF IInv, TypeOK, Asked, HasRead

LEMMA MergedIs ==
    ASSUME IInv, NEW w \in Writers, HasRead(w)
    PROVE  /\ Asked(w)
           /\ Merged(w) \in Records
           /\ w \in Aborters => Merged(w).status = "aborted"
           /\ w = "trigger" => Merged(w).status = update["trigger"].base.status
           /\ w = "runner" /\ run.stage \in {"starting", "body"} => Merged(w).status \notin {"success", "failed"}
<1>1. Asked(w)
  BY DEF IInv, TypeOK
<1>2. Merged(w) \in Records
  BY <1>1, UpdateIs DEF Merged
<1>3. w \in Aborters => Merged(w).status = "aborted"
  BY <1>1 DEF IInv, Changes, Merged
<1>4. w = "trigger" => Merged(w).status = update["trigger"].base.status
  BY <1>1 DEF IInv, Changes, Merged
<1>5. w = "runner" /\ run.stage \in {"starting", "body"} => Merged(w).status \notin {"success", "failed"}
  BY <1>1 DEF IInv, Saving, Merged
<1> QED
  BY <1>1, <1>2, <1>3, <1>4, <1>5

LEMMA AskIs ==
    ASSUME IInv, NEW w \in Writers, NEW status \in Unfinished \cup Finished \cup {None},
           NEW iterations \in 0..MaxIterations \cup {None}, Ask(w, status, iterations)
    PROVE  /\ Updates(update')
           /\ update'[w].change.status = status
           /\ update'[w].change # None /\ update'[w].base = None
           /\ \A v \in Writers \ {w} : update'[v] = update[v]
<1> DEFINE c == [status |-> status, iterations |-> iterations]
<1>1. c \in Partials
  OBVIOUS
<1>2. c # None
  BY <1>1
<1>3. update \in [Writers -> [change : Partials \cup {None}, base : Records \cup {None}]]
  BY DEF IInv, TypeOK
<1>4. update' = [update EXCEPT ![w] = [change |-> c, base |-> None]]
  BY DEF Ask
<1> HIDE DEF c
<1>5. update'[w] = [change |-> c, base |-> None]
  BY <1>3, <1>4
<1>6. [change |-> c, base |-> None] \in [change : Partials \cup {None}, base : Records \cup {None}]
  BY <1>1
<1>7. update' \in [Writers -> [change : Partials \cup {None}, base : Records \cup {None}]]
  BY <1>3, <1>4, <1>6
<1>8. \A v \in Writers \ {w} : update'[v] = update[v]
  BY <1>3, <1>4
<1> QED
  BY <1>2, <1>5, <1>7, <1>8 DEF c, Updates

\* The iteration asks for an update: all its asks keep the invariant.
LEMMA RunnerAsks ==
    ASSUME IInv, NEW status \in Unfinished \cup Finished \cup {None},
           NEW iterations \in 0..MaxIterations \cup {None}, Ask("runner", status, iterations),
           run.stage \in {"fetched", "starting", "body", "ending"},
           run' \in [stage : {"starting", "body", "ending"}, task : {run.task}, goesOn : BOOLEAN],
           run'.stage = "ending" \/ status \in {None, "running"},
           UNCHANGED <<rec, trigger, abort, listed>>, faults' \in 0..MaxFaults
    PROVE  IInv'
<1>1. /\ Updates(update')
      /\ update'["runner"].change.status = status
      /\ update'["runner"].change # None /\ update'["runner"].base = None
      /\ \A v \in Writers \ {"runner"} : update'[v] = update[v]
  BY AskIs
<1>2. \A v \in Writers : HasRead(v)' => Asked(v)'
  BY <1>1 DEF IInv, TypeOK, Asked, HasRead
<1>3. Asked("trigger")' <=> trigger' = "sent"
  BY <1>1 DEF IInv, TypeOK, Asked
<1>8. ASSUME NEW a \in Aborters
      PROVE  Asked(a)' <=> abort'[a] = "checked"
  <2>1. a \in Writers \ {"runner"}
    OBVIOUS
  <2>2. Asked(a) <=> abort[a] = "checked"
    BY DEF IInv, TypeOK
  <2> QED
    BY <1>1, <2>1, <2>2 DEF Asked
<1>4. TypeOK'
  BY <1>1, <1>2, <1>3, <1>8 DEF IInv, TypeOK, Asked, Updates
<1>5. Changes'
  BY <1>1 DEF IInv, Changes, Asked
<1>6. Fetched' /\ Outcomes'
  BY <1>1 DEF IInv, Fetched, Outcomes, HasRead, At, Stored
<1>7. Saving'
  BY <1>1 DEF Saving, HasRead
<1> QED
  BY <1>4, <1>5, <1>6, <1>7 DEF IInv, Fresh

-----------------------------------------------------------------------------
(* The actions keep the invariant.                                         *)

LEMMA ReadsKeeps ==
    ASSUME IInv, NEW w \in Writers, Reads(w)
    PROVE  IInv'
<1> USE DEF IInv, Reads
<1>1. TypeOK'
  BY DEF TypeOK, Asked, HasRead, At, NoUpdate, Stored, Fetched
<1>2. Changes'
  BY DEF Changes, TypeOK, Asked, HasRead, At, NoUpdate
<1>3. Fetched'
  BY DEF Fetched, TypeOK, At, Stored
<1>4. Outcomes'
  BY DEF Outcomes, Changes, TypeOK, Asked, HasRead, At, NoUpdate, Stored
<1>5. Saving'
  BY DEF Saving, Outcomes, TypeOK, Asked, HasRead, At, NoUpdate, Stored
<1>6. Fresh'
  BY DEF Fresh, TypeOK
<1> QED
  BY <1>1, <1>2, <1>3, <1>4, <1>5, <1>6

LEMMA CreatesKeeps ==
    ASSUME IInv, Creates
    PROVE  IInv'
<1> USE DEF IInv, Creates, Stored
<1>1. TypeOK'
  BY DEF TypeOK, Asked, HasRead, At, NoUpdate, Stored, Fetched
<1>2. Changes'
  BY DEF Changes, TypeOK, Asked, HasRead, At, NoUpdate
<1>3. Fetched'
  BY DEF Fetched, TypeOK, At, Stored
<1>4. Outcomes'
  BY DEF Outcomes, Changes, TypeOK, Asked, HasRead, At, NoUpdate, Stored
<1>5. Saving'
  BY DEF Saving, Outcomes, TypeOK, Asked, HasRead, At, NoUpdate, Stored
<1>6. Fresh'
  BY DEF Fresh, TypeOK
<1> QED
  BY <1>1, <1>2, <1>3, <1>4, <1>5, <1>6

LEMMA SendsKeeps ==
    ASSUME IInv, Sends
    PROVE  IInv'
<1> USE DEF IInv, Sends, Ask, Goes
<1>1. TypeOK'
  BY DEF TypeOK, Asked, HasRead, At, NoUpdate, Stored, Fetched
<1>2. Changes'
  BY DEF Changes, TypeOK, Asked, HasRead, At, NoUpdate
<1>3. Fetched'
  BY DEF Fetched, TypeOK, At, Stored
<1>4. Outcomes'
  BY DEF Outcomes, Changes, TypeOK, Asked, HasRead, At, NoUpdate, Stored
<1>5. Saving'
  BY DEF Saving, Outcomes, TypeOK, Asked, HasRead, At, NoUpdate, Stored
<1>6. Fresh'
  BY DEF Fresh, TypeOK
<1> QED
  BY <1>1, <1>2, <1>3, <1>4, <1>5, <1>6

LEMMA SendFailsKeeps ==
    ASSUME IInv, SendFails
    PROVE  IInv'
<1> USE DEF IInv, SendFails
<1>1. TypeOK'
  BY DEF TypeOK, Asked, HasRead, At, NoUpdate, Stored, Fetched
<1>2. Changes'
  BY DEF Changes, TypeOK, Asked, HasRead, At, NoUpdate
<1>3. Fetched'
  BY DEF Fetched, TypeOK, At, Stored
<1>4. Outcomes'
  BY DEF Outcomes, Changes, TypeOK, Asked, HasRead, At, NoUpdate, Stored
<1>5. Saving'
  BY DEF Saving, Outcomes, TypeOK, Asked, HasRead, At, NoUpdate, Stored
<1>6. Fresh'
  BY DEF Fresh, TypeOK
<1> QED
  BY <1>1, <1>2, <1>3, <1>4, <1>5, <1>6

LEMMA SavesResponseKeeps ==
    ASSUME IInv, SavesResponse
    PROVE  IInv'
<1> USE DEF IInv, SavesResponse, Writes
<1>0. HasRead("trigger") /\ Asked("trigger") /\ Merged("trigger") \in Records
  BY MergedIs
<1>1. TypeOK'
  BY <1>0, MergedIs DEF TypeOK, Asked, HasRead, At, NoUpdate, Stored, Fetched
<1>2. Changes'
  BY <1>0, MergedIs DEF Changes, TypeOK, Asked, HasRead, At, NoUpdate
<1>3. Fetched'
  BY <1>0, MergedIs DEF Fetched, TypeOK, At, Stored
<1>4. Outcomes'
  BY <1>0, MergedIs DEF Outcomes, Changes, TypeOK, Asked, HasRead, At, NoUpdate, Stored
<1>5. Saving'
  BY <1>0, MergedIs DEF Saving, Outcomes, TypeOK, Asked, HasRead, At, NoUpdate, Stored
<1>6. Fresh'
  BY DEF Fresh, TypeOK
<1> QED
  BY <1>1, <1>2, <1>3, <1>4, <1>5, <1>6

LEMMA ResponseFailsKeeps ==
    ASSUME IInv, ResponseFails
    PROVE  IInv'
<1> USE DEF IInv, ResponseFails, Fails
<1>1. TypeOK'
  BY DEF TypeOK, Asked, HasRead, At, NoUpdate, Stored, Fetched
<1>2. Changes'
  BY DEF Changes, TypeOK, Asked, HasRead, At, NoUpdate
<1>3. Fetched'
  BY DEF Fetched, TypeOK, At, Stored
<1>4. Outcomes'
  BY DEF Outcomes, Changes, TypeOK, Asked, HasRead, At, NoUpdate, Stored
<1>5. Saving'
  BY DEF Saving, Outcomes, TypeOK, Asked, HasRead, At, NoUpdate, Stored
<1>6. Fresh'
  BY DEF Fresh, TypeOK
<1> QED
  BY <1>1, <1>2, <1>3, <1>4, <1>5, <1>6

LEMMA TriggerStopsKeeps ==
    ASSUME IInv, TriggerStops
    PROVE  IInv'
<1> USE DEF IInv, TriggerStops
<1>1. TypeOK'
  BY DEF TypeOK, Asked, HasRead, At, NoUpdate, Stored, Fetched
<1>2. Changes'
  BY DEF Changes, TypeOK, Asked, HasRead, At, NoUpdate
<1>3. Fetched'
  BY DEF Fetched, TypeOK, At, Stored
<1>4. Outcomes'
  BY DEF Outcomes, Changes, TypeOK, Asked, HasRead, At, NoUpdate, Stored
<1>5. Saving'
  BY DEF Saving, Outcomes, TypeOK, Asked, HasRead, At, NoUpdate, Stored
<1>6. Fresh'
  BY DEF Fresh, TypeOK
<1> QED
  BY <1>1, <1>2, <1>3, <1>4, <1>5, <1>6

LEMMA ChecksKeeps ==
    ASSUME IInv, NEW a \in Aborters, Checks(a)
    PROVE  IInv'
<1> USE DEF IInv, Checks
<1>1. CASE Ask(a, "aborted", None) /\ abort' = [abort EXCEPT ![a] = "checked"]
  <2>1. /\ Updates(update')
        /\ update'[a].change.status = "aborted" /\ update'[a].change # None /\ update'[a].base = None
        /\ \A v \in Writers \ {a} : update'[v] = update[v]
    BY <1>1, AskIs
  <2>2. a # "trigger" /\ a # "runner"
    OBVIOUS
  <2>3. ASSUME NEW b \in Aborters
        PROVE  Asked(b)' <=> abort'[b] = "checked"
    <3>1. CASE b = a
      BY <1>1, <2>1, <3>1 DEF TypeOK, Asked
    <3>2. CASE b # a
      <4>1. b \in Writers \ {a} /\ (Asked(b) <=> abort[b] = "checked") /\ abort'[b] = abort[b]
        BY <1>1, <3>2 DEF TypeOK
      <4> QED
        BY <2>1, <4>1 DEF Asked
    <3> QED
      BY <3>1, <3>2
  <2>8. \A w \in Writers : HasRead(w)' => Asked(w)'
    BY <2>1 DEF TypeOK, Asked, HasRead
  <2>9. abort' \in [Aborters -> {"none", "checked", "over"}]
    BY <1>1 DEF TypeOK
  <2>4. TypeOK'
    BY <2>1, <2>2, <2>3, <2>8, <2>9 DEF TypeOK, Asked, Updates
  <2>5. Changes'
    BY <2>1, <2>2 DEF Changes, Asked
  <2>6. Fetched' /\ Outcomes'
    BY <2>1, <2>2 DEF Fetched, Outcomes, HasRead, At, Stored
  <2>7. Saving'
    BY <2>1, <2>2 DEF Saving, Asked, HasRead
  <2> QED
    BY <2>4, <2>5, <2>6, <2>7 DEF Fresh
<1>2. CASE ~Stored(Unfinished) /\ UNCHANGED update /\ abort' = [abort EXCEPT ![a] = "over"]
  BY <1>2 DEF TypeOK, Changes, Fetched, Outcomes, Saving, Fresh, Asked, HasRead, At, NoUpdate, Stored
<1> QED
  BY <1>1, <1>2

LEMMA AbortsKeeps ==
    ASSUME IInv, NEW a \in Aborters, Aborts(a)
    PROVE  IInv'
<1> USE DEF IInv, Aborts, Writes
<1>0. HasRead(a) /\ Asked(a) /\ Merged(a) \in Records
  BY MergedIs
<1>1. TypeOK'
  BY <1>0, MergedIs DEF TypeOK, Asked, HasRead, At, NoUpdate, Stored, Fetched
<1>2. Changes'
  BY <1>0, MergedIs DEF Changes, TypeOK, Asked, HasRead, At, NoUpdate
<1>3. Fetched'
  BY <1>0, MergedIs DEF Fetched, TypeOK, At, Stored
<1>4. Outcomes'
  BY <1>0, MergedIs DEF Outcomes, Changes, TypeOK, Asked, HasRead, At, NoUpdate, Stored
<1>5. Saving'
  BY <1>0, MergedIs DEF Saving, Outcomes, TypeOK, Asked, HasRead, At, NoUpdate, Stored
<1>6. Fresh'
  BY DEF Fresh, TypeOK
<1> QED
  BY <1>1, <1>2, <1>3, <1>4, <1>5, <1>6

LEMMA AbortFailsKeeps ==
    ASSUME IInv, NEW a \in Aborters, AbortFails(a)
    PROVE  IInv'
<1> USE DEF IInv, AbortFails, Fails
<1>1. TypeOK'
  BY DEF TypeOK, Asked, HasRead, At, NoUpdate, Stored, Fetched
<1>2. Changes'
  BY DEF Changes, TypeOK, Asked, HasRead, At, NoUpdate
<1>3. Fetched'
  BY DEF Fetched, TypeOK, At, Stored
<1>4. Outcomes'
  BY DEF Outcomes, Changes, TypeOK, Asked, HasRead, At, NoUpdate, Stored
<1>5. Saving'
  BY DEF Saving, Outcomes, TypeOK, Asked, HasRead, At, NoUpdate, Stored
<1>6. Fresh'
  BY DEF Fresh, TypeOK
<1> QED
  BY <1>1, <1>2, <1>3, <1>4, <1>5, <1>6

LEMMA ListsKeeps ==
    ASSUME IInv, Lists
    PROVE  IInv'
<1> USE DEF IInv, Lists
<1>1. TypeOK'
  BY DEF TypeOK, Asked, HasRead, At, NoUpdate, Stored, Fetched
<1>2. Changes'
  BY DEF Changes, TypeOK, Asked, HasRead, At, NoUpdate
<1>3. Fetched'
  BY DEF Fetched, TypeOK, At, Stored
<1>4. Outcomes'
  BY DEF Outcomes, Changes, TypeOK, Asked, HasRead, At, NoUpdate, Stored
<1>5. Saving'
  BY DEF Saving, Outcomes, TypeOK, Asked, HasRead, At, NoUpdate, Stored
<1>6. Fresh'
  BY DEF Fresh, TypeOK
<1> QED
  BY <1>1, <1>2, <1>3, <1>4, <1>5, <1>6

LEMMA ResumesKeeps ==
    ASSUME IInv, Resumes
    PROVE  IInv'
<1> USE DEF IInv, Resumes, Goes
<1>1. TypeOK'
  BY DEF TypeOK, Asked, HasRead, At, NoUpdate, Stored, Fetched
<1>2. Changes'
  BY DEF Changes, TypeOK, Asked, HasRead, At, NoUpdate
<1>3. Fetched'
  BY DEF Fetched, TypeOK, At, Stored
<1>4. Outcomes'
  BY DEF Outcomes, Changes, TypeOK, Asked, HasRead, At, NoUpdate, Stored
<1>5. Saving'
  BY DEF Saving, Outcomes, TypeOK, Asked, HasRead, At, NoUpdate, Stored
<1>6. Fresh'
  BY DEF Fresh, TypeOK
<1> QED
  BY <1>1, <1>2, <1>3, <1>4, <1>5, <1>6

LEMMA FetchesKeeps ==
    ASSUME IInv, Fetches
    PROVE  IInv'
<1> USE DEF IInv, Fetches
<1>1. TypeOK'
  BY DEF TypeOK, Asked, HasRead, At, NoUpdate, Stored, Fetched
<1>2. Changes'
  BY DEF Changes, TypeOK, Asked, HasRead, At, NoUpdate
<1>3. Fetched'
  BY DEF Fetched, TypeOK, At, Stored
<1>4. Outcomes'
  BY DEF Outcomes, Changes, TypeOK, Asked, HasRead, At, NoUpdate, Stored
<1>5. Saving'
  BY DEF Saving, Outcomes, TypeOK, Asked, HasRead, At, NoUpdate, Stored
<1>6. Fresh'
  BY DEF Fresh, TypeOK
<1> QED
  BY <1>1, <1>2, <1>3, <1>4, <1>5, <1>6

LEMMA BeginsKeeps ==
    ASSUME IInv, Begins
    PROVE  IInv'
<1>1. PICK status \in {"running", "failed", None}, iterations \in 0..MaxIterations \cup {None} :
        Ask("runner", status, iterations) /\ (run'.stage = "ending" \/ status \in {None, "running"})
  <2>1. run.task \in Records
    BY DEF IInv, Begins, Fetched, TypeOK, At
  <2>2. CASE run.task.status = "pending"
    <3>1. Ask("runner", "running", 1) /\ 1 \in 0..MaxIterations
      BY <2>2 DEF Begins
    <3> QED
      BY <3>1
  <2>3. CASE run.task.status # "pending" /\ run.task.iterations >= MaxIterations
    <3>1. Ask("runner", "failed", None) /\ run'.stage = "ending"
      BY <2>3 DEF Begins, Goes, IInv, TypeOK
    <3> QED
      BY <3>1
  <2>4. CASE run.task.status # "pending" /\ ~(run.task.iterations >= MaxIterations)
    <3>1. Ask("runner", None, run.task.iterations + 1) /\ run.task.iterations + 1 \in 0..MaxIterations
      BY <2>1, <2>4 DEF Begins
    <3> QED
      BY <3>1
  <2> QED
    BY <2>2, <2>3, <2>4
<1>2. run' \in [stage : {"starting", "ending"}, task : {run.task}, goesOn : BOOLEAN]
  BY DEF IInv, Begins, TypeOK, Goes
<1> QED
  BY <1>1, <1>2, RunnerAsks DEF IInv, Begins, TypeOK, At

LEMMA SavesKeeps ==
    ASSUME IInv, Saves
    PROVE  IInv'
<1>1. run' \in [stage : {"body"}, task : {run.task}, goesOn : BOOLEAN]
  BY DEF IInv, Saves, TypeOK, At
<1> QED
  BY <1>1, RunnerAsks DEF IInv, Saves, TypeOK, At

LEMMA SavedKeeps ==
    ASSUME IInv, Saved
    PROVE  IInv'
<1> USE DEF IInv, Saved, Writes
<1>0. HasRead("runner") /\ Asked("runner") /\ Merged("runner") \in Records
  BY MergedIs
<1>1. TypeOK'
  BY <1>0, MergedIs DEF TypeOK, Asked, HasRead, At, NoUpdate, Stored, Fetched
<1>2. Changes'
  BY <1>0, MergedIs DEF Changes, TypeOK, Asked, HasRead, At, NoUpdate
<1>3. Fetched'
  BY <1>0, MergedIs DEF Fetched, TypeOK, At, Stored
<1>4. Outcomes'
  <2>1. ~(HasRead("trigger") /\ update["trigger"].base.status \in {"success", "failed"})
    BY DEF Outcomes
  <2>2. UNCHANGED update["trigger"]
    BY DEF TypeOK
  <2>3. ~Stored({"success", "failed"})'
    BY <1>0, MergedIs DEF Stored
  <2> QED
    BY <2>1, <2>2, <2>3 DEF Outcomes, HasRead
<1>5. Saving'
  BY <1>0, MergedIs DEF Saving, Outcomes, TypeOK, Asked, HasRead, At, NoUpdate, Stored
<1>6. Fresh'
  BY DEF Fresh, TypeOK
<1> QED
  BY <1>1, <1>2, <1>3, <1>4, <1>5, <1>6

LEMMA ReturnsKeeps ==
    ASSUME IInv, Returns
    PROVE  IInv'
<1>1. CASE Goes("idle") /\ UNCHANGED update
  BY <1>1 DEF IInv, Returns, Goes, TypeOK, Changes, Fetched, Outcomes, Saving, Fresh, Asked, HasRead, At, Stored
<1>2. ASSUME NEW status \in {"success", "failed", "running"}, Ask("runner", status, None),
             run' \in [stage : {"ending"}, task : {run.task}, goesOn : BOOLEAN]
      PROVE  IInv'
  BY <1>2, RunnerAsks DEF IInv, Returns, TypeOK, At
<1>3. \/ Goes("idle") /\ UNCHANGED update
      \/ \E status \in {"success", "failed", "running"} :
            /\ Ask("runner", status, None)
            /\ run' \in [stage : {"ending"}, task : {run.task}, goesOn : BOOLEAN]
  BY DEF IInv, Returns, Goes, TypeOK
<1> QED
  BY <1>1, <1>2, <1>3

LEMMA EndsKeeps ==
    ASSUME IInv, Ends
    PROVE  IInv'
<1> USE DEF IInv, Ends, Writes
<1>0. HasRead("runner") /\ Asked("runner") /\ Merged("runner") \in Records
  BY MergedIs
<1>1. TypeOK'
  BY <1>0, MergedIs DEF TypeOK, Asked, HasRead, At, NoUpdate, Stored, Fetched
<1>2. Changes'
  BY <1>0, MergedIs DEF Changes, TypeOK, Asked, HasRead, At, NoUpdate
<1>3. Fetched'
  BY <1>0, MergedIs DEF Fetched, TypeOK, At, Stored
<1>4. Outcomes'
  <2>1. ~(HasRead("trigger") /\ update["trigger"].base.status \in {"success", "failed"})
    BY DEF Outcomes, At
  <2>2. UNCHANGED update["trigger"] /\ run'.stage \in {"idle", "due"}
    BY DEF TypeOK
  <2> QED
    BY <2>1, <2>2 DEF Outcomes, HasRead
<1>5. Saving'
  BY <1>0, MergedIs DEF Saving, Outcomes, TypeOK, Asked, HasRead, At, NoUpdate, Stored
<1>6. Fresh'
  BY DEF Fresh, TypeOK
<1> QED
  BY <1>1, <1>2, <1>3, <1>4, <1>5, <1>6

LEMMA SaveFailsKeeps ==
    ASSUME IInv, SaveFails
    PROVE  IInv'
<1>1. CASE /\ update' = [update EXCEPT !["runner"] = NoUpdate]
           /\ \/ At("body") /\ UNCHANGED run
              \/ At("ending") /\ Goes("idle")
  <2>1. /\ \A v \in Writers \ {"runner"} : update'[v] = update[v]
        /\ update'["runner"].change = None /\ update'["runner"].base = None
        /\ Updates(update')
    BY <1>1 DEF IInv, TypeOK, NoUpdate, Updates
  <2>2. TypeOK'
    BY <1>1, <2>1 DEF IInv, SaveFails, Goes, TypeOK, Asked, HasRead, At, Updates
  <2>3. Changes'
    BY <2>1 DEF IInv, Changes, Asked
  <2>4. Fetched' /\ Outcomes'
    BY <1>1, <2>1 DEF IInv, SaveFails, Goes, Fetched, Outcomes, TypeOK, HasRead, At, Stored
  <2>5. Saving'
    BY <1>1, <2>1 DEF SaveFails, IInv, Saving, Asked
  <2> QED
    BY <2>2, <2>3, <2>4, <2>5 DEF SaveFails, IInv, Fresh
<1>2. CASE /\ At("ending") => run.goesOn
           /\ run' = [run EXCEPT !.stage = "ending", !.goesOn = FALSE]
           /\ Ask("runner", "failed", None)
  <2>1. run' \in [stage : {"ending"}, task : {run.task}, goesOn : BOOLEAN]
    BY <1>2 DEF IInv, TypeOK
  <2>2. run.stage \in {"starting", "body", "ending"}
    BY DEF IInv, SaveFails, TypeOK
  <2>3. faults' \in 0..MaxFaults
    BY DEF IInv, SaveFails, TypeOK
  <2> QED
    BY <1>2, <2>1, <2>2, <2>3, RunnerAsks DEF SaveFails
<1>3. \/ At("body") /\ update' = [update EXCEPT !["runner"] = NoUpdate] /\ UNCHANGED run
      \/ At("ending") /\ ~run.goesOn /\ update' = [update EXCEPT !["runner"] = NoUpdate] /\ Goes("idle")
      \/ /\ At("ending") => run.goesOn
         /\ run' = [run EXCEPT !.stage = "ending", !.goesOn = FALSE]
         /\ Ask("runner", "failed", None)
  BY DEF SaveFails
<1> QED
  BY <1>1, <1>2, <1>3

LEMMA StopsKeeps ==
    ASSUME IInv, Stops
    PROVE  IInv'
<1> USE DEF IInv, Stops
<1>1. TypeOK'
  BY DEF TypeOK, Asked, HasRead, At, NoUpdate, Stored, Fetched
<1>2. Changes'
  BY DEF Changes, TypeOK, Asked, HasRead, At, NoUpdate
<1>3. Fetched'
  BY DEF Fetched, TypeOK, At, Stored
<1>4. Outcomes'
  BY DEF Outcomes, Changes, TypeOK, Asked, HasRead, At, NoUpdate, Stored
<1>5. Saving'
  BY DEF Saving, Outcomes, TypeOK, Asked, HasRead, At, NoUpdate, Stored
<1>6. Fresh'
  BY DEF Fresh, TypeOK
<1> QED
  BY <1>1, <1>2, <1>3, <1>4, <1>5, <1>6

LEMMA NextKeeps == IInv /\ [Next]_vars => IInv'
<1> SUFFICES ASSUME IInv, [Next]_vars
             PROVE  IInv'
  OBVIOUS
<1>1. CASE UNCHANGED vars
  BY <1>1 DEF vars, IInv, TypeOK, Changes, Fetched, Outcomes, Saving, Fresh, Asked, HasRead, At, Stored
<1>2. CASE Triggering
  BY <1>2, CreatesKeeps, SendsKeeps, SendFailsKeeps, SavesResponseKeeps, ResponseFailsKeeps, TriggerStopsKeeps
     DEF Triggering
<1>3. ASSUME NEW a \in Aborters, Aborting(a)
      PROVE  IInv'
  BY <1>3, ChecksKeeps, AbortsKeeps, AbortFailsKeeps DEF Aborting
<1>4. CASE Iterating
  BY <1>4, ListsKeeps, ResumesKeeps, FetchesKeeps, BeginsKeeps, SavesKeeps, SavedKeeps, ReturnsKeeps,
     EndsKeeps, SaveFailsKeeps, StopsKeeps DEF Iterating
<1>5. ASSUME NEW w \in Writers, Reads(w)
      PROVE  IInv'
  BY <1>5, ReadsKeeps
<1> QED
  BY <1>1, <1>2, <1>3, <1>4, <1>5 DEF Next

LEMMA InitHolds == Init => IInv
<1> SUFFICES ASSUME Init
             PROVE  IInv
  OBVIOUS
<1> USE DEF Init
<1>1. Updates(update) /\ \A w \in Writers : ~Asked(w) /\ ~HasRead(w)
  BY DEF NoUpdate, Asked, HasRead, Updates
<1>2. /\ Asked("trigger") <=> trigger = "sent"
      /\ \A a \in Aborters : Asked(a) <=> abort[a] = "checked"
      /\ ~Asked("runner") /\ \A w \in Writers : HasRead(w) => Asked(w)
  BY <1>1
<1>5. rec \in Records \cup {None} /\ abort \in [Aborters -> {"none", "checked", "over"}] /\ faults \in 0..MaxFaults
  OBVIOUS
<1>6. /\ run \in [stage : {"idle", "due", "fetched", "starting", "body", "ending"},
                 task : Records \cup {None}, goesOn : BOOLEAN]
      /\ run.stage = "idle"
  OBVIOUS
<1>3. TypeOK
  <2> HIDE DEF Init
  <2> QED
    BY <1>1, <1>2, <1>5, <1>6 DEF TypeOK, Updates, Init
<1>4. Changes /\ Fetched /\ Outcomes /\ Saving
  BY <1>1 DEF Changes, Fetched, Outcomes, Saving, At, Stored
<1> QED
  BY <1>3, <1>4 DEF IInv, Fresh

THEOREM Invariance == Spec => []IInv
<1>1. Init => IInv
  BY InitHolds
<1>2. IInv /\ [Next]_vars => IInv'
  BY NextKeeps
<1> QED
  BY <1>1, <1>2, PTL DEF Spec

\* For any number of aborts, iterations and faults, the variables keep their types and no more
\* iterations are counted than the definition allows (TaskManager.run).
THEOREM TypeCorrect == Spec => []TypeOK
<1>1. IInv => TypeOK
  BY DEF IInv
<1> QED
  BY <1>1, Invariance, PTL

-----------------------------------------------------------------------------
(* Outcomes.                                                               *)

LEMMA SettledKept == IInv /\ Settled /\ Next => Settled'
<1> SUFFICES ASSUME IInv, Settled, Next
             PROVE  Settled'
  OBVIOUS
<1>1. CASE Triggering
  <2>1. ~Creates /\ ~Sends /\ ~SendFails /\ ~TriggerStops
    BY DEF IInv, Fresh, Settled, Stored, Creates, Sends, SendFails, TriggerStops
  <2>2. CASE SavesResponse
    <3>1. HasRead("trigger") /\ Merged("trigger").status \in Finished /\ Merged("trigger") \in Records
      BY <2>2, MergedIs DEF SavesResponse, Writes, Settled
    <3>2. Stored(Finished)'
      BY <2>2, <3>1 DEF SavesResponse, Writes, Settled, Stored
    <3>3. \A w \in Writers : HasRead(w)' => update'[w].base.status \in Finished
      BY <2>2 DEF IInv, TypeOK, SavesResponse, Writes, Settled, HasRead, NoUpdate
    <3> QED
      BY <2>2, <3>2, <3>3 DEF SavesResponse, Settled
  <2>3. CASE ResponseFails
    BY <2>3 DEF IInv, TypeOK, ResponseFails, Fails, Settled, Stored, HasRead, NoUpdate
  <2> QED
    BY <1>1, <2>1, <2>2, <2>3 DEF Triggering
<1>2. ASSUME NEW a \in Aborters, Aborting(a)
      PROVE  Settled'
  <2>1. CASE Checks(a)
    BY <2>1 DEF Checks, Settled, Stored, HasRead
  <2>2. CASE Aborts(a)
    <3>1. HasRead(a) /\ Merged(a).status = "aborted" /\ Merged(a) \in Records
      BY <2>2, MergedIs DEF Aborts, Writes
    <3>2. Stored(Finished)'
      BY <2>2, <3>1 DEF Aborts, Writes, Settled, Stored
    <3>3. \A w \in Writers : HasRead(w)' => update'[w].base.status \in Finished
      BY <2>2 DEF IInv, TypeOK, Aborts, Writes, Settled, HasRead, NoUpdate
    <3> QED
      BY <2>2, <3>2, <3>3 DEF Aborts, Settled
  <2>3. CASE AbortFails(a)
    BY <2>3 DEF IInv, TypeOK, AbortFails, Fails, Settled, Stored, HasRead, NoUpdate
  <2> QED
    BY <1>2, <2>1, <2>2, <2>3 DEF Aborting
<1>3. CASE Iterating
  <2>1. ~Lists /\ ~Begins /\ ~Saves /\ ~Saved /\ ~Returns /\ ~Ends
    BY DEF Settled, Stored, Lists, Begins, Saves, Saved, Returns, Ends, At
  <2>2. ~SaveFails
    BY DEF IInv, TypeOK, Settled, SaveFails
  <2>3. CASE Resumes
    BY <2>3 DEF IInv, TypeOK, Resumes, Settled, Stored, Goes, HasRead
  <2>4. CASE Fetches
    BY <2>4 DEF IInv, TypeOK, Fetches, Settled, Stored, HasRead
  <2>5. CASE Stops
    BY <2>5 DEF IInv, TypeOK, Stops, Settled, Stored, HasRead, NoUpdate
  <2> QED
    BY <1>3, <2>1, <2>2, <2>3, <2>4, <2>5 DEF Iterating
<1>4. ASSUME NEW w \in Writers, Reads(w)
      PROVE  Settled'
  BY <1>4 DEF IInv, TypeOK, Reads, Settled, Stored, HasRead
<1> QED
  BY <1>1, <1>2, <1>3, <1>4 DEF Next

\* For any number of aborts, iterations and faults: a task whose outcome no update under way can
\* still overwrite is never run again, nor its outcome undone (TaskControl.run's check of the status).
THEOREM SettledForGood == Spec => SettledStaysSettled
<1>1. IInv /\ [Next]_vars => [Settled => Settled']_vars
  BY SettledKept DEF Settled, Stored, HasRead, vars
<1> QED
  BY <1>1, Invariance, PTL DEF Spec, SettledStaysSettled

UndoneHalfWay ==
    \/ ~Stored(Finished) \/ ~Stored(Unfinished)'
    \/ trigger = "sent" /\ trigger' = "over"
    \/ rec.status = "aborted" /\ run.stage \in {"starting", "body", "ending"}

LEMMA UndoneKept == IInv /\ Next => UndoneHalfWay
<1> SUFFICES ASSUME IInv, Next, Stored(Finished), Stored(Unfinished)'
             PROVE  UndoneHalfWay
  BY DEF UndoneHalfWay
<1>1. rec' # rec
  BY DEF Stored
<1>2. ~Creates
  BY DEF IInv, Fresh, Stored, Creates
<1>3. ~SendFails
  BY DEF Stored, SendFails
<1>4. CASE SavesResponse
  BY <1>4 DEF IInv, TypeOK, SavesResponse, Writes, Asked, HasRead, UndoneHalfWay
<1>5. ASSUME NEW a \in Aborters, Aborts(a)
      PROVE  FALSE
  BY <1>5, MergedIs DEF Aborts, Writes, Stored
<1>6. CASE Saved \/ Ends
  <2>1. run.stage \in {"starting", "body", "ending"}
    BY <1>6 DEF Saved, Ends, At
  <2>2. rec.status = "aborted"
    BY <2>1 DEF IInv, Outcomes, Stored
  <2> QED
    BY <2>1, <2>2 DEF UndoneHalfWay
<1>7. CASE Triggering
  BY <1>1, <1>2, <1>3, <1>4, <1>7 DEF Triggering, Sends, ResponseFails, Fails, TriggerStops
<1>8. ASSUME NEW a \in Aborters, Aborting(a)
      PROVE  FALSE
  BY <1>1, <1>5, <1>8 DEF Aborting, Checks, AbortFails, Fails
<1>9. CASE Iterating
  BY <1>1, <1>6, <1>9 DEF Iterating, Lists, Resumes, Fetches, Begins, Saves, Returns, SaveFails, Stops
<1>10. ~(\E w \in Writers : Reads(w))
  BY <1>1 DEF Reads
<1> QED
  BY <1>7, <1>8, <1>9, <1>10 DEF Next

\* For any number of aborts, iterations and faults: the only updates that bring a finished task back
\* are the trigger's late save and, after an abort, the iteration's own (UpdateEntryUseCase's merge).
THEOREM OutcomeUndone == Spec => OutcomeUndoneOnlyHalfWay
<1>1. IInv /\ [Next]_vars => [UndoneHalfWay]_vars
  BY UndoneKept
<1> QED
  BY <1>1, Invariance, PTL DEF Spec, OutcomeUndoneOnlyHalfWay, UndoneHalfWay
=============================================================================
