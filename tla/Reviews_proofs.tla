--------------------------- MODULE Reviews_proofs ---------------------------
(***************************************************************************)
(* Proofs about Reviews: a stored review is sound at every moment, though   *)
(* copies of it overwrite each other, and only a copy that was overtaken    *)
(* loses anything.                                                          *)
(***************************************************************************)
EXTENDS Reviews, TLAPS

-----------------------------------------------------------------------------
(* What holds of a review, stored or about to be.                          *)

\* A step that was not reached has no task, and only a step that a task runs ever has one.
TasksInPlace(r) ==
    \A s \in StepIds : r.steps[s].task # None => r.steps[s].state # "pending" /\ s \in RunSteps

\* The current step may still have to be reached.
CanGoOn(r) ==
    r.state = "inProgress" => \A s \in StepIds : IsCurrent(r, s) =>
        r.steps[s].state = "pending" \/ SomeoneCanAct(r)

Tidy(r) == r \in Review /\ InOrder(r) /\ TasksInPlace(r)
Settled(r) == Tidy(r) /\ SomeoneCanAct(r)
Unreached(r) == Tidy(r) /\ CanGoOn(r)

\* It waits for a task to be triggered.
AwaitsTask(r) ==
    /\ Tidy(r)
    /\ \E s \in StepIds : InState(r, s, "pending")
    /\ \A s \in StepIds : InState(r, s, "pending") => s \in RunSteps

\* The step s of r is replaced, and the review's state.
Turned(r, n, s) ==
    /\ n \in Review
    /\ \A u \in StepIds : u # s => n.steps[u] = r.steps[u]

\* No step has a task that it did not have.
NoNewTask(r, n) == \A s \in StepIds : n.steps[s].task # None => n.steps[s].task = r.steps[s].task

Leads(r, n) == Keeps(r, n) /\ NoNewTask(r, n)

-----------------------------------------------------------------------------
(* The order of steps.                                                     *)

LEMMA StepIdsAreNumbers == StepIds \subseteq Nat
BY ReviewsAssumption DEF StepIds

LEMMA OneCurrent ==
    ASSUME NEW r, NEW s \in StepIds, NEW u \in StepIds, IsCurrent(r, s), IsCurrent(r, u)
    PROVE  s = u
BY StepIdsAreNumbers, SMT DEF IsCurrent

\* The operations of the aggregate, by what they leave of a step.
LEMMA InFacts ==
    ASSUME NEW r \in Review, NEW s \in StepIds, NEW state \in StepStates
    PROVE  /\ Turned(r, In(r, s, state), s)
           /\ In(r, s, state).state = r.state
           /\ In(r, s, state).steps[s] = [r.steps[s] EXCEPT !.state = state]
           /\ r.steps[s] \in Step
BY DEF In, Turned, Review, Step

LEMMA OwnedByFacts ==
    ASSUME NEW r \in Review, NEW s \in StepIds, NEW u \in Reviewers
    PROVE  /\ Turned(r, OwnedBy(r, s, u), s)
           /\ OwnedBy(r, s, u).state = r.state
           /\ OwnedBy(r, s, u).steps[s].state = "inReview"
           /\ OwnedBy(r, s, u).steps[s].owner = u
           /\ OwnedBy(r, s, u).steps[s].task = r.steps[s].task
           /\ OwnedBy(r, s, u).steps[s].runs = r.steps[s].runs
BY DEF OwnedBy, Turned, Review, Step, StepStates

LEMMA ReachedRunFacts ==
    ASSUME NEW r \in Review, NEW s \in StepIds, NEW t \in Tasks \cup {None}
    PROVE  /\ Turned(r, ReachedRun(r, s, t), s)
           /\ ReachedRun(r, s, t).state = r.state
           /\ ReachedRun(r, s, t).steps[s].state = "inReview"
           /\ ReachedRun(r, s, t).steps[s].task = t
           /\ ReachedRun(r, s, t).steps[s].runs = r.steps[s].runs
<1>1. r.steps[s] \in Step
  BY DEF Review
<1>2. [r.steps[s] EXCEPT !.state = "inReview", !.task = t] \in Step
  BY <1>1 DEF Step, StepStates
<1>3. ReachedRun(r, s, t) = [r EXCEPT !.steps[s] = [r.steps[s] EXCEPT !.state = "inReview", !.task = t]]
  BY DEF ReachedRun, Review
<1>4. ReachedRun(r, s, t).steps[s] = [r.steps[s] EXCEPT !.state = "inReview", !.task = t]
  BY <1>3 DEF Review
<1>5. Turned(r, ReachedRun(r, s, t), s) /\ ReachedRun(r, s, t).state = r.state
  BY <1>2, <1>3 DEF Turned, Review
<1> QED
  BY <1>1, <1>4, <1>5 DEF Step

LEMMA RestartedFacts ==
    ASSUME NEW r \in Review, NEW s \in StepIds
    PROVE  /\ Turned(r, Restarted(r, s), s)
           /\ Restarted(r, s).state = r.state
           /\ Restarted(r, s).steps[s].state = "pending"
           /\ Restarted(r, s).steps[s].task = None
           /\ Restarted(r, s).steps[s].runs = Attempts(r.steps[s])
BY DEF Restarted, Attempts, Turned, Review, Step, StepStates

LEMMA ApprovedFacts ==
    ASSUME NEW r \in Review, NEW s \in StepIds
    PROVE  /\ Turned(r, Approved(r, s), s)
           /\ Approved(r, s).steps[s] = [r.steps[s] EXCEPT !.state = "approved"]
           /\ Approved(r, s).state = IF \A u \in StepIds : Approved(r, s).steps[u].state = "approved"
                                     THEN "approved" ELSE "inProgress"
<1> DEFINE n == In(r, s, "approved")
<1>1. n \in Review
  BY InFacts DEF Turned, StepStates
<1>2. Approved(r, s) = [n EXCEPT !.state = IF \A u \in StepIds : n.steps[u].state = "approved"
                                           THEN "approved" ELSE "inProgress"]
  BY DEF Approved
<1>3. Approved(r, s).steps = n.steps /\ Approved(r, s) \in Review
  <2> HIDE DEF n
  <2> QED  BY <1>1, <1>2 DEF Review
<1>4. Approved(r, s).state = IF \A u \in StepIds : n.steps[u].state = "approved"
                             THEN "approved" ELSE "inProgress"
  <2> HIDE DEF n
  <2> QED  BY <1>1, <1>2 DEF Review
<1>5. Turned(r, n, s) /\ n.steps[s] = [r.steps[s] EXCEPT !.state = "approved"]
  BY InFacts DEF StepStates
<1> QED
  <2> HIDE DEF n
  <2> QED  BY <1>3, <1>4, <1>5 DEF Turned

LEMMA RejectedFacts ==
    ASSUME NEW r \in Review, NEW s \in StepIds
    PROVE  /\ Turned(r, Rejected(r, s), s)
           /\ Rejected(r, s).steps[s] = [r.steps[s] EXCEPT !.state = "rejected"]
           /\ Rejected(r, s).state = "rejected"
<1> DEFINE n == In(r, s, "rejected")
<1>1. n \in Review
  BY InFacts DEF Turned, StepStates
<1>2. Rejected(r, s) = [n EXCEPT !.state = "rejected"]
  BY DEF Rejected
<1>3. /\ Rejected(r, s).steps = n.steps /\ Rejected(r, s) \in Review
      /\ Rejected(r, s).state = "rejected"
  <2> HIDE DEF n
  <2> QED  BY <1>1, <1>2 DEF Review
<1>4. Turned(r, n, s) /\ n.steps[s] = [r.steps[s] EXCEPT !.state = "rejected"]
  BY InFacts DEF StepStates
<1> QED
  <2> HIDE DEF n
  <2> QED  BY <1>3, <1>4 DEF Turned

-----------------------------------------------------------------------------
(* What each operation keeps.                                              *)

LEMMA TurnedKeeps ==
    ASSUME NEW r \in Review, NEW n, NEW s \in StepIds, Turned(r, n, s),
           r.state = "inProgress", r.steps[s].state # "approved",
           Attempts(r.steps[s]) \subseteq Attempts(n.steps[s])
    PROVE  Keeps(r, n)
BY DEF Keeps, Turned

LEMMA KeepsIsTransitive ==
    ASSUME NEW a, NEW b, NEW c, Keeps(a, b), Keeps(b, c)
    PROVE  Keeps(a, c)
BY DEF Keeps

LEMMA LeadsIsTransitive ==
    ASSUME NEW a, NEW b, NEW c, Leads(a, b), Leads(b, c)
    PROVE  Leads(a, c)
BY KeepsIsTransitive DEF Leads, NoNewTask

LEMMA TurnedTidy ==
    ASSUME NEW r, NEW n, NEW s \in StepIds, Tidy(r), Turned(r, n, s), IsCurrent(r, s),
           r.state = "inProgress", n.state = "inProgress",
           n.steps[s].state \notin {"approved", "rejected"},
           n.steps[s].task # None => n.steps[s].state # "pending" /\ s \in RunSteps
    PROVE  Tidy(n) /\ IsCurrent(n, s) /\ \A u \in StepIds : IsCurrent(n, u) => u = s
<1>1. StepIds \subseteq Nat
  BY StepIdsAreNumbers
<1>2. InOrder(r) /\ r.steps[s].state # "approved"
  BY DEF Tidy, IsCurrent
<1>3. \A u \in StepIds : u < s => r.steps[u].state = "approved"
  BY DEF IsCurrent
<1>4. \A a, u \in StepIds : a < u /\ n.steps[a].state # "approved" =>
        n.steps[u].state = "pending" /\ n.steps[u].task = None /\ n.steps[u].runs = {}
  <2> SUFFICES ASSUME NEW a \in StepIds, NEW u \in StepIds, a < u, n.steps[a].state # "approved"
               PROVE  n.steps[u].state = "pending" /\ n.steps[u].task = None /\ n.steps[u].runs = {}
    OBVIOUS
  <2>1. u # s
    BY <1>1, <1>3 DEF Turned
  <2>2. r.steps[a].state # "approved"
    BY <1>2 DEF Turned
  <2> QED
    BY <2>1, <2>2, <1>2 DEF InOrder, Turned
<1>5. \A u \in StepIds : n.steps[u].state # "rejected"
  BY <1>2 DEF InOrder, Turned
<1>6. InOrder(n)
  BY <1>4, <1>5 DEF InOrder
<1>7. TasksInPlace(n)
  BY DEF Tidy, TasksInPlace, Turned
<1>8. IsCurrent(n, s)
  BY <1>1, <1>3 DEF IsCurrent, Turned
<1> QED
  BY <1>6, <1>7, <1>8, OneCurrent DEF Tidy, Turned

LEMMA OwnedByKeeps ==
    ASSUME NEW r, NEW s \in StepIds, NEW u \in Reviewers, Tidy(r), s \notin RunSteps,
           InState(r, s, "awaiting") \/ InState(r, s, "inReview") \/ InState(r, s, "pending")
    PROVE  Settled(OwnedBy(r, s, u)) /\ Leads(r, OwnedBy(r, s, u))
<1> DEFINE n == OwnedBy(r, s, u)
<1>1. r \in Review /\ IsCurrent(r, s) /\ r.state = "inProgress" /\ r.steps[s].state # "approved"
  BY DEF Tidy, InState
<1>2. /\ Turned(r, n, s) /\ n.state = r.state /\ n.steps[s].state = "inReview"
      /\ n.steps[s].owner = u /\ n.steps[s].task = r.steps[s].task /\ n.steps[s].runs = r.steps[s].runs
  BY <1>1, OwnedByFacts
<1>3. r.steps[s].task = None
  BY DEF Tidy, TasksInPlace
<1> HIDE DEF n
<1>4. Tidy(n) /\ \A v \in StepIds : IsCurrent(n, v) => v = s
  BY <1>1, <1>2, <1>3, TurnedTidy
<1>5. SomeoneCanAct(n)
  BY <1>2, <1>4, ReviewsAssumption DEF SomeoneCanAct
<1>6. Keeps(r, n)
  BY <1>1, <1>2, TurnedKeeps DEF Attempts
<1>20. NoNewTask(r, n)
  BY <1>2 DEF NoNewTask, Turned
<1> QED
  BY <1>4, <1>5, <1>6, <1>20 DEF Settled, Leads, n

LEMMA ReachedKeeps ==
    ASSUME NEW r, NEW s \in StepIds, NEW u \in Reviewers \cup {None}, Tidy(r), s \notin RunSteps,
           InState(r, s, "pending")
    PROVE  Settled(Reached(r, s, u)) /\ Leads(r, Reached(r, s, u))
<1>1. CASE u # None
  BY <1>1, OwnedByKeeps DEF Reached
<1>2. CASE u = None
  <2> DEFINE n == In(r, s, "awaiting")
  <2>1. r \in Review /\ IsCurrent(r, s) /\ r.state = "inProgress" /\ r.steps[s].state # "approved"
    BY DEF Tidy, InState
  <2>2. Turned(r, n, s) /\ n.state = r.state /\ n.steps[s] = [r.steps[s] EXCEPT !.state = "awaiting"]
        /\ r.steps[s] \in Step
    BY <2>1, InFacts DEF StepStates
  <2>3. Reached(r, s, u) = n
    BY <1>2 DEF Reached
  <2>4. r.steps[s].task = None
    BY DEF Tidy, TasksInPlace
  <2> HIDE DEF n
  <2>5. n.steps[s].state = "awaiting" /\ n.steps[s].task = r.steps[s].task
        /\ n.steps[s].runs = r.steps[s].runs
    BY <2>2 DEF Step
  <2>6. Tidy(n) /\ \A v \in StepIds : IsCurrent(n, v) => v = s
    BY <2>1, <2>2, <2>4, <2>5, TurnedTidy
  <2>7. SomeoneCanAct(n)
    BY <2>5, <2>6 DEF SomeoneCanAct
  <2>8. Keeps(r, n)
    BY <2>1, <2>2, <2>5, TurnedKeeps DEF Attempts
  <2>20. NoNewTask(r, n)
    BY <2>2, <2>5 DEF NoNewTask, Turned
  <2> QED
    BY <2>3, <2>6, <2>7, <2>8, <2>20 DEF Settled, Leads
<1> QED
  BY <1>1, <1>2

\* Also without a task, to be failed at once.
LEMMA ReachedRunKeeps ==
    ASSUME NEW r, NEW s \in StepIds, NEW t \in Tasks \cup {None}, Tidy(r), s \in RunSteps,
           InState(r, s, "pending")
    PROVE  LET n == ReachedRun(r, s, t)
           IN  /\ Tidy(n) /\ InState(n, s, "inReview") /\ Keeps(r, n)
               /\ t # None => Settled(n)
               /\ \A u \in StepIds : n.steps[u].task \in {t, r.steps[u].task}
<1> DEFINE n == ReachedRun(r, s, t)
<1>1. r \in Review /\ IsCurrent(r, s) /\ r.state = "inProgress" /\ r.steps[s].state # "approved"
  BY DEF Tidy, InState
<1>2. /\ Turned(r, n, s) /\ n.state = r.state /\ n.steps[s].state = "inReview"
      /\ n.steps[s].task = t /\ n.steps[s].runs = r.steps[s].runs
  BY <1>1, ReachedRunFacts
<1>3. r.steps[s].task = None
  BY DEF Tidy, TasksInPlace, InState
<1> HIDE DEF n
<1>4. Tidy(n) /\ IsCurrent(n, s) /\ \A v \in StepIds : IsCurrent(n, v) => v = s
  BY <1>1, <1>2, TurnedTidy
<1>5. t # None => SomeoneCanAct(n)
  BY <1>2, <1>4 DEF SomeoneCanAct
<1>6. Keeps(r, n)
  BY <1>1, <1>2, <1>3, TurnedKeeps DEF Attempts
<1>7. InState(n, s, "inReview")
  BY <1>1, <1>2, <1>4 DEF InState
<1>8. \A u \in StepIds : n.steps[u].task \in {t, r.steps[u].task}
  BY <1>2 DEF Turned
<1> QED
  BY <1>8, <1>4, <1>5, <1>6, <1>7 DEF Settled, n

LEMMA FailedKeeps ==
    ASSUME NEW r, NEW s \in StepIds, Tidy(r), s \in RunSteps, InState(r, s, "inReview")
    PROVE  Settled(Failed(r, s)) /\ Leads(r, Failed(r, s))
<1> DEFINE n == Failed(r, s)
<1>1. r \in Review /\ IsCurrent(r, s) /\ r.state = "inProgress" /\ r.steps[s].state # "approved"
  BY DEF Tidy, InState
<1>2. Turned(r, n, s) /\ n.state = r.state /\ n.steps[s] = [r.steps[s] EXCEPT !.state = "failed"]
      /\ r.steps[s] \in Step
  BY <1>1, InFacts DEF StepStates, Failed
<1> HIDE DEF n
<1>3. n.steps[s].state = "failed" /\ n.steps[s].task = r.steps[s].task
      /\ n.steps[s].runs = r.steps[s].runs
  BY <1>2 DEF Step
<1>4. Tidy(n) /\ \A v \in StepIds : IsCurrent(n, v) => v = s
  BY <1>1, <1>2, <1>3, TurnedTidy
<1>5. SomeoneCanAct(n)
  BY <1>3, <1>4 DEF SomeoneCanAct
<1>6. Keeps(r, n)
  BY <1>1, <1>2, <1>3, TurnedKeeps DEF Attempts
<1>20. NoNewTask(r, n)
  BY <1>2, <1>3 DEF NoNewTask, Turned
<1> QED
  BY <1>4, <1>5, <1>6, <1>20 DEF Settled, Leads, n

LEMMA RestartedKeeps ==
    ASSUME NEW r, NEW s \in StepIds, Tidy(r), InState(r, s, "failed")
    PROVE  Unreached(Restarted(r, s)) /\ Leads(r, Restarted(r, s))
<1> DEFINE n == Restarted(r, s)
<1>1. r \in Review /\ IsCurrent(r, s) /\ r.state = "inProgress" /\ r.steps[s].state # "approved"
  BY DEF Tidy, InState
<1>2. /\ Turned(r, n, s) /\ n.state = r.state /\ n.steps[s].state = "pending"
      /\ n.steps[s].task = None /\ n.steps[s].runs = Attempts(r.steps[s])
  BY <1>1, RestartedFacts
<1> HIDE DEF n
<1>4. Tidy(n) /\ \A v \in StepIds : IsCurrent(n, v) => v = s
  BY <1>1, <1>2, TurnedTidy
<1>5. CanGoOn(n)
  BY <1>2, <1>4 DEF CanGoOn
<1>6. Keeps(r, n)
  BY <1>1, <1>2, TurnedKeeps DEF Attempts
<1>20. NoNewTask(r, n)
  BY <1>2 DEF NoNewTask, Turned
<1> QED
  BY <1>4, <1>5, <1>6, <1>20 DEF Unreached, Leads, n

\* The step after an approved one was never reached.
LEMMA ApprovedKeeps ==
    ASSUME NEW r, NEW s \in StepIds, Tidy(r), InState(r, s, "inReview")
    PROVE  Unreached(Approved(r, s)) /\ Leads(r, Approved(r, s))
<1> DEFINE n == Approved(r, s)
<1>1. r \in Review /\ IsCurrent(r, s) /\ r.state = "inProgress" /\ r.steps[s].state = "inReview"
      /\ InOrder(r)
  BY DEF Tidy, InState
<1>2. /\ Turned(r, n, s) /\ n.steps[s] = [r.steps[s] EXCEPT !.state = "approved"]
      /\ n.state = IF \A u \in StepIds : n.steps[u].state = "approved" THEN "approved" ELSE "inProgress"
      /\ r.steps[s] \in Step
  BY <1>1, ApprovedFacts DEF Review
<1> HIDE DEF n
<1>3. n.steps[s].state = "approved" /\ n.steps[s].task = r.steps[s].task
      /\ n.steps[s].runs = r.steps[s].runs
  BY <1>2 DEF Step
<1>4. StepIds \subseteq Nat
  BY StepIdsAreNumbers
<1>5. \A u \in StepIds : u < s => n.steps[u].state = "approved"
  BY <1>1, <1>2, <1>4 DEF IsCurrent, Turned
<1>6. \A u \in StepIds : s < u =>
        n.steps[u].state = "pending" /\ n.steps[u].task = None /\ n.steps[u].runs = {}
  <2> SUFFICES ASSUME NEW u \in StepIds, s < u
               PROVE  n.steps[u].state = "pending" /\ n.steps[u].task = None /\ n.steps[u].runs = {}
    OBVIOUS
  <2>1. u # s
    BY <1>4
  <2> QED
    BY <2>1, <1>1, <1>2 DEF InOrder, Turned
<1>7. \A u \in StepIds : n.steps[u].state # "approved" => s < u
  <2> SUFFICES ASSUME NEW u \in StepIds, n.steps[u].state # "approved"
               PROVE  s < u
    OBVIOUS
  <2>1. u # s /\ ~(u < s)
    BY <1>3, <1>5
  <2> QED
    BY <2>1, <1>4
<1>8. \A a, u \in StepIds : a < u /\ n.steps[a].state # "approved" =>
        n.steps[u].state = "pending" /\ n.steps[u].task = None /\ n.steps[u].runs = {}
  <2> SUFFICES ASSUME NEW a \in StepIds, NEW u \in StepIds, a < u, n.steps[a].state # "approved"
               PROVE  s < u
    BY <1>6
  <2>1. s < a
    BY <1>7
  <2> QED
    BY <2>1, <1>4
<1>9. \A u \in StepIds : n.steps[u].state # "rejected"
  BY <1>1, <1>2, <1>3 DEF InOrder, Turned
<1>10. InOrder(n)
  BY <1>2, <1>8, <1>9 DEF InOrder
<1>11. TasksInPlace(n)
  BY <1>2, <1>3, <1>1 DEF Tidy, TasksInPlace, Turned
<1>12. CanGoOn(n)
  BY <1>6, <1>7 DEF CanGoOn, IsCurrent
<1>13. Keeps(r, n)
  BY <1>1, <1>2, <1>3, TurnedKeeps DEF Attempts
<1>20. NoNewTask(r, n)
  BY <1>2, <1>3 DEF NoNewTask, Turned
<1> QED
  BY <1>2, <1>10, <1>11, <1>12, <1>13, <1>20 DEF Unreached, Tidy, Turned, Leads, n

LEMMA RejectedKeeps ==
    ASSUME NEW r, NEW s \in StepIds, Tidy(r), InState(r, s, "inReview")
    PROVE  Settled(Rejected(r, s)) /\ Leads(r, Rejected(r, s))
<1> DEFINE n == Rejected(r, s)
<1>1. r \in Review /\ IsCurrent(r, s) /\ r.state = "inProgress" /\ r.steps[s].state = "inReview"
      /\ InOrder(r)
  BY DEF Tidy, InState
<1>2. /\ Turned(r, n, s) /\ n.steps[s] = [r.steps[s] EXCEPT !.state = "rejected"]
      /\ n.state = "rejected" /\ r.steps[s] \in Step
  BY <1>1, RejectedFacts DEF Review
<1> HIDE DEF n
<1>3. n.steps[s].state = "rejected" /\ n.steps[s].task = r.steps[s].task
      /\ n.steps[s].runs = r.steps[s].runs
  BY <1>2 DEF Step
<1>4. \A a, u \in StepIds : a < u /\ n.steps[a].state # "approved" =>
        n.steps[u].state = "pending" /\ n.steps[u].task = None /\ n.steps[u].runs = {}
  <2> SUFFICES ASSUME NEW a \in StepIds, NEW u \in StepIds, a < u, n.steps[a].state # "approved"
               PROVE  n.steps[u].state = "pending" /\ n.steps[u].task = None /\ n.steps[u].runs = {}
    OBVIOUS
  <2>1. r.steps[a].state # "approved"
    BY <1>1, <1>2 DEF Turned
  <2>2. u # s
    BY <2>1, <1>1 DEF IsCurrent
  <2> QED
    BY <2>1, <2>2, <1>1, <1>2 DEF InOrder, Turned
<1>5. InOrder(n)
  BY <1>2, <1>3, <1>4 DEF InOrder
<1>6. TasksInPlace(n)
  BY <1>2, <1>3, <1>1 DEF Tidy, TasksInPlace, Turned
<1>7. Keeps(r, n)
  BY <1>1, <1>2, <1>3, TurnedKeeps DEF Attempts
<1>8. SomeoneCanAct(n)
  BY <1>2 DEF SomeoneCanAct
<1>20. NoNewTask(r, n)
  BY <1>2, <1>3 DEF NoNewTask, Turned
<1> QED
  BY <1>2, <1>5, <1>6, <1>7, <1>8, <1>20 DEF Settled, Tidy, Turned, Leads, n

LEMMA CancelledKeeps ==
    ASSUME NEW r, Tidy(r), r.state = "inProgress"
    PROVE  Settled(Cancelled(r)) /\ Leads(r, Cancelled(r))
<1> DEFINE n == Cancelled(r)
<1>1. n \in Review /\ n.state = "cancelled" /\ n.steps = r.steps
  BY DEF Cancelled, Tidy, Review
<1> HIDE DEF n
<1>2. InOrder(n) /\ TasksInPlace(n) /\ SomeoneCanAct(n)
  BY <1>1 DEF Tidy, InOrder, TasksInPlace, SomeoneCanAct
<1>3. Keeps(r, n)
  BY <1>1 DEF Keeps
<1>20. NoNewTask(r, n)
  BY <1>1 DEF NoNewTask, Turned
<1> QED
  BY <1>1, <1>2, <1>3, <1>20 DEF Settled, Tidy, Leads, n

LEMMA NewIsUnreached ==
    Unreached(NewReview) /\ \A s \in StepIds : NewReview.steps[s].task = None
<1>1. /\ NewReview \in Review /\ NewReview.state = "inProgress"
      /\ \A s \in StepIds : /\ NewReview.steps[s].state = "pending"
                            /\ NewReview.steps[s].task = None /\ NewReview.steps[s].runs = {}
  BY DEF NewReview, Review, Step, StepStates
<1>2. 1 \in StepIds
  BY ReviewsAssumption DEF StepIds
<1> HIDE DEF NewReview
<1>3. InOrder(NewReview)
  BY <1>1, <1>2 DEF InOrder
<1> QED
  BY <1>1, <1>3 DEF Unreached, Tidy, TasksInPlace, CanGoOn

\* How the next step is reached: a call that is about to save, or to trigger a task.
LEMMA ReachedAndSaved ==
    ASSUME NEW x \in Callers, NEW r, NEW kind, Unreached(r), ReachAndSave(x, r, kind)
    PROVE  \E stage \in {"save", "trigger"}, d \in Review :
              /\ Goes(x, stage, kind, d, None)
              /\ Leads(r, d)
              /\ stage = "save" => Settled(d)
              /\ stage = "trigger" => AwaitsTask(d)
<1>1. r \in Review /\ Tidy(r)
  BY DEF Unreached, Tidy
<1>2. Leads(r, r)
  BY DEF Leads, Keeps, NoNewTask
<1>3. CASE /\ \A s \in StepIds : ~InState(r, s, "pending")
           /\ Goes(x, "save", kind, r, None)
  <2>1. SomeoneCanAct(r)
    BY <1>3 DEF Unreached, CanGoOn, InState, SomeoneCanAct
  <2> QED
    BY <1>1, <1>2, <1>3, <2>1 DEF Settled
<1>4. CASE \E s \in StepIds : InState(r, s, "pending") /\ s \in RunSteps
                              /\ Goes(x, "trigger", kind, r, None)
  <2>1. AwaitsTask(r)
    BY <1>1, <1>4, OneCurrent DEF AwaitsTask, InState
  <2> QED
    BY <1>1, <1>2, <1>4, <2>1
<1>5. CASE \E s \in StepIds : InState(r, s, "pending") /\ s \notin RunSteps
                /\ \E u \in Reviewers \cup {None} : Goes(x, "save", kind, Reached(r, s, u), None)
  <2>1. PICK s \in StepIds, u \in Reviewers \cup {None} :
           InState(r, s, "pending") /\ s \notin RunSteps /\ Goes(x, "save", kind, Reached(r, s, u), None)
    BY <1>5
  <2>2. Settled(Reached(r, s, u)) /\ Leads(r, Reached(r, s, u))
    BY <1>1, <2>1, ReachedKeeps
  <2> QED
    BY <2>1, <2>2 DEF Settled, Tidy
<1> QED
  BY <1>3, <1>4, <1>5 DEF ReachAndSave

-----------------------------------------------------------------------------
(* The invariant.                                                          *)

\* The tasks of r's steps were triggered.
Known(r) == \A s \in StepIds : r.steps[s].task # None => task[r.steps[s].task] # None

\* A call that saves brings a settled review, which keeps what is stored if it is fresh; one that
\* aborts or looks into a task has one.
CallInv(x) ==
    /\ x \in Tasks => task[x] # None
    /\ call[x].victim # None => task[call[x].victim] # None
    /\ call[x].stage \in {"abort", "hook", "stuck"} => call[x].victim # None
    /\ call[x].stage = "save" => Settled(call[x].data)
    /\ call[x].stage = "trigger" => AwaitsTask(call[x].data)
    /\ call[x].stage \in {"save", "trigger"} =>
          /\ Known(call[x].data)
          /\ call[x].fresh /\ Exists(review) => Keeps(review, call[x].data)

IInv ==
    /\ TypeOK
    /\ Exists(review) => Settled(review) /\ Known(review)
    /\ \A x \in Callers : call[x] # None => CallInv(x)

TasksStay == \A t \in Tasks : task[t] # None => task'[t] # None

\* What a step that leaves the review alone keeps of a call it does not touch.
LEMMA CallStays ==
    ASSUME TypeOK, TypeOK', NEW x \in Callers, call[x] # None, CallInv(x), TasksStay, review' = review,
           call'[x] = call[x]
    PROVE  CallInv(x)'
<1> DEFINE c == call[x]
<1>1. c \in Call
  BY DEF TypeOK
<1>2. /\ x \in Tasks => task'[x] # None
      /\ c.victim # None => task'[c.victim] # None
  BY <1>1 DEF CallInv, TasksStay, Call
<1>3. c.stage \in {"save", "trigger"} => c.data \in Review
  BY DEF CallInv, Settled, Tidy, AwaitsTask
<1>4. ASSUME c.stage \in {"save", "trigger"}, NEW s \in StepIds, c.data.steps[s].task # None
      PROVE  task'[c.data.steps[s].task] # None
  <2>1. c.data.steps[s].task \in Tasks
    BY <1>3, <1>4 DEF Review, Step
  <2>2. task[c.data.steps[s].task] # None
    BY <1>4 DEF CallInv, Known
  <2> QED
    BY <2>1, <2>2 DEF TasksStay
<1> QED
  BY <1>2, <1>4 DEF CallInv, Known

LEMMA ReviewStays ==
    ASSUME IInv, TypeOK', TasksStay, review' = review
    PROVE  Exists(review') => Settled(review') /\ Known(review)'
<1> SUFFICES ASSUME Exists(review)
             PROVE  Known(review)'
  BY DEF IInv
<1>1. review \in Review
  BY DEF IInv, Settled, Tidy
<1>2. ASSUME NEW s \in StepIds, review.steps[s].task # None
      PROVE  task'[review.steps[s].task] # None
  <2>1. review.steps[s].task \in Tasks
    BY <1>1, <1>2 DEF Review, Step
  <2> QED
    BY <1>2, <2>1 DEF IInv, Known, TasksStay
<1> QED
  BY <1>2 DEF Known

\* A step that leaves the review alone and changes one call.
LEMMA QuietStep ==
    ASSUME IInv, TypeOK', TasksStay, review' = review, NEW x \in Callers,
           \A y \in Callers : y # x => call'[y] = call[y],
           call'[x] # None => CallInv(x)'
    PROVE  IInv'
<1>1. \A y \in Callers : y # x /\ call'[y] # None => CallInv(y)'
  BY CallStays DEF IInv
<1> QED
  BY <1>1, ReviewStays DEF IInv

LEMMA CallType ==
    ASSUME call \in [Callers -> Call \cup {None}], NEW x \in Callers, NEW stage \in CallStages,
           NEW kind \in Kinds, NEW data \in Review \cup {None}, NEW victim \in Tasks \cup {None},
           Goes(x, stage, kind, data, victim)
    PROVE  /\ call' \in [Callers -> Call \cup {None}]
           /\ call'[x] = [stage |-> stage, kind |-> kind, data |-> data, victim |-> victim, fresh |-> TRUE]
           /\ \A y \in Callers : y # x => call'[y] = call[y]
<1>1. [stage |-> stage, kind |-> kind, data |-> data, victim |-> victim, fresh |-> TRUE] \in Call
  BY DEF Call
<1> QED
  BY <1>1 DEF Goes

\* A call goes on with what it found.
LEMMA GoesStep ==
    ASSUME IInv, TasksStay, review' = review, task' \in [Tasks -> Task \cup {None}],
           used' \in [requests : Nat, faults : Nat],
           NEW x \in Callers, NEW stage \in CallStages, NEW kind \in Kinds,
           NEW data \in Review \cup {None}, NEW victim \in Tasks \cup {None},
           Goes(x, stage, kind, data, victim),
           x \in Tasks => task[x] # None,
           victim # None => task[victim] # None,
           stage \in {"abort", "hook", "stuck"} => victim # None,
           stage = "save" => Settled(data),
           stage = "trigger" => AwaitsTask(data),
           stage \in {"save", "trigger"} => Known(data) /\ (Exists(review) => Keeps(review, data))
    PROVE  IInv'
<1>1. /\ call' \in [Callers -> Call \cup {None}]
      /\ call'[x] = [stage |-> stage, kind |-> kind, data |-> data, victim |-> victim, fresh |-> TRUE]
      /\ \A y \in Callers : y # x => call'[y] = call[y]
  BY CallType DEF IInv, TypeOK
<1>2. TypeOK'
  BY <1>1 DEF IInv, TypeOK
<1>3. stage \in {"save", "trigger"} => data \in Review
  BY DEF Settled, AwaitsTask, Tidy
<1>4. ASSUME stage \in {"save", "trigger"}, NEW s \in StepIds, data.steps[s].task # None
      PROVE  task'[data.steps[s].task] # None
  <2>1. data.steps[s].task \in Tasks
    BY <1>3, <1>4 DEF Review, Step
  <2>2. task[data.steps[s].task] # None
    BY <1>4 DEF Known
  <2> QED
    BY <2>1, <2>2 DEF TasksStay
<1>5. CallInv(x)'
  BY <1>1, <1>4 DEF CallInv, Known, TasksStay
<1> QED
  BY <1>1, <1>2, <1>5, QuietStep

LEMMA ReturnsStep ==
    ASSUME IInv, TasksStay, review' = review, task' \in [Tasks -> Task \cup {None}],
           used' \in [requests : Nat, faults : Nat], NEW x \in Callers, Returns(x)
    PROVE  IInv'
<1>1. /\ call' \in [Callers -> Call \cup {None}] /\ call'[x] = None
      /\ \A y \in Callers : y # x => call'[y] = call[y]
  BY DEF IInv, TypeOK, Returns
<1>2. TypeOK'
  BY <1>1 DEF IInv, TypeOK
<1> QED
  BY <1>1, <1>2, QuietStep

LEMMA MovesStep ==
    ASSUME IInv, TasksStay, review' = review, task' \in [Tasks -> Task \cup {None}],
           used' \in [requests : Nat, faults : Nat], NEW x \in Callers, call[x] # None,
           call[x].victim # None, NEW stage \in {"abort", "hook"}, Moves(x, stage)
    PROVE  IInv'
<1>1. call[x] \in Call
  BY DEF IInv, TypeOK
<1>2. /\ call' \in [Callers -> Call \cup {None}] /\ call'[x] = [call[x] EXCEPT !.stage = stage]
      /\ \A y \in Callers : y # x => call'[y] = call[y]
  BY <1>1 DEF IInv, TypeOK, Moves, Call, CallStages
<1>3. TypeOK'
  BY <1>2 DEF IInv, TypeOK
<1>4. call'[x].stage = stage /\ call'[x].victim = call[x].victim /\ call[x].victim \in Tasks
  BY <1>1, <1>2 DEF Call
<1>5. CallInv(x)'
  BY <1>4 DEF IInv, CallInv, TasksStay
<1> QED
  BY <1>2, <1>3, <1>5, QuietStep

\* The calls of a step that changes no call.
LEMMA TaskOnlyStep ==
    ASSUME IInv, TasksStay, review' = review, task' \in [Tasks -> Task \cup {None}],
           used' \in [requests : Nat, faults : Nat], call' = call
    PROVE  IInv'
<1>1. TypeOK'
  BY DEF IInv, TypeOK
<1>2. \A y \in Callers : call'[y] # None => CallInv(y)'
  BY <1>1, CallStays DEF IInv
<1> QED
  BY <1>1, <1>2, ReviewStays DEF IInv

-----------------------------------------------------------------------------
(* Requests.                                                               *)

LEMMA StoredIsSettled ==
    ASSUME IInv, Exists(review)
    PROVE  /\ Settled(review) /\ Tidy(review) /\ Known(review) /\ review \in Review
           /\ Leads(review, review)
BY DEF IInv, Settled, Tidy, Leads, Keeps, NoNewTask

LEMMA KnownFollows ==
    ASSUME NEW r, NEW n, Leads(r, n), Known(r)
    PROVE  Known(n) /\ Keeps(r, n)
BY DEF Leads, NoNewTask, Known

LEMMA AsksStep ==
    ASSUME IInv, NEW c \in Clients, Asks(c)
    PROVE  /\ TasksStay /\ review' = review /\ task' \in [Tasks -> Task \cup {None}]
           /\ used' \in [requests : Nat, faults : Nat]
           /\ c \in Callers /\ c \notin Tasks /\ Exists(review)
BY ReviewsAssumption DEF IInv, TypeOK, Asks, Asked, TasksStay, Callers

\* A request that is to save what follows from the stored review.
LEMMA SavesStep ==
    ASSUME IInv, NEW c \in Clients, Asks(c), NEW r, Settled(r), Leads(review, r), Saves(c, r)
    PROVE  IInv'
<1>1. /\ TasksStay /\ review' = review /\ task' \in [Tasks -> Task \cup {None}]
      /\ used' \in [requests : Nat, faults : Nat] /\ c \in Callers /\ c \notin Tasks /\ Exists(review)
  BY AsksStep
<1>2. Known(r) /\ Keeps(review, r)
  BY <1>1, StoredIsSettled, KnownFollows
<1>3. r \in Review \cup {None} /\ "save" \in CallStages /\ "change" \in Kinds /\ None \in Tasks \cup {None}
  BY DEF Settled, Tidy, CallStages, Kinds
<1>4. Goes(c, "save", "change", r, None)
  BY DEF Saves
<1> QED
  BY <1>1, <1>2, <1>3, <1>4, GoesStep

\* A caller that reaches the next step of what follows from the stored review.
LEMMA ReachesStep ==
    ASSUME IInv, TasksStay, review' = review, task' \in [Tasks -> Task \cup {None}],
           used' \in [requests : Nat, faults : Nat], NEW x \in Callers, NEW kind \in Kinds,
           x \in Tasks => task[x] # None,
           NEW r, Unreached(r), Known(r), Exists(review) => Leads(review, r),
           ReachAndSave(x, r, kind)
    PROVE  IInv'
<1>1. PICK stage \in {"save", "trigger"}, d \in Review :
        /\ Goes(x, stage, kind, d, None)
        /\ Leads(r, d)
        /\ stage = "save" => Settled(d)
        /\ stage = "trigger" => AwaitsTask(d)
  BY ReachedAndSaved
<1>2. Known(d)
  BY <1>1, KnownFollows
<1>3. Exists(review) => Keeps(review, d)
  BY <1>1, LeadsIsTransitive DEF Leads
<1>4. stage \in CallStages /\ stage \notin {"abort", "hook", "stuck"}
  BY <1>1 DEF CallStages
<1>5. d \in Review \cup {None} /\ None \in Tasks \cup {None}
  OBVIOUS
<1> QED
  BY <1>1, <1>2, <1>3, <1>4, <1>5, GoesStep

LEMMA RequestReviewKeepsInv ==
    ASSUME IInv, NEW c \in Clients, RequestReview(c)
    PROVE  IInv'
<1>1. /\ TasksStay /\ review' = review /\ task' \in [Tasks -> Task \cup {None}]
      /\ used' \in [requests : Nat, faults : Nat] /\ c \in Callers /\ c \notin Tasks /\ ~Exists(review)
  BY ReviewsAssumption DEF RequestReview, Asked, IInv, TypeOK, TasksStay, Callers, Exists
<1>2. Unreached(NewReview) /\ Known(NewReview)
  BY NewIsUnreached DEF Known
<1>3. "create" \in Kinds
  BY DEF Kinds
<1>4. ReachAndSave(c, NewReview, "create")
  BY DEF RequestReview
<1> QED
  BY <1>1, <1>2, <1>3, <1>4, ReachesStep

LEMMA RunningTaskIsKnown ==
    ASSUME IInv, Exists(review)
    PROVE  RunningTask(review) \in Tasks \cup {None}
           /\ (RunningTask(review) # None => task[RunningTask(review)] # None)
<1> DEFINE running == {t \in Tasks : \E s \in StepIds :
              IsCurrent(review, s) /\ review.steps[s].state = "inReview" /\ review.steps[s].task = t}
<1>1. RunningTask(review) = IF running = {} THEN None ELSE CHOOSE t \in running : TRUE
  BY DEF RunningTask
<1>2. \A t \in running : t \in Tasks /\ task[t] # None
  BY StoredIsSettled, ReviewsAssumption DEF Known
<1> HIDE DEF running
<1>3. CASE running = {}
  BY <1>1, <1>3
<1>4. CASE running # {}
  <2>1. RunningTask(review) \in running
    BY <1>1, <1>4
  <2> QED
    BY <2>1, <1>2
<1> QED
  BY <1>3, <1>4

LEMMA CancelKeepsInv ==
    ASSUME IInv, NEW c \in Clients, Cancel(c)
    PROVE  IInv'
<1>1. /\ TasksStay /\ review' = review /\ task' \in [Tasks -> Task \cup {None}]
      /\ used' \in [requests : Nat, faults : Nat] /\ c \in Callers /\ c \notin Tasks /\ Exists(review)
  BY AsksStep DEF Cancel
<1>2. Settled(Cancelled(review)) /\ Leads(review, Cancelled(review))
  BY <1>1, StoredIsSettled, CancelledKeeps DEF Cancel
<1>3. Known(Cancelled(review)) /\ Keeps(review, Cancelled(review))
  BY <1>1, <1>2, StoredIsSettled, KnownFollows
<1>4. Cancelled(review) \in Review \cup {None} /\ "save" \in CallStages /\ "cancel" \in Kinds
  BY <1>2 DEF Settled, Tidy, CallStages, Kinds
<1>5. Goes(c, "save", "cancel", Cancelled(review), RunningTask(review))
  BY DEF Cancel
<1> QED
  BY <1>1, <1>2, <1>3, <1>4, <1>5, RunningTaskIsKnown, GoesStep

LEMMA DeleteKeepsInv ==
    ASSUME IInv, NEW c \in Clients, Delete(c)
    PROVE  IInv'
<1>1. /\ TasksStay /\ review' = review /\ task' \in [Tasks -> Task \cup {None}]
      /\ used' \in [requests : Nat, faults : Nat] /\ c \in Callers /\ c \notin Tasks /\ Exists(review)
  BY AsksStep DEF Delete
<1>2. None \in Review \cup {None} /\ "erase" \in CallStages /\ "change" \in Kinds
  BY DEF CallStages, Kinds
<1>3. Goes(c, "erase", "change", None, RunningTask(review))
  BY DEF Delete
<1> QED
  BY <1>1, <1>2, <1>3, RunningTaskIsKnown, GoesStep

LEMMA AbortRunKeepsInv ==
    ASSUME IInv, NEW c \in Clients, NEW t \in Tasks, AbortRun(c, t)
    PROVE  IInv'
<1>1. /\ TasksStay /\ review' = review /\ task' \in [Tasks -> Task \cup {None}]
      /\ used' \in [requests : Nat, faults : Nat] /\ c \in Callers /\ c \notin Tasks
  BY AsksStep DEF AbortRun
<1>2. None \in Review \cup {None} /\ "abort" \in CallStages /\ "change" \in Kinds /\ t \in Tasks \cup {None}
      /\ t # None
  BY ReviewsAssumption DEF CallStages, Kinds
<1>3. Goes(c, "abort", "change", None, t) /\ task[t] # None
  BY DEF AbortRun
<1> QED
  BY <1>1, <1>2, <1>3, GoesStep

LEMMA FindStuckKeepsInv ==
    ASSUME IInv, NEW c \in Clients, FindStuck(c)
    PROVE  IInv'
<1>1. /\ TasksStay /\ review' = review /\ task' \in [Tasks -> Task \cup {None}]
      /\ used' \in [requests : Nat, faults : Nat] /\ c \in Callers /\ c \notin Tasks
  BY ReviewsAssumption DEF FindStuck, IInv, TypeOK, TasksStay, Callers
<1>2. PICK s \in StepIds, t \in Tasks : Carries(review, s, t) /\ Goes(c, "stuck", "hook", None, t)
  BY DEF FindStuck
<1>3. task[t] # None /\ t # None
  BY <1>2, StoredIsSettled, ReviewsAssumption DEF Carries, Known
<1>4. None \in Review \cup {None} /\ "stuck" \in CallStages /\ "hook" \in Kinds /\ t \in Tasks \cup {None}
  BY DEF CallStages, Kinds
<1> QED
  BY <1>1, <1>2, <1>3, <1>4, GoesStep

LEMMA StepRequestKeepsInv ==
    ASSUME IInv, NEW c \in Clients, NEW s \in StepIds, NEW u \in Reviewers,
           \/ StartStep(c, s, u) \/ TakeOver(c, s, u) \/ Reassign(c, s, u)
           \/ Approve(c, s, u) \/ Reject(c, s, u)
    PROVE  IInv'
<1>0. Asks(c)
  BY DEF StartStep, TakeOver, Reassign, Approve, Reject
<1>1. /\ TasksStay /\ review' = review /\ task' \in [Tasks -> Task \cup {None}]
      /\ used' \in [requests : Nat, faults : Nat] /\ c \in Callers /\ c \notin Tasks /\ Exists(review)
  BY <1>0, AsksStep
<1>2. Settled(review) /\ Tidy(review) /\ Known(review)
  BY <1>1, StoredIsSettled
<1>3. CASE StartStep(c, s, u) \/ TakeOver(c, s, u) \/ Reassign(c, s, u)
  <2>1. Saves(c, OwnedBy(review, s, u))
    BY <1>3 DEF StartStep, TakeOver, Reassign
  <2>2. InState(review, s, "awaiting") \/ InState(review, s, "inReview")
    BY <1>3 DEF StartStep, TakeOver, Reassign, Held
  <2>3. s \notin RunSteps
    BY <1>2, <1>3 DEF StartStep, TakeOver, Reassign, Held, InState, Settled, SomeoneCanAct
  <2>4. Settled(OwnedBy(review, s, u)) /\ Leads(review, OwnedBy(review, s, u))
    BY <1>2, <2>2, <2>3, OwnedByKeeps
  <2> QED
    BY <1>0, <2>1, <2>4, SavesStep
<1>4. CASE Reject(c, s, u)
  <2>1. Saves(c, Rejected(review, s)) /\ InState(review, s, "inReview")
    BY <1>4 DEF Reject, Held
  <2>2. Settled(Rejected(review, s)) /\ Leads(review, Rejected(review, s))
    BY <1>2, <2>1, RejectedKeeps
  <2> QED
    BY <1>0, <2>1, <2>2, SavesStep
<1>5. CASE Approve(c, s, u)
  <2>1. ReachAndSave(c, Approved(review, s), "change") /\ InState(review, s, "inReview")
    BY <1>5 DEF Approve, Held
  <2>2. Unreached(Approved(review, s)) /\ Leads(review, Approved(review, s))
    BY <1>2, <2>1, ApprovedKeeps
  <2>3. Known(Approved(review, s)) /\ "change" \in Kinds
    BY <1>2, <2>2, KnownFollows DEF Kinds
  <2> QED
    BY <1>1, <2>1, <2>2, <2>3, ReachesStep
<1> QED
  BY <1>3, <1>4, <1>5

LEMMA RestartStepKeepsInv ==
    ASSUME IInv, NEW c \in Clients, NEW s \in StepIds, RestartStep(c, s)
    PROVE  IInv'
<1>1. /\ TasksStay /\ review' = review /\ task' \in [Tasks -> Task \cup {None}]
      /\ used' \in [requests : Nat, faults : Nat] /\ c \in Callers /\ c \notin Tasks /\ Exists(review)
  BY AsksStep DEF RestartStep
<1>2. Tidy(review) /\ Known(review)
  BY <1>1, StoredIsSettled
<1>3. ReachAndSave(c, Restarted(review, s), "change") /\ InState(review, s, "failed")
  BY DEF RestartStep
<1>4. Unreached(Restarted(review, s)) /\ Leads(review, Restarted(review, s))
  BY <1>2, <1>3, RestartedKeeps
<1>5. Known(Restarted(review, s)) /\ "change" \in Kinds
  BY <1>2, <1>4, KnownFollows DEF Kinds
<1> QED
  BY <1>1, <1>3, <1>4, <1>5, ReachesStep

-----------------------------------------------------------------------------
(* Calls under way.                                                        *)

LEMMA CallerFacts ==
    ASSUME IInv, NEW x \in Callers, NEW stage \in CallStages, At(x, stage)
    PROVE  /\ call[x] \in Call /\ call[x] # None /\ call[x].stage = stage /\ CallInv(x)
           /\ call[x].victim \in Tasks \cup {None}
BY DEF IInv, TypeOK, At, Call

LEMMA TaskUpdate ==
    ASSUME task \in [Tasks -> Task \cup {None}], NEW t \in Tasks, NEW v \in Task,
           task' = [task EXCEPT ![t] = v]
    PROVE  task' \in [Tasks -> Task \cup {None}] /\ TasksStay /\ task'[t] = v
BY NoneIsNothing DEF TasksStay

LEMMA TriggerKeepsInv ==
    ASSUME IInv, NEW x \in Callers, Trigger(x)
    PROVE  IInv'
<1> DEFINE c == call[x]
<1>1. c \in Call /\ c.stage = "trigger" /\ CallInv(x) /\ At(x, "trigger")
  BY CallerFacts DEF Trigger, CallStages
<1>2. AwaitsTask(c.data) /\ Known(c.data) /\ Tidy(c.data) /\ c.data \in Review
      /\ (c.fresh /\ Exists(review) => Keeps(review, c.data))
  BY <1>1 DEF CallInv, AwaitsTask, Tidy
<1>3. PICK s \in StepIds : InState(c.data, s, "pending") /\
         \/ \E t \in Tasks :
               /\ task[t] = None
               /\ task' = [task EXCEPT ![t] =
                             [step |-> s, stage |-> "begin", iterations |-> 0, alive |-> TRUE]]
               /\ call' = [call EXCEPT ![x].stage = "save", ![x].victim = t,
                                       ![x].data = ReachedRun(@, s, t)]
         \/ /\ call' = [call EXCEPT ![x].stage = "save",
                                    ![x].data = Failed(ReachedRun(@, s, None), s)]
            /\ task' = task
  BY DEF Trigger
<1>4. s \in RunSteps
  BY <1>2, <1>3 DEF AwaitsTask
<1>5. review' = review /\ used' = used /\ call \in [Callers -> Call \cup {None}]
      /\ task \in [Tasks -> Task \cup {None}]
  BY DEF Trigger, IInv, TypeOK
<1>6. CASE \E t \in Tasks :
               /\ task[t] = None
               /\ task' = [task EXCEPT ![t] =
                             [step |-> s, stage |-> "begin", iterations |-> 0, alive |-> TRUE]]
               /\ call' = [call EXCEPT ![x].stage = "save", ![x].victim = t,
                                       ![x].data = ReachedRun(@, s, t)]
  <2>1. PICK t \in Tasks :
               /\ task[t] = None
               /\ task' = [task EXCEPT ![t] =
                             [step |-> s, stage |-> "begin", iterations |-> 0, alive |-> TRUE]]
               /\ call' = [call EXCEPT ![x].stage = "save", ![x].victim = t,
                                       ![x].data = ReachedRun(@, s, t)]
    BY <1>6
  <2> DEFINE n == ReachedRun(c.data, s, t)
  <2>2. t # None /\ t \in Tasks \cup {None}
    BY ReviewsAssumption
  <2>3. Settled(n) /\ Keeps(c.data, n) /\ \A u \in StepIds : n.steps[u].task \in {t, c.data.steps[u].task}
    BY <1>2, <1>3, <1>4, <2>2, ReachedRunKeeps
  <2>4. [step |-> s, stage |-> "begin", iterations |-> 0, alive |-> TRUE] \in Task
    BY DEF Task, TaskStages
  <2>5. task' \in [Tasks -> Task \cup {None}] /\ TasksStay /\ task'[t] # None
    BY <1>5, <2>1, <2>4, TaskUpdate, NoneIsNothing
  <2>6. n \in Review
    BY <2>3 DEF Settled, Tidy
  <2>7. call' = [call EXCEPT ![x] = [c EXCEPT !.stage = "save", !.victim = t, !.data = n]]
    BY <1>1, <1>5, <2>1 DEF Call
  <2> HIDE DEF n
  <2>8. [c EXCEPT !.stage = "save", !.victim = t, !.data = n] \in Call
    BY <1>1, <2>2, <2>6 DEF Call, CallStages
  <2>9. call' \in [Callers -> Call \cup {None}] /\ \A y \in Callers : y # x => call'[y] = call[y]
    BY <1>5, <2>7, <2>8
  <2>10. /\ call'[x].stage = "save" /\ call'[x].victim = t /\ call'[x].data = n
         /\ call'[x].fresh = c.fresh
    BY <1>1, <1>5, <2>7 DEF Call
  <2>11. TypeOK'
    BY <1>5, <2>5, <2>9 DEF IInv, TypeOK
  <2>12. ASSUME NEW u \in StepIds, n.steps[u].task # None
         PROVE  task'[n.steps[u].task] # None
    <3>1. CASE n.steps[u].task = t
      BY <2>5, <3>1
    <3>2. CASE n.steps[u].task = c.data.steps[u].task
      <4>1. c.data.steps[u].task \in Tasks
        BY <1>2, <2>12, <3>2 DEF Review, Step
      <4> QED
        BY <1>2, <2>5, <2>12, <3>2, <4>1 DEF Known, TasksStay
    <3> QED
      BY <2>3, <3>1, <3>2
  <2>13. c.fresh /\ Exists(review) => Keeps(review, n)
    BY <1>2, <2>3, KeepsIsTransitive
  <2>14. x \in Tasks => task'[x] # None
    BY <1>1, <2>5 DEF CallInv, TasksStay
  <2>15. CallInv(x)'
    BY <1>5, <2>3, <2>5, <2>10, <2>12, <2>13, <2>14 DEF CallInv, Known
  <2> QED
    BY <1>5, <2>5, <2>9, <2>11, <2>15, QuietStep
<1>7. CASE /\ call' = [call EXCEPT ![x].stage = "save",
                                   ![x].data = Failed(ReachedRun(@, s, None), s)]
           /\ task' = task
  <2> DEFINE m == ReachedRun(c.data, s, None)
             n == Failed(m, s)
  <2>1. /\ Tidy(m) /\ InState(m, s, "inReview") /\ Keeps(c.data, m)
        /\ \A u \in StepIds : m.steps[u].task \in {None, c.data.steps[u].task}
    BY <1>2, <1>3, <1>4, ReachedRunKeeps
  <2>2. Settled(n) /\ Leads(m, n)
    <3> HIDE DEF m
    <3> QED  BY <1>4, <2>1, FailedKeeps
  <2>3. Leads(c.data, n)
    <3> HIDE DEF n
    <3> HIDE DEF m
    <3>1. Leads(c.data, m)
      BY <2>1 DEF Leads, NoNewTask
    <3> QED  BY <2>2, <3>1, LeadsIsTransitive
  <2>4. Known(n) /\ Keeps(c.data, n) /\ n \in Review
    BY <1>2, <2>2, <2>3, KnownFollows DEF Settled, Tidy
  <2>7. call' = [call EXCEPT ![x] = [c EXCEPT !.stage = "save", !.data = n]]
    BY <1>1, <1>5, <1>7 DEF Call
  <2> HIDE DEF n
  <2>8. [c EXCEPT !.stage = "save", !.data = n] \in Call
    BY <1>1, <2>4 DEF Call, CallStages
  <2>9. call' \in [Callers -> Call \cup {None}] /\ \A y \in Callers : y # x => call'[y] = call[y]
    BY <1>5, <2>7, <2>8
  <2>10. /\ call'[x].stage = "save" /\ call'[x].victim = c.victim /\ call'[x].data = n
         /\ call'[x].fresh = c.fresh
    BY <1>1, <1>5, <2>7 DEF Call
  <2>11. TypeOK' /\ TasksStay
    BY <1>5, <1>7, <2>9 DEF IInv, TypeOK, TasksStay
  <2>13. c.fresh /\ Exists(review) => Keeps(review, n)
    BY <1>2, <2>4, KeepsIsTransitive
  <2>14. \A u \in StepIds : n.steps[u].task # None => task'[n.steps[u].task] # None
    BY <1>7, <2>4 DEF Known
  <2>15. /\ x \in Tasks => task'[x] # None
         /\ c.victim # None => task'[c.victim] # None
    BY <1>1, <1>7 DEF CallInv
  <2>16. CallInv(x)'
    BY <1>5, <2>2, <2>10, <2>13, <2>14, <2>15 DEF CallInv, Known
  <2> QED
    BY <1>5, <2>9, <2>11, <2>16, QuietStep
<1> QED
  BY <1>3, <1>6, <1>7

\* What a save means to the task whose call it is.
LEMMA TasksAfterStep ==
    ASSUME IInv, NEW x \in Callers, call[x] # None, NEW saved \in BOOLEAN, TasksAfter(x, saved)
    PROVE  task' \in [Tasks -> Task \cup {None}] /\ TasksStay
<1>1. task \in [Tasks -> Task \cup {None}]
  BY DEF IInv, TypeOK
<1>2. CASE x \notin Tasks
  BY <1>1, <1>2 DEF TasksAfter, TasksStay
<1>3. CASE x \in Tasks
  <2>1. task[x] # None /\ task[x] \in Task
    BY <1>1, <1>3 DEF IInv, CallInv
  <2>2. TaskAfter(x, saved)
    BY <1>3 DEF TasksAfter
  <2>3. PICK g \in TaskStages : task' = [task EXCEPT ![x].stage = g,
                                          ![x].alive = @ /\ g \notin {"end", "hook"}]
    BY <2>1, <2>2 DEF TaskAfter, TaskStages, Task
  <2> DEFINE v == [task[x] EXCEPT !.stage = g, !.alive = @ /\ g \notin {"end", "hook"}]
  <2>4. v \in Task
    <3> DEFINE b == task[x].alive /\ g \notin {"end", "hook"}
    <3>1. b \in BOOLEAN
      OBVIOUS
    <3>2. v = [task[x] EXCEPT !.stage = g, !.alive = b]
      OBVIOUS
    <3> HIDE DEF b, v
    <3> QED
      BY <2>1, <3>1, <3>2 DEF Task
  <2>5. task' = [task EXCEPT ![x] = v]
    BY <1>1, <1>3, <2>3
  <2> HIDE DEF v
  <2> QED
    BY <1>1, <1>3, <2>4, <2>5, TaskUpdate
<1> QED
  BY <1>2, <1>3

\* A call that was overtaken by a save.
LEMMA OvertakenStays ==
    ASSUME TypeOK, TypeOK', NEW x \in Callers, call[x] # None, CallInv(x), TasksStay,
           call'[x] = [call[x] EXCEPT !.fresh = FALSE]
    PROVE  CallInv(x)'
<1> DEFINE c == call[x]
<1>1. c \in Call
  BY DEF TypeOK
<1>2. /\ call'[x].stage = c.stage /\ call'[x].data = c.data /\ call'[x].victim = c.victim
      /\ call'[x].fresh = FALSE
  BY <1>1 DEF Call
<1>3. /\ x \in Tasks => task'[x] # None
      /\ c.victim # None => task'[c.victim] # None
  BY <1>1 DEF CallInv, TasksStay, Call
<1>4. c.stage \in {"save", "trigger"} => c.data \in Review
  BY DEF CallInv, Settled, Tidy, AwaitsTask
<1>5. ASSUME c.stage \in {"save", "trigger"}, NEW s \in StepIds, c.data.steps[s].task # None
      PROVE  task'[c.data.steps[s].task] # None
  <2>1. c.data.steps[s].task \in Tasks
    BY <1>4, <1>5 DEF Review, Step
  <2> QED
    BY <1>5, <2>1 DEF CallInv, Known, TasksStay
<1> QED
  BY <1>2, <1>3, <1>5 DEF CallInv, Known

\* A step that changes the review, overtakes all other calls and ends that of x or goes on to abort.
LEMMA OvertakingStep ==
    ASSUME IInv, NEW x \in Callers, call[x] # None, TasksStay, task' \in [Tasks -> Task \cup {None}],
           used' = used, review' \in Review \cup {None, Gone},
           Exists(review') => Settled(review') /\ Known(review'),
           \/ call' = [Others(x) EXCEPT ![x] = None]
           \/ /\ call[x].victim # None
              /\ call' = [Others(x) EXCEPT ![x] = [call[x] EXCEPT !.stage = "abort"]]
    PROVE  IInv'
<1> DEFINE c == call[x]
<1>1. call \in [Callers -> Call \cup {None}] /\ c \in Call /\ CallInv(x)
  BY DEF IInv, TypeOK
<1>2. \A y \in Callers : y # x =>
         call'[y] = IF call[y] = None THEN None ELSE [call[y] EXCEPT !.fresh = FALSE]
  BY DEF Others
<1>3. call'[x] = None \/ (c.victim # None /\ call'[x] = [c EXCEPT !.stage = "abort"])
  BY DEF Others
<1>4. [c EXCEPT !.stage = "abort"] \in Call
  BY <1>1 DEF Call, CallStages
<1>5. \A y \in Callers : call[y] # None => [call[y] EXCEPT !.fresh = FALSE] \in Call
  BY <1>1 DEF Call
<1>6. \A y \in Callers : call'[y] \in Call \cup {None}
  BY <1>2, <1>3, <1>4, <1>5
<1>7. DOMAIN call' = Callers /\ call' = [y \in Callers |-> call'[y]]
  BY DEF Others
<1>8. TypeOK'
  BY <1>6, <1>7 DEF IInv, TypeOK
<1>9. ASSUME NEW y \in Callers, call'[y] # None
      PROVE  CallInv(y)'
  <2>1. CASE y # x
    <3>1. call[y] # None /\ CallInv(y) /\ call'[y] = [call[y] EXCEPT !.fresh = FALSE]
      BY <1>2, <1>9, <2>1 DEF IInv
    <3> QED
      BY <1>8, <3>1, OvertakenStays DEF IInv
  <2>2. CASE y = x
    <3>1. call'[x].stage = "abort" /\ call'[x].victim = c.victim /\ c.victim # None /\ c.victim \in Tasks
      BY <1>1, <1>3, <1>9, <2>2 DEF Call
    <3> QED
      BY <1>1, <2>2, <3>1 DEF CallInv, TasksStay
  <2> QED
    BY <2>1, <2>2
<1>10. ASSUME Exists(review'), NEW s \in StepIds, review'.steps[s].task # None
       PROVE  task'[review'.steps[s].task] # None
  <2>1. review' \in Review /\ task[review'.steps[s].task] # None
    BY <1>10 DEF Known, Settled, Tidy
  <2> QED
    BY <1>10, <2>1 DEF TasksStay, Review, Step
<1> QED
  BY <1>8, <1>9, <1>10 DEF IInv, Known

LEMMA SaveKeepsInv ==
    ASSUME IInv, NEW x \in Callers, Save(x)
    PROVE  IInv'
<1> DEFINE c == call[x]
<1>1. c \in Call /\ c # None /\ c.stage = "save" /\ CallInv(x)
  BY CallerFacts DEF Save, CallStages
<1>2. Settled(c.data) /\ Known(c.data) /\ c.data \in Review
  BY <1>1 DEF CallInv, Settled, Tidy
<1>3. review' = IF review = Gone THEN Gone ELSE c.data
  BY DEF Save, Stored
<1>4. /\ review' \in Review \cup {None, Gone}
      /\ Exists(review') => Settled(review') /\ Known(review')
  BY <1>2, <1>3 DEF Exists
<1>5. task' \in [Tasks -> Task \cup {None}] /\ TasksStay
  BY <1>1, TasksAfterStep DEF Save
<1>6. \/ call' = [Others(x) EXCEPT ![x] = None]
      \/ /\ c.victim # None
         /\ call' = [Others(x) EXCEPT ![x] = [c EXCEPT !.stage = "abort"]]
  <2>1. Others(x)[x] = c /\ x \in DOMAIN Others(x)
    BY DEF Others
  <2>2. call' = [Others(x) EXCEPT ![x] =
                   IF @.kind = "cancel" /\ @.victim # None THEN [@ EXCEPT !.stage = "abort"] ELSE None]
    BY DEF Save
  <2> QED
    BY <2>1, <2>2
<1> QED
  BY <1>1, <1>4, <1>5, <1>6, OvertakingStep DEF Save

LEMMA EraseKeepsInv ==
    ASSUME IInv, NEW x \in Callers, Erase(x)
    PROVE  IInv'
<1> DEFINE c == call[x]
<1>1. c \in Call /\ c # None
  BY CallerFacts DEF Erase, CallStages
<1>2. review' \in Review \cup {None, Gone} /\ ~Exists(review') /\ TasksStay /\ used' = used
      /\ task' \in [Tasks -> Task \cup {None}]
  BY DEF Erase, Exists, TasksStay, IInv, TypeOK
<1>3. \/ call' = [Others(x) EXCEPT ![x] = None]
      \/ /\ c.victim # None
         /\ call' = [Others(x) EXCEPT ![x] = [c EXCEPT !.stage = "abort"]]
  <2>1. Others(x)[x] = c /\ x \in DOMAIN Others(x)
    BY DEF Others
  <2>2. call' = [Others(x) EXCEPT ![x] = IF @.victim = None THEN None ELSE [@ EXCEPT !.stage = "abort"]]
    BY DEF Erase
  <2> QED
    BY <2>1, <2>2
<1> QED
  BY <1>1, <1>2, <1>3, OvertakingStep

LEMMA SaveFailsKeepsInv ==
    ASSUME IInv, NEW x \in Callers, SaveFails(x)
    PROVE  IInv'
<1>1. call[x] # None
  BY CallerFacts DEF SaveFails, CallStages
<1>2. task' \in [Tasks -> Task \cup {None}] /\ TasksStay
  BY <1>1, TasksAfterStep DEF SaveFails
<1>3. used' \in [requests : Nat, faults : Nat] /\ review' = review
  BY DEF SaveFails, Fault, IInv, TypeOK
<1>4. CASE call[x].kind # "cancel" /\ call[x].victim # None
  BY <1>1, <1>2, <1>3, <1>4, MovesStep DEF SaveFails
<1>5. CASE ~(call[x].kind # "cancel" /\ call[x].victim # None)
  BY <1>2, <1>3, <1>5, ReturnsStep DEF SaveFails
<1> QED
  BY <1>4, <1>5

\* The updates of a task's record.
LEMMA TaskRecords ==
    ASSUME IInv, NEW t \in Tasks, task[t] # None, NEW stage \in TaskStages,
           \/ TaskMoves(t, stage) \/ TaskEnds(t, stage) \/ Continues(t)
           \/ task' = [task EXCEPT ![t].alive = FALSE]
           \/ task' = [task EXCEPT ![t].stage = "guard", ![t].iterations = @ + 1]
    PROVE  task' \in [Tasks -> Task \cup {None}] /\ TasksStay
<1>1. task \in [Tasks -> Task \cup {None}] /\ task[t] \in Task
  BY DEF IInv, TypeOK
<1>2. CASE TaskMoves(t, stage)
  <2>1. task' = [task EXCEPT ![t] = [task[t] EXCEPT !.stage = stage]] /\ [task[t] EXCEPT !.stage = stage] \in Task
    BY <1>1, <1>2 DEF TaskMoves, Task
  <2> QED
    BY <1>1, <2>1, TaskUpdate
<1>3. CASE TaskEnds(t, stage)
  <2>1. task' = [task EXCEPT ![t] = [task[t] EXCEPT !.stage = stage, !.alive = FALSE]]
        /\ [task[t] EXCEPT !.stage = stage, !.alive = FALSE] \in Task
    BY <1>1, <1>3 DEF TaskEnds, Task
  <2> QED
    BY <1>1, <2>1, TaskUpdate
<1>4. CASE Continues(t)
  <2>1. task' = [task EXCEPT ![t] = [task[t] EXCEPT !.stage = "begin", !.alive = TRUE]]
        /\ [task[t] EXCEPT !.stage = "begin", !.alive = TRUE] \in Task
    BY <1>1, <1>4 DEF Continues, Task, TaskStages
  <2> QED
    BY <1>1, <2>1, TaskUpdate
<1>5. CASE task' = [task EXCEPT ![t].alive = FALSE]
  <2>1. task' = [task EXCEPT ![t] = [task[t] EXCEPT !.alive = FALSE]]
        /\ [task[t] EXCEPT !.alive = FALSE] \in Task
    BY <1>1, <1>5 DEF Task
  <2> QED
    BY <1>1, <2>1, TaskUpdate
<1>6. CASE task' = [task EXCEPT ![t].stage = "guard", ![t].iterations = @ + 1]
  <2> DEFINE n == task[t].iterations + 1
             v == [task[t] EXCEPT !.stage = "guard", !.iterations = n]
  <2>1. task' = [task EXCEPT ![t] = v]
    BY <1>1, <1>6
  <2>2. n \in Nat
    BY <1>1 DEF Task
  <2> HIDE DEF n
  <2>3. v \in Task
    BY <1>1, <2>2 DEF Task, TaskStages
  <2> HIDE DEF v
  <2> QED
    BY <1>1, <2>1, <2>3, TaskUpdate
<1> QED
  BY <1>2, <1>3, <1>4, <1>5, <1>6

LEMMA AbortTaskKeepsInv ==
    ASSUME IInv, NEW x \in Callers, AbortTask(x) \/ AbortFails(x)
    PROVE  IInv'
<1> DEFINE t == call[x].victim
<1>1. call[x] # None /\ CallInv(x) /\ call[x].stage = "abort" /\ t \in Tasks \cup {None}
  BY CallerFacts DEF AbortTask, AbortFails, CallStages
<1>2. t \in Tasks /\ task[t] # None /\ t # None
  BY <1>1 DEF CallInv
<1>3. review' = review /\ used' \in [requests : Nat, faults : Nat]
  BY DEF AbortTask, AbortFails, Fault, IInv, TypeOK
<1>4. task' = task \/ task' = [task EXCEPT ![t].alive = FALSE]
  BY DEF AbortTask, AbortFails
<1>5. task' \in [Tasks -> Task \cup {None}] /\ TasksStay
  <2>1. CASE task' = task
    BY <2>1 DEF IInv, TypeOK, TasksStay
  <2>2. CASE task' = [task EXCEPT ![t].alive = FALSE]
    <3>1. "end" \in TaskStages
      BY DEF TaskStages
    <3> HIDE DEF t
    <3> QED
      BY <1>2, <2>2, <3>1, TaskRecords
  <2> QED
    BY <1>4, <2>1, <2>2
<1>6. Moves(x, "hook") \/ Returns(x)
  BY DEF AbortTask, AbortFails
<1> QED
  BY <1>1, <1>2, <1>3, <1>5, <1>6, MovesStep, ReturnsStep

\* A step fails only while it carries the task.
LEMMA FailStep ==
    ASSUME IInv, NEW x \in Callers, NEW t \in Tasks, task[t] # None, NEW kind \in Kinds,
           TasksStay, review' = review, task' \in [Tasks -> Task \cup {None}],
           used' \in [requests : Nat, faults : Nat], x \in Tasks => task[x] # None,
           Carries(review, task[t].step, t),
           Goes(x, "save", kind, Failed(review, task[t].step), None)
    PROVE  IInv'
<1> DEFINE s == task[t].step
<1>1. s \in StepIds
  BY DEF IInv, TypeOK, Task
<1>2. Tidy(review) /\ InState(review, s, "inReview") /\ review.steps[s].task = t /\ Known(review)
  BY StoredIsSettled DEF Carries
<1>3. t # None
  BY ReviewsAssumption
<1>4. s \in RunSteps
  BY <1>1, <1>2, <1>3 DEF Tidy, TasksInPlace
<1> HIDE DEF s
<1>5. Settled(Failed(review, s)) /\ Leads(review, Failed(review, s))
  BY <1>1, <1>2, <1>4, FailedKeeps
<1>6. Known(Failed(review, s)) /\ Keeps(review, Failed(review, s))
  BY <1>2, <1>5, KnownFollows
<1>7. Failed(review, s) \in Review \cup {None} /\ "save" \in CallStages
  BY <1>5 DEF Settled, Tidy, CallStages
<1>8. Goes(x, "save", kind, Failed(review, s), None)
  BY DEF s
<1> QED
  BY <1>5, <1>6, <1>7, <1>8, GoesStep

LEMMA FailStepOfKeepsInv ==
    ASSUME IInv, NEW x \in Callers, NEW t \in Tasks, task[t] # None,
           TasksStay, review' = review, task' \in [Tasks -> Task \cup {None}],
           used' \in [requests : Nat, faults : Nat], x \in Tasks => task[x] # None,
           FailStepOf(x, t, review)
    PROVE  IInv'
<1>1. CASE Carries(review, task[t].step, t)
  <2>1. "hook" \in Kinds
    BY DEF Kinds
  <2> QED
    BY <1>1, <2>1, FailStep DEF FailStepOf
<1>2. CASE ~Carries(review, task[t].step, t)
  BY <1>2, ReturnsStep DEF FailStepOf
<1> QED
  BY <1>1, <1>2

LEMMA FailVictimKeepsInv ==
    ASSUME IInv, NEW x \in Callers, FailVictim(x)
    PROVE  IInv'
<1>1. /\ call[x] # None /\ CallInv(x) /\ call[x].stage \in {"hook", "stuck"}
      /\ call[x].victim \in Tasks \cup {None}
  BY CallerFacts DEF FailVictim, CallStages
<1>2. call[x].victim \in Tasks /\ task[call[x].victim] # None /\ (x \in Tasks => task[x] # None)
  BY <1>1 DEF CallInv
<1>3. TasksStay /\ review' = review /\ task' \in [Tasks -> Task \cup {None}]
      /\ used' \in [requests : Nat, faults : Nat]
  BY DEF FailVictim, IInv, TypeOK, TasksStay
<1>4. FailStepOf(x, call[x].victim, review)
  BY DEF FailVictim
<1> QED
  BY <1>2, <1>3, <1>4, FailStepOfKeepsInv

LEMMA CrashKeepsInv ==
    ASSUME IInv, NEW c \in Clients, Crash(c)
    PROVE  IInv'
<1>1. TasksStay /\ review' = review /\ task' \in [Tasks -> Task \cup {None}]
      /\ used' \in [requests : Nat, faults : Nat] /\ c \in Callers /\ Returns(c)
  BY DEF Crash, Fault, IInv, TypeOK, TasksStay, Callers
<1> QED
  BY <1>1, ReturnsStep

-----------------------------------------------------------------------------
(* Tasks.                                                                  *)

LEMMA TaskOnlyActions ==
    ASSUME IInv, NEW t \in Tasks, Begin(t) \/ Guard(t) \/ Work(t) \/ Recheck(t) \/ Errs(t)
    PROVE  IInv'
<1>1. task[t] # None
  BY DEF Begin, Guard, Work, Recheck, Errs, Doing
<1>2. review' = review /\ call' = call /\ used' \in [requests : Nat, faults : Nat]
  BY DEF Begin, Guard, Work, Recheck, Errs, Fault, IInv, TypeOK
<1>3. \E stage \in TaskStages :
           \/ TaskMoves(t, stage) \/ TaskEnds(t, stage) \/ Continues(t)
           \/ task' = [task EXCEPT ![t].stage = "guard", ![t].iterations = @ + 1]
  BY DEF Begin, Guard, Work, Recheck, Errs, TaskStages
<1>4. task' \in [Tasks -> Task \cup {None}] /\ TasksStay
  BY <1>1, <1>3, TaskRecords
<1> QED
  BY <1>2, <1>4, TaskOnlyStep

LEMMA DecideKeepsInv ==
    ASSUME IInv, NEW t \in Tasks, Decide(t)
    PROVE  IInv'
<1> DEFINE s == task[t].step
<1>1. task[t] # None /\ s \in StepIds /\ t \in Callers /\ review' = review
      /\ used' \in [requests : Nat, faults : Nat]
  BY DEF Decide, Doing, IInv, TypeOK, Task, Callers
<1>2. CASE Exists(review) /\ InState(review, s, "inReview") /\ s \in RunSteps
  <2>1. /\ task' = task
        /\ \/ ReachAndSave(t, Approved(review, s), "decide")
           \/ Goes(t, "save", "decide", Rejected(review, s), None)
    BY <1>2 DEF Decide
  <2>2. TasksStay /\ task' \in [Tasks -> Task \cup {None}]
    BY <2>1 DEF TasksStay, IInv, TypeOK
  <2>3. Tidy(review) /\ Known(review)
    BY <1>2, StoredIsSettled
  <2>4. "decide" \in Kinds /\ "save" \in CallStages
    BY DEF Kinds, CallStages
  <2> HIDE DEF s
  <2>5. CASE ReachAndSave(t, Approved(review, s), "decide")
    <3>1. Unreached(Approved(review, s)) /\ Leads(review, Approved(review, s))
      BY <1>1, <1>2, <2>3, ApprovedKeeps
    <3>2. Known(Approved(review, s))
      BY <2>3, <3>1, KnownFollows
    <3> QED
      BY <1>1, <2>2, <2>4, <2>5, <3>1, <3>2, ReachesStep
  <2>6. CASE Goes(t, "save", "decide", Rejected(review, s), None)
    <3>1. Settled(Rejected(review, s)) /\ Leads(review, Rejected(review, s))
      BY <1>1, <1>2, <2>3, RejectedKeeps
    <3>2. Known(Rejected(review, s)) /\ Keeps(review, Rejected(review, s))
      BY <2>3, <3>1, KnownFollows
    <3>3. Rejected(review, s) \in Review \cup {None}
      BY <3>1 DEF Settled, Tidy
    <3> QED
      BY <1>1, <2>2, <2>4, <2>6, <3>1, <3>2, <3>3, GoesStep
  <2> QED
    BY <2>1, <2>5, <2>6
<1>3. CASE ~(Exists(review) /\ InState(review, s, "inReview") /\ s \in RunSteps)
  <2>1. TaskMoves(t, "blame") /\ call' = call /\ "blame" \in TaskStages
    BY <1>3 DEF Decide, TaskStages
  <2> QED
    BY <1>1, <2>1, TaskRecords, TaskOnlyStep
<1> QED
  BY <1>2, <1>3

LEMMA BlameKeepsInv ==
    ASSUME IInv, NEW t \in Tasks, Blame(t)
    PROVE  IInv'
<1>1. task[t] # None /\ t \in Callers /\ review' = review /\ used' \in [requests : Nat, faults : Nat]
  BY DEF Blame, Doing, IInv, TypeOK, Callers
<1>2. CASE IsCarried(t)
  <2>1. task' = task /\ Goes(t, "save", "blame", Failed(review, task[t].step), None)
        /\ Carries(review, task[t].step, t)
    BY <1>2 DEF Blame, IsCarried
  <2>2. TasksStay /\ task' \in [Tasks -> Task \cup {None}] /\ "blame" \in Kinds
    BY <2>1 DEF TasksStay, IInv, TypeOK, Kinds
  <2> QED
    BY <1>1, <2>1, <2>2, FailStep
<1>3. CASE ~IsCarried(t)
  <2>1. call' = call /\ \E stage \in TaskStages : TaskEnds(t, stage)
    BY <1>3 DEF Blame, TaskStages
  <2> QED
    BY <1>1, <2>1, TaskRecords, TaskOnlyStep
<1> QED
  BY <1>2, <1>3

LEMMA HookKeepsInv ==
    ASSUME IInv, NEW t \in Tasks, Hook(t)
    PROVE  IInv'
<1>1. task[t] # None /\ t \in Callers /\ review' = review /\ used' \in [requests : Nat, faults : Nat]
  BY DEF Hook, Doing, IInv, TypeOK, Callers
<1>2. TaskMoves(t, "end") /\ "end" \in TaskStages /\ FailStepOf(t, t, review)
  BY DEF Hook, TaskStages
<1>3. task' \in [Tasks -> Task \cup {None}] /\ TasksStay
  BY <1>1, <1>2, TaskRecords
<1> QED
  BY <1>1, <1>2, <1>3, FailStepOfKeepsInv

LEMMA DiesKeepsInv ==
    ASSUME IInv, NEW t \in Tasks, Dies(t)
    PROVE  IInv'
<1>1. task[t] # None /\ t \in Callers /\ review' = review /\ used' \in [requests : Nat, faults : Nat]
      /\ Returns(t)
  BY DEF Dies, Fault, IInv, TypeOK, Callers
<1>2. \E stage \in TaskStages : TaskMoves(t, stage) \/ TaskEnds(t, stage)
  BY DEF Dies, TaskStages
<1>3. task' \in [Tasks -> Task \cup {None}] /\ TasksStay
  BY <1>1, <1>2, TaskRecords
<1> QED
  BY <1>1, <1>3, ReturnsStep

-----------------------------------------------------------------------------
(* The theorems.                                                           *)

LEMMA InitInv == Init => IInv
<1> SUFFICES ASSUME Init PROVE IInv
  OBVIOUS
<1>1. TypeOK
  BY DEF Init, TypeOK
<1>2. ~Exists(review) /\ \A x \in Callers : call[x] = None
  BY DEF Init, Exists
<1> QED
  BY <1>1, <1>2 DEF IInv

LEMMA RequestKeepsInv ==
    ASSUME IInv, NEW c \in Clients, Request(c)
    PROVE  IInv'
<1>1. CASE RequestReview(c) \/ Cancel(c) \/ Delete(c) \/ FindStuck(c)
  BY <1>1, RequestReviewKeepsInv, CancelKeepsInv, DeleteKeepsInv, FindStuckKeepsInv
<1>2. CASE \E t \in Tasks : AbortRun(c, t)
  BY <1>2, AbortRunKeepsInv
<1>3. CASE \E s \in StepIds : RestartStep(c, s)
  BY <1>3, RestartStepKeepsInv
<1>4. CASE \E s \in StepIds, u \in Reviewers :
             \/ StartStep(c, s, u) \/ TakeOver(c, s, u) \/ Reassign(c, s, u)
             \/ Approve(c, s, u) \/ Reject(c, s, u)
  BY <1>4, StepRequestKeepsInv
<1> QED
  BY <1>1, <1>2, <1>3, <1>4 DEF Request

LEMMA CallStepKeepsInv ==
    ASSUME IInv, NEW x \in Callers, CallStep(x)
    PROVE  IInv'
BY TriggerKeepsInv, SaveKeepsInv, SaveFailsKeepsInv, EraseKeepsInv, AbortTaskKeepsInv,
   FailVictimKeepsInv DEF CallStep

LEMMA TaskStepKeepsInv ==
    ASSUME IInv, NEW t \in Tasks, TaskStep(t) \/ Errs(t) \/ Dies(t)
    PROVE  IInv'
BY TaskOnlyActions, DecideKeepsInv, BlameKeepsInv, HookKeepsInv, DiesKeepsInv DEF TaskStep

LEMMA NextInv == IInv /\ [Next]_vars => IInv'
<1> SUFFICES ASSUME IInv, [Next]_vars PROVE IInv'
  OBVIOUS
<1>1. CASE \E c \in Clients : Request(c) \/ Crash(c)
  BY <1>1, RequestKeepsInv, CrashKeepsInv
<1>2. CASE \E x \in Callers : CallStep(x)
  BY <1>2, CallStepKeepsInv
<1>3. CASE \E t \in Tasks : TaskStep(t) \/ Errs(t) \/ Dies(t)
  BY <1>3, TaskStepKeepsInv
<1>4. CASE UNCHANGED vars
  <2>1. /\ TasksStay /\ review' = review /\ call' = call /\ task' \in [Tasks -> Task \cup {None}]
        /\ used' \in [requests : Nat, faults : Nat]
    BY <1>4 DEF vars, IInv, TypeOK, TasksStay
  <2> QED
    BY <2>1, TaskOnlyStep
<1> QED
  BY <1>1, <1>2, <1>3, <1>4 DEF Next

\* The variables hold values of their types, for any workflow, requests, tasks and faults.
THEOREM TypeCorrect == Spec => []TypeOK
<1>1. IInv => TypeOK
  BY DEF IInv
<1> QED
  BY <1>1, InitInv, NextInv, PTL DEF Spec

\* Whichever requests and tasks overwrite each other's saves, and whatever fails, a stored review
\* has its steps decided in order and is, while in progress, never left to nobody: each copy that
\* a use case of Review.ts makes of a sound review is sound, and a review is saved whole.
THEOREM StoredIsSound == Spec => []ReviewIsSound
<1>1. IInv => ReviewIsSound
  BY DEF IInv, ReviewIsSound, Settled, Tidy
<1> QED
  BY <1>1, InitInv, NextInv, PTL DEF Spec

LEMMA SaveKeeps ==
    ASSUME IInv, NEW x \in Callers, Save(x), Exists(review), Exists(review')
    PROVE  Keeps(review, review') \/ (~call[x].fresh /\ call[x].data = review')
<1>1. call[x] \in Call /\ call[x].stage = "save" /\ CallInv(x)
  BY CallerFacts DEF Save, CallStages
<1>2. review' = call[x].data
  BY DEF Save, Stored, Exists
<1>3. call[x].fresh => Keeps(review, call[x].data)
  BY <1>1 DEF CallInv
<1> QED
  BY <1>2, <1>3

\* Only a save and a deletion write the review.
LEMMA OnlySavesWrite ==
    ASSUME [Next]_vars
    PROVE  review' = review \/ \E x \in Callers : Save(x) \/ Erase(x)
<1>1. ASSUME NEW c \in Clients, Request(c) \/ Crash(c)
      PROVE  review' = review
  BY <1>1 DEF Request, RequestReview, Asks, Cancel, Delete, FindStuck, AbortRun, RestartStep,
              StartStep, TakeOver, Reassign, Approve, Reject, Crash
<1>2. ASSUME NEW x \in Callers, CallStep(x)
      PROVE  review' = review \/ Save(x) \/ Erase(x)
  BY <1>2 DEF CallStep, Trigger, SaveFails, AbortTask, AbortFails, FailVictim
<1>3. ASSUME NEW t \in Tasks, TaskStep(t) \/ Errs(t) \/ Dies(t)
      PROVE  review' = review
  BY <1>3 DEF TaskStep, Begin, Guard, Work, Recheck, Decide, Blame, Hook, Errs, Dies
<1> QED
  BY <1>1, <1>2, <1>3 DEF Next, vars

\* A save of ReviewSaver that undoes a decision or forgets an attempt was overtaken: another save
\* came between its read and its write.
THEOREM OverlapsLose == Spec => OnlyOverlapsLose
<1> DEFINE A == Exists(review) /\ Exists(review') =>
                   Keeps(review, review')
                   \/ \E x \in Callers : At(x, "save") /\ ~call[x].fresh /\ call[x].data = review'
<1>1. ASSUME IInv, [Next]_vars
      PROVE  A
  <2>1. CASE review' = review
    BY <2>1 DEF Keeps
  <2>2. ASSUME NEW x \in Callers, Save(x)
        PROVE  A
    <3>1. At(x, "save")
      BY <2>2 DEF Save
    <3> QED
      BY <1>1, <2>2, <3>1, SaveKeeps
  <2>3. ASSUME NEW x \in Callers, Erase(x)
        PROVE  A
    BY <2>3 DEF Erase, Exists
  <2> QED
    BY <1>1, <2>1, <2>2, <2>3, OnlySavesWrite
<1>2. ASSUME IInv, [Next]_vars
      PROVE  [A]_vars
  BY <1>1, <1>2
<1> QED
  BY <1>2, InitInv, NextInv, PTL DEF Spec, OnlyOverlapsLose
=============================================================================
