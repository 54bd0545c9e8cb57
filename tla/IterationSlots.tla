--------------------------- MODULE IterationSlots ---------------------------
(***************************************************************************)
(* The slots that limit how many task iterations one process runs at once  *)
(* (packages/background-tasks-standalone/src/loop/IterationSlots.ts).      *)
(*                                                                         *)
(* The object keeps a count of slots in use, a line of callers waiting for *)
(* one, and a closed flag.  A caller is one TaskExecution; what it last    *)
(* heard from acquire() is its standing.  Every method runs to completion  *)
(* without awaiting, so each is one step.                                  *)
(*                                                                         *)
(* The methods are written as operators on a record of the three fields,   *)
(* so that a module with one such object per process can use them too.     *)
(***************************************************************************)
EXTENDS Naturals, Sequences, FiniteSets

CONSTANTS
    Callers,    \* the executions that may ask for a slot
    Size        \* MAX_RUNNING_ITERATIONS

ASSUME SlotsAssumption == Size \in Nat \ {0} /\ IsFiniteSet(Callers)

VARIABLES
    slots,      \* the object's fields: used, waiting, closed
    standing    \* what each caller knows of its latest acquire()

vars == <<slots, standing>>

Standings == {"away", "waiting", "granted", "refused"}

Waiting(s) == {s.waiting[i] : i \in 1..Len(s.waiting)}

-----------------------------------------------------------------------------
(* The methods, as operators on the object's fields.                       *)

NewSlots == [used |-> 0, waiting |-> << >>, closed |-> FALSE]

\* acquire() while a slot is free: this caller's at once.
TakeSlot(s) == [s EXCEPT !.used = @ + 1]

\* Mutant: the newcomer goes to the front.
JoinLineInFront(s, c) == [s EXCEPT !.waiting = <<c>> \o @]

\* acquire() with every slot taken: the caller joins the line.
JoinLine(s, c) == [s EXCEPT !.waiting = Append(@, c)]

\* Mutants of the operators below: the line forgotten, the count dropped at the wrong time.
HandOnAlsoCountsDown(s) ==
    IF s.waiting # << >>
      THEN [s EXCEPT !.waiting = Tail(@), !.used = @ - 1]
      ELSE [s EXCEPT !.used = @ - 1]
HandOnForgetsLine(s) == [s EXCEPT !.used = @ - 1]

\* release(): the slot passes to the next in line, or else is given back.
HandOn(s) ==
    IF s.waiting # << >>
      THEN [s EXCEPT !.waiting = Tail(@)]
      ELSE [s EXCEPT !.used = @ - 1]

\* close(): everyone in line is turned away.
Shut(s) == [s EXCEPT !.closed = TRUE, !.waiting = << >>]

-----------------------------------------------------------------------------

Init ==
    /\ slots = NewSlots
    /\ standing = [c \in Callers |-> "away"]

AcquireRefused(c) ==
    /\ standing[c] \in {"away", "refused"}
    /\ slots.closed
    /\ standing' = [standing EXCEPT ![c] = "refused"]
    /\ UNCHANGED slots

\* Mutant: one slot too many.
AcquireGrantedPastSize(c) ==
    /\ standing[c] \in {"away", "refused"}
    /\ ~slots.closed
    /\ slots.used <= Size
    /\ slots' = TakeSlot(slots)
    /\ standing' = [standing EXCEPT ![c] = "granted"]

AcquireGranted(c) ==
    /\ standing[c] \in {"away", "refused"}
    /\ ~slots.closed
    /\ slots.used < Size
    /\ slots' = TakeSlot(slots)
    /\ standing' = [standing EXCEPT ![c] = "granted"]

AcquireWaits(c) ==
    /\ standing[c] \in {"away", "refused"}
    /\ ~slots.closed
    /\ ~(slots.used < Size)
    /\ slots' = JoinLine(slots, c)
    /\ standing' = [standing EXCEPT ![c] = "waiting"]

\* Mutant: the slot is given back and nobody in line is told.
ReleaseTellsNobody(c) ==
    /\ standing[c] = "granted"
    /\ slots' = [slots EXCEPT !.used = @ - 1]
    /\ standing' = [standing EXCEPT ![c] = "away"]

Release(c) ==
    /\ standing[c] = "granted"
    /\ slots' = HandOn(slots)
    /\ standing' = [d \in Callers |->
                      IF slots.waiting # << >> /\ d = Head(slots.waiting) THEN "granted"
                      ELSE IF d = c THEN "away"
                      ELSE standing[d]]

Close ==
    /\ slots' = Shut(slots)
    /\ standing' = [d \in Callers |->
                      IF d \in Waiting(slots) THEN "refused" ELSE standing[d]]

Next ==
    \/ \E c \in Callers : AcquireRefused(c) \/ AcquireGranted(c) \/ AcquireWaits(c) \/ Release(c)
    \/ Close

Spec == Init /\ [][Next]_vars

\* Whoever holds a slot gives it back: TaskExecution releases in a `finally`.
FairSpec == Spec /\ \A c \in Callers : WF_vars(Release(c))

-----------------------------------------------------------------------------
(* Properties.                                                             *)

\* The fields and the standings hold values of their types.
TypeOK ==
    /\ slots \in [used : Nat, waiting : Seq(Callers), closed : BOOLEAN]
    /\ standing \in [Callers -> Standings]

Holders == {c \in Callers : standing[c] = "granted"}

\* The count is the number of callers that hold a slot, through every handover, and never more
\* than the limit: no slot is leaked and none is handed out twice.
CountIsExact ==
    /\ slots.used = Cardinality(Holders)
    /\ slots.used <= Size

\* Nobody waits while a slot is free, and nobody is left waiting once the slots are closed.
NoIdleSlot ==
    slots.waiting # << >> => slots.used = Size /\ ~slots.closed

\* The line holds each waiting caller exactly once, and nobody else: no promise is lost or
\* resolved twice.
LineIsExact ==
    /\ \A c \in Callers : standing[c] = "waiting" <=> c \in Waiting(slots)
    /\ \A i, j \in 1..Len(slots.waiting) : slots.waiting[i] = slots.waiting[j] => i = j

\* First come, first served: while somebody waits, only the first in line can be granted a slot,
\* so a newcomer never overtakes the line, and whoever stays in line only moves up.
FirstComeFirstServed ==
    [][LET line == slots.waiting
           next == slots'.waiting
       IN  /\ \A c \in Callers :
                 standing[c] # "granted" /\ standing'[c] = "granted" /\ line # << >>
                   => c = Head(line)
           /\ \A i \in 1..Len(line), j \in 1..Len(next) : line[i] = next[j] => j <= i]_vars

\* Everyone in line is eventually answered, with a slot or with a refusal.
EveryoneIsAnswered ==
    \A c \in Callers : standing[c] = "waiting" ~> standing[c] \in {"granted", "refused"}
=============================================================================
