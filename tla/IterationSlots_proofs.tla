----------------------- MODULE IterationSlots_proofs -----------------------
(***************************************************************************)
(* Proofs about IterationSlots, for every set of callers and every Size.   *)
(***************************************************************************)
EXTENDS IterationSlots, FiniteSetTheorems, TLAPS

USE SlotsAssumption

\* The safety invariants of the module are inductive together: the count needs the line (whoever
\* is handed a slot did not hold one) and the line needs nothing else.
IInv == TypeOK /\ CountIsExact /\ NoIdleSlot /\ LineIsExact

-----------------------------------------------------------------------------

\* The callers that hold a slot are finitely many, since the callers are.
LEMMA HoldersFinite == IsFiniteSet(Holders)
  BY FS_Subset DEF Holders

\* Taking the first of the line leaves exactly the others in it, each once: what release() relies
\* on when it shifts the next caller out of `waiting`.
LEMMA TailOfLine ==
    ASSUME NEW q \in Seq(Callers), q # << >>,
           \A i, j \in 1..Len(q) : q[i] = q[j] => i = j
    PROVE  /\ Head(q) \in Callers
           /\ Tail(q) \in Seq(Callers)
           /\ {Tail(q)[i] : i \in 1..Len(Tail(q))} = {q[i] : i \in 1..Len(q)} \ {Head(q)}
           /\ \A i, j \in 1..Len(Tail(q)) : Tail(q)[i] = Tail(q)[j] => i = j
<1>1. /\ Head(q) = q[1]
      /\ Head(q) \in Callers
      /\ Tail(q) \in Seq(Callers)
      /\ Len(q) \in Nat \ {0}
      /\ Len(Tail(q)) = Len(q) - 1
      /\ \A i \in 1..Len(Tail(q)) : Tail(q)[i] = q[i + 1]
  OBVIOUS
<1>2. {Tail(q)[i] : i \in 1..Len(Tail(q))} \subseteq {q[i] : i \in 1..Len(q)} \ {Head(q)}
  <2>1. SUFFICES ASSUME NEW i \in 1..Len(Tail(q))
                 PROVE  Tail(q)[i] \in {q[k] : k \in 1..Len(q)} \ {Head(q)}
    OBVIOUS
  <2>2. i + 1 \in 1..Len(q) /\ 1 \in 1..Len(q) /\ i + 1 # 1
    BY <1>1
  <2> QED
    BY <1>1, <2>2
<1>3. {q[i] : i \in 1..Len(q)} \ {Head(q)} \subseteq {Tail(q)[i] : i \in 1..Len(Tail(q))}
  <2>1. SUFFICES ASSUME NEW i \in 1..Len(q), q[i] # Head(q)
                 PROVE  q[i] \in {Tail(q)[k] : k \in 1..Len(Tail(q))}
    OBVIOUS
  <2>2. i - 1 \in 1..Len(Tail(q)) /\ (i - 1) + 1 = i
    BY <1>1, <2>1
  <2> QED
    BY <1>1, <2>2
<1>4. \A i, j \in 1..Len(Tail(q)) : Tail(q)[i] = Tail(q)[j] => i = j
  <2>1. SUFFICES ASSUME NEW i \in 1..Len(Tail(q)), NEW j \in 1..Len(Tail(q)),
                        Tail(q)[i] = Tail(q)[j]
                 PROVE  i = j
    OBVIOUS
  <2>2. i + 1 \in 1..Len(q) /\ j + 1 \in 1..Len(q) /\ q[i + 1] = q[j + 1]
    BY <1>1, <2>1
  <2> QED
    BY <2>2
<1> QED
  BY <1>1, <1>2, <1>3, <1>4

-----------------------------------------------------------------------------

\* A fresh object satisfies the invariant.
LEMMA InitIInv == Init => IInv
<1> SUFFICES ASSUME Init PROVE IInv
  OBVIOUS
<1>1. Holders = {}
  BY DEF Init, Holders
<1>2. Cardinality(Holders) = 0
  BY <1>1, FS_EmptySet
<1>3. TypeOK /\ NoIdleSlot /\ LineIsExact
  BY DEF Init, NewSlots, TypeOK, Standings, NoIdleSlot, LineIsExact, Waiting
<1> QED
  BY <1>2, <1>3 DEF Init, NewSlots, IInv, CountIsExact

\* acquire() with a slot free.
LEMMA GrantedIInv ==
    ASSUME IInv, NEW c \in Callers, AcquireGranted(c)
    PROVE  IInv'
<1> USE DEF IInv, AcquireGranted, TakeSlot
<1>1. TypeOK' /\ NoIdleSlot' /\ LineIsExact'
  <2>1. TypeOK'
    BY DEF TypeOK, Standings
  <2>2. slots.waiting = << >>
    BY DEF NoIdleSlot, TypeOK
  <2>3. NoIdleSlot'
    BY <2>2 DEF NoIdleSlot, TypeOK
  <2>4. LineIsExact'
    BY DEF LineIsExact, Waiting, TypeOK
  <2> QED
    BY <2>1, <2>3, <2>4
<1>2. Holders' = Holders \cup {c} /\ c \notin Holders
  BY DEF Holders, TypeOK
<1>3. Cardinality(Holders') = Cardinality(Holders) + 1
  BY <1>2, HoldersFinite, FS_AddElement
<1>4. slots'.used = slots.used + 1 /\ slots.used \in Nat
  BY DEF TypeOK
<1>5. CountIsExact'
  BY <1>3, <1>4 DEF CountIsExact
<1> QED
  BY <1>1, <1>5

\* acquire() with every slot taken.
LEMMA WaitsIInv ==
    ASSUME IInv, NEW c \in Callers, AcquireWaits(c)
    PROVE  IInv'
<1> DEFINE q == slots.waiting
<1> USE DEF IInv, AcquireWaits, JoinLine
<1>1. /\ q \in Seq(Callers)
      /\ slots'.waiting = Append(q, c)
      /\ slots'.used = slots.used
      /\ slots'.closed = slots.closed
      /\ Len(Append(q, c)) = Len(q) + 1
      /\ \A i \in 1..Len(q) : Append(q, c)[i] = q[i]
      /\ Append(q, c)[Len(q) + 1] = c
  BY DEF TypeOK
<1>2. TypeOK'
  BY DEF TypeOK, Standings
<1>3. Holders' = Holders
  BY DEF Holders, TypeOK
<1>4. CountIsExact'
  BY <1>1, <1>3 DEF CountIsExact
<1>5. NoIdleSlot'
  BY <1>1 DEF NoIdleSlot, CountIsExact, TypeOK
<1>6. c \notin Waiting(slots)
  BY DEF LineIsExact
<1>7. Waiting(slots)' = Waiting(slots) \cup {c}
  <2>1. 1..Len(Append(q, c)) = 1..Len(q) \cup {Len(q) + 1}
    BY <1>1
  <2> QED
    BY <1>1, <2>1 DEF Waiting
<1>8. LineIsExact'
  <2>1. \A d \in Callers : standing'[d] = "waiting" <=> d \in Waiting(slots)'
    BY <1>7 DEF LineIsExact, TypeOK
  <2>2. \A i, j \in 1..Len(Append(q, c)) : Append(q, c)[i] = Append(q, c)[j] => i = j
    BY <1>1, <1>6 DEF Waiting, LineIsExact
  <2>3. \A i, j \in 1..Len(slots'.waiting) : slots'.waiting[i] = slots'.waiting[j] => i = j
    BY <1>1, <2>2, Zenon
  <2> QED
    BY <2>1, <2>3, Zenon DEF LineIsExact
<1> QED
  BY <1>2, <1>4, <1>5, <1>8

\* release() with nobody in line.
LEMMA ReleaseIInvEmpty ==
    ASSUME IInv, NEW c \in Callers, Release(c), slots.waiting = << >>
    PROVE  IInv'
<1> USE DEF IInv, Release, HandOn
<1>1. slots' = [slots EXCEPT !.used = @ - 1] /\ standing' = [standing EXCEPT ![c] = "away"]
  BY DEF TypeOK
<1>2. c \in Holders /\ Holders' = Holders \ {c}
  BY <1>1 DEF Holders, TypeOK
<1>3. Cardinality(Holders') = Cardinality(Holders) - 1 /\ Cardinality(Holders') \in Nat
  BY <1>2, HoldersFinite, FS_RemoveElement, FS_CardinalityType
<1>4. slots'.used = slots.used - 1 /\ slots'.used = Cardinality(Holders')
  BY <1>1, <1>3 DEF CountIsExact, TypeOK
<1>5. TypeOK'
  BY <1>1, <1>3, <1>4 DEF TypeOK, Standings
<1>6. CountIsExact'
  BY <1>4, <1>3 DEF CountIsExact, TypeOK
<1>7. slots'.waiting = << >>
  BY <1>1 DEF TypeOK
<1>8. NoIdleSlot' /\ LineIsExact'
  BY <1>1, <1>7 DEF NoIdleSlot, LineIsExact, Waiting, TypeOK
<1> QED
  BY <1>5, <1>6, <1>8

\* release() with somebody in line: the first of them holds the slot instead of this caller.
LEMMA ReleaseIInvHandsOn ==
    ASSUME IInv, NEW c \in Callers, Release(c), slots.waiting # << >>
    PROVE  IInv'
<1> DEFINE q == slots.waiting
           h == Head(q)
<1> USE DEF IInv, Release, HandOn
<1>1. q \in Seq(Callers) /\ slots'.waiting = Tail(q) /\ slots'.used = slots.used
      /\ slots'.closed = slots.closed
  BY DEF TypeOK
<1>2. /\ h \in Callers
      /\ Tail(q) \in Seq(Callers)
      /\ Waiting(slots)' = Waiting(slots) \ {h}
      /\ \A i, j \in 1..Len(slots'.waiting) : slots'.waiting[i] = slots'.waiting[j] => i = j
  <2>1. \A i, j \in 1..Len(q) : q[i] = q[j] => i = j
    BY DEF LineIsExact
  <2>2. /\ h \in Callers
        /\ Tail(q) \in Seq(Callers)
        /\ {Tail(q)[i] : i \in 1..Len(Tail(q))} = {q[i] : i \in 1..Len(q)} \ {h}
        /\ \A i, j \in 1..Len(Tail(q)) : Tail(q)[i] = Tail(q)[j] => i = j
    BY <1>1, <2>1, TailOfLine
  <2>3. Waiting(slots)' = {Tail(q)[i] : i \in 1..Len(Tail(q))}
    BY <1>1, Zenon DEF Waiting
  <2>4. Waiting(slots) = {q[i] : i \in 1..Len(q)}
    BY Zenon DEF Waiting
  <2> QED
    BY <1>1, <2>2, <2>3, <2>4, Zenon
<1>3. standing[h] = "waiting" /\ h # c
  <2>1. q[1] \in Waiting(slots) /\ h = q[1]
    BY <1>1 DEF Waiting
  <2> QED
    BY <1>2, <2>1 DEF LineIsExact
<1>4. standing' = [standing EXCEPT ![h] = "granted", ![c] = "away"]
  BY <1>2, <1>3 DEF TypeOK
<1>5. TypeOK'
  BY <1>1, <1>2, <1>4 DEF TypeOK, Standings
<1>6. Holders' = (Holders \ {c}) \cup {h} /\ c \in Holders /\ h \notin Holders \ {c}
  BY <1>2, <1>3, <1>4 DEF Holders, TypeOK
<1>7. Cardinality(Holders') = Cardinality(Holders)
  <2>1. IsFiniteSet(Holders \ {c}) /\ Cardinality(Holders \ {c}) = Cardinality(Holders) - 1
    BY <1>6, HoldersFinite, FS_RemoveElement
  <2>2. Cardinality(Holders') = Cardinality(Holders \ {c}) + 1
    BY <1>6, <2>1, FS_AddElement
  <2> QED
    BY <2>1, <2>2, HoldersFinite, FS_CardinalityType
<1>8. CountIsExact' /\ NoIdleSlot'
  BY <1>1, <1>7 DEF CountIsExact, NoIdleSlot
<1>9. LineIsExact'
  <2>1. \A d \in Callers : standing'[d] = "waiting" <=> d \in Waiting(slots)'
    BY <1>2, <1>3, <1>4 DEF LineIsExact, TypeOK
  <2> QED
    BY <1>2, <2>1, Zenon DEF LineIsExact
<1> QED
  BY <1>5, <1>8, <1>9

\* close(): nobody is left in line, and the slots in use stay in use.
LEMMA CloseIInv == ASSUME IInv, Close PROVE IInv'
<1> USE DEF IInv, Close, Shut
<1>1. slots'.waiting = << >> /\ slots'.used = slots.used
  BY DEF TypeOK
<1>2. TypeOK'
  <2>1. slots' \in [used : Nat, waiting : Seq(Callers), closed : BOOLEAN]
    <3>1. << >> \in Seq(Callers)
      OBVIOUS
    <3> QED
      BY <3>1 DEF TypeOK
  <2>2. standing' \in [Callers -> Standings]
    BY DEF TypeOK, Standings
  <2> QED
    BY <2>1, <2>2 DEF TypeOK
<1>3. Holders' = Holders
  BY DEF Holders, LineIsExact, TypeOK
<1>4. CountIsExact' /\ NoIdleSlot'
  BY <1>1, <1>3 DEF CountIsExact, NoIdleSlot
<1>5. LineIsExact'
  BY <1>1 DEF LineIsExact, Waiting, TypeOK
<1> QED
  BY <1>2, <1>4, <1>5

\* Every step keeps the invariant.
LEMMA NextIInv == IInv /\ [Next]_vars => IInv'
<1> SUFFICES ASSUME IInv, [Next]_vars PROVE IInv'
  OBVIOUS
<1>1. ASSUME NEW c \in Callers, AcquireRefused(c) PROVE IInv'
  <2>1. Holders' = Holders
    BY <1>1 DEF AcquireRefused, Holders, IInv, TypeOK
  <2> QED
    BY <1>1, <2>1 DEF AcquireRefused, IInv, TypeOK, Standings, CountIsExact, NoIdleSlot,
                      LineIsExact, Waiting
<1>2. ASSUME NEW c \in Callers, AcquireGranted(c) PROVE IInv'
  BY <1>2, GrantedIInv
<1>3. ASSUME NEW c \in Callers, AcquireWaits(c) PROVE IInv'
  BY <1>3, WaitsIInv
<1>4. ASSUME NEW c \in Callers, Release(c) PROVE IInv'
  BY <1>4, ReleaseIInvEmpty, ReleaseIInvHandsOn
<1>5. CASE Close
  BY <1>5, CloseIInv
<1>6. CASE UNCHANGED vars
  BY <1>6 DEF vars, IInv, TypeOK, CountIsExact, Holders, NoIdleSlot, LineIsExact, Waiting
<1> QED
  BY <1>1, <1>2, <1>3, <1>4, <1>5, <1>6 DEF Next

-----------------------------------------------------------------------------

\* The invariant holds for ever.
LEMMA IInvAlways == Spec => []IInv
<1>1. Init => IInv
  BY InitIInv
<1>2. IInv /\ [Next]_vars => IInv'
  BY NextIInv
<1> QED
  BY <1>1, <1>2, PTL DEF Spec

\* The object's fields and what its callers know keep their types.
THEOREM TypeCorrect == Spec => []TypeOK
<1>1. IInv => TypeOK
  BY DEF IInv
<1> QED
  BY <1>1, IInvAlways, PTL

\* No slot is leaked and none is handed out twice by acquire, release and close, whatever the
\* number of callers and slots.
THEOREM CountStaysExact == Spec => []CountIsExact
<1>1. IInv => CountIsExact
  BY DEF IInv
<1> QED
  BY <1>1, IInvAlways, PTL

\* Nobody waits in line while a slot is free or after close().
THEOREM NoSlotIdles == Spec => []NoIdleSlot
<1>1. IInv => NoIdleSlot
  BY DEF IInv
<1> QED
  BY <1>1, IInvAlways, PTL

\* The line of acquire() holds exactly those who wait, each once.
THEOREM LineStaysExact == Spec => []LineIsExact
<1>1. IInv => LineIsExact
  BY DEF IInv
<1> QED
  BY <1>1, IInvAlways, PTL

-----------------------------------------------------------------------------

\* What a step may do to the line and to those who hold no slot yet.
ServesInOrder ==
    /\ \A c \in Callers :
          standing[c] # "granted" /\ standing'[c] = "granted" /\ slots.waiting # << >>
            => c = Head(slots.waiting)
    /\ \A i \in 1..Len(slots.waiting), j \in 1..Len(slots'.waiting) :
          slots.waiting[i] = slots'.waiting[j] => j <= i

\* A step that leaves the line alone, or empties it, and grants nobody a slot.
LEMMA NobodyServed ==
    ASSUME IInv,
           slots'.waiting = slots.waiting \/ slots'.waiting = << >>,
           \A c \in Callers : standing'[c] = "granted" => standing[c] = "granted"
    PROVE  ServesInOrder
<1>1. \A i \in 1..Len(slots.waiting), j \in 1..Len(slots'.waiting) :
         slots.waiting[i] = slots'.waiting[j] => j <= i
  <2>1. CASE slots'.waiting = slots.waiting
    <3> SUFFICES ASSUME NEW i \in 1..Len(slots.waiting), NEW j \in 1..Len(slots.waiting),
                        slots.waiting[i] = slots.waiting[j]
                 PROVE  j <= i
      BY <2>1
    <3>1. i = j
      BY DEF IInv, LineIsExact
    <3>2. slots.waiting \in Seq(Callers)
      BY DEF IInv, TypeOK
    <3> QED
      BY <3>1, <3>2
  <2>2. CASE slots'.waiting = << >>
    BY <2>2
  <2> QED
    BY <2>1, <2>2
<1> QED
  BY <1>1 DEF ServesInOrder

\* acquire() that joins the line joins its end, behind everybody else.
LEMMA JoinsAtTheEnd ==
    ASSUME IInv, NEW c \in Callers, AcquireWaits(c)
    PROVE  ServesInOrder
<1> DEFINE q == slots.waiting
<1>1. /\ q \in Seq(Callers)
      /\ slots'.waiting = Append(q, c)
      /\ Len(q) \in Nat
      /\ Len(Append(q, c)) = Len(q) + 1
      /\ \A i \in 1..Len(q) : Append(q, c)[i] = q[i]
      /\ Append(q, c)[Len(q) + 1] = c
  BY DEF IInv, TypeOK, AcquireWaits, JoinLine
<1>2. \A d \in Callers : standing'[d] = "granted" => standing[d] = "granted"
  BY DEF IInv, TypeOK, AcquireWaits
<1>3. c \notin Waiting(slots)
  BY DEF IInv, LineIsExact, AcquireWaits
<1>4. ASSUME NEW i \in 1..Len(q), NEW j \in 1..(Len(q) + 1), q[i] = Append(q, c)[j]
      PROVE  j <= i
  <2>1. CASE j \in 1..Len(q)
    <3>1. q[i] = q[j]
      BY <1>1, <1>4, <2>1
    <3>2. i = j
      BY <3>1, <2>1 DEF IInv, LineIsExact
    <3> QED
      BY <3>2, <1>1
  <2>2. CASE j = Len(q) + 1
    <3>1. q[i] = c
      BY <1>1, <1>4, <2>2
    <3>2. q[i] \in Waiting(slots)
      BY DEF Waiting
    <3> QED
      BY <3>1, <3>2, <1>3
  <2> QED
    BY <1>1, <2>1, <2>2
<1>5. \A i \in 1..Len(q), j \in 1..Len(slots'.waiting) : q[i] = slots'.waiting[j] => j <= i
  BY <1>1, <1>4
<1> QED
  BY <1>2, <1>5 DEF ServesInOrder

\* release() serves the head of the line, and the others move up by one.
LEMMA HeadIsServed ==
    ASSUME IInv, NEW c \in Callers, Release(c), slots.waiting # << >>
    PROVE  ServesInOrder
<1> DEFINE q == slots.waiting
<1>1. /\ q \in Seq(Callers)
      /\ slots'.waiting = Tail(q)
      /\ Len(q) \in Nat \ {0}
      /\ Len(Tail(q)) = Len(q) - 1
      /\ \A i \in 1..Len(Tail(q)) : Tail(q)[i] = q[i + 1]
  BY DEF IInv, TypeOK, Release, HandOn
<1>2. \A d \in Callers : standing[d] # "granted" /\ standing'[d] = "granted" => d = Head(q)
  BY DEF Release, IInv, TypeOK
<1>3. ASSUME NEW i \in 1..Len(q), NEW j \in 1..Len(Tail(q)), q[i] = Tail(q)[j]
      PROVE  j <= i
  <2>1. j + 1 \in 1..Len(q) /\ q[i] = q[j + 1]
    BY <1>1, <1>3
  <2>2. i = j + 1
    BY <2>1 DEF IInv, LineIsExact
  <2> QED
    BY <2>2, <1>1
<1>4. \A i \in 1..Len(q), j \in 1..Len(slots'.waiting) : q[i] = slots'.waiting[j] => j <= i
  BY <1>1, <1>3
<1> QED
  BY <1>2, <1>4 DEF ServesInOrder

\* Every step serves in order.
LEMMA NextInOrder == IInv /\ [Next]_vars => ServesInOrder
<1> SUFFICES ASSUME IInv, [Next]_vars PROVE ServesInOrder
  OBVIOUS
<1>1. ASSUME NEW c \in Callers, AcquireRefused(c) PROVE ServesInOrder
  BY <1>1, NobodyServed DEF AcquireRefused, IInv, TypeOK
<1>2. ASSUME NEW c \in Callers, AcquireGranted(c) PROVE ServesInOrder
  <2>1. slots.waiting = << >>
    BY <1>2 DEF AcquireGranted, IInv, NoIdleSlot, TypeOK
  <2>2. 1..Len(slots.waiting) = {}
    BY <2>1
  <2> QED
    BY <2>1, <2>2 DEF ServesInOrder
<1>3. ASSUME NEW c \in Callers, AcquireWaits(c) PROVE ServesInOrder
  BY <1>3, JoinsAtTheEnd
<1>4. ASSUME NEW c \in Callers, Release(c) PROVE ServesInOrder
  <2>1. CASE slots.waiting = << >>
    <3>1. slots'.waiting = << >> /\ \A d \in Callers : standing'[d] = "granted" => standing[d] = "granted"
      BY <1>4, <2>1 DEF Release, HandOn, IInv, TypeOK
    <3> QED
      BY <3>1, NobodyServed
  <2>2. CASE slots.waiting # << >>
    BY <1>4, <2>2, HeadIsServed
  <2> QED
    BY <2>1, <2>2
<1>5. CASE Close
  <2>1. slots'.waiting = << >> /\ \A d \in Callers : standing'[d] = "granted" => standing[d] = "granted"
    BY <1>5 DEF Close, Shut, IInv, TypeOK
  <2> QED
    BY <2>1, NobodyServed
<1>6. CASE UNCHANGED vars
  <2>1. slots'.waiting = slots.waiting /\ \A d \in Callers : standing'[d] = "granted" => standing[d] = "granted"
    BY <1>6 DEF vars
  <2> QED
    BY <2>1, NobodyServed
<1> QED
  BY <1>1, <1>2, <1>3, <1>4, <1>5, <1>6 DEF Next

\* Slots go to callers in the order in which they asked: nobody who calls acquire() later is
\* served before one who waits, and the line only moves up.
THEOREM ServedInOrder == Spec => FirstComeFirstServed
<1>1. IInv /\ [Next]_vars => ServesInOrder
  BY NextInOrder
<1>2. IInv /\ [Next]_vars => [ServesInOrder]_vars
  BY <1>1
<1>3. Spec => [][ServesInOrder]_vars
  BY <1>2, IInvAlways, PTL DEF Spec
<1> QED
  BY <1>3, PTL DEF FirstComeFirstServed, ServesInOrder
=============================================================================
