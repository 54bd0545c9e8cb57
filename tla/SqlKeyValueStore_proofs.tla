----------------------- MODULE SqlKeyValueStore_proofs -----------------------
(***************************************************************************)
(* Proofs about SqlKeyValueStore: its types, that what a transaction       *)
(* checked holds until it commits, that it implements the conditional      *)
(* store, and that one caller of those that insert wins.                   *)
(***************************************************************************)
EXTENDS SqlKeyValueStore, TLAPS

\* Where a call is tells what it is, and its times are in order.
Places ==
    \A c \in Callers :
       /\ tx[c].at \in {"clear", "insert"} => calls[c].kind = "insert"
       /\ At(c, "match") => calls[c].kind \in Matching
       /\ At(c, "evict") => calls[c].kind = "read"
       /\ ~At(c, "outside") =>
             /\ calls[c].since <= clock /\ clock <= calls[c].since + Lag
             /\ calls[c].until > calls[c].since + Lag
       /\ tx[c].at \in {"clear", "insert", "match"} \/ (At(c, "commit") /\ calls[c].kind \in Matching \cup {"insert"})
             => calls[c].since <= tx[c].now /\ tx[c].now <= clock

\* What a transaction has written, over what.
Drafts ==
    \A c \in Callers :
       /\ At(c, "insert") /\ lock = c => own = None /\ ~Live(row, tx[c].now)
       /\ At(c, "commit") =>
             own = IF calls[c].kind \in Deletes \cup {"read"} THEN None
                   ELSE [value |-> calls[c].value, until |-> calls[c].until]

\* A row that will refuse an insert was live when the insert was called.
RefusedByLive ==
    \A c \in Callers : At(c, "insert") /\ lock # c /\ row # None => row.until > calls[c].since

\* A get that deletes has the key to itself, and deletes what has expired.
GetsEvictExpired ==
    ~OvertakenGets =>
       \A c \in Callers :
          /\ At(c, "evict") => lock = None /\ ~Live(row, clock) /\ \A d \in Callers : At(d, "evict") => d = c
          /\ At(c, "commit") /\ calls[c].kind = "read" => ~Live(row, clock)

IInv == TypeOK /\ CheckStillHolds /\ Places /\ Drafts /\ RefusedByLive /\ GetsEvictExpired

USE StoreAssumption

Answers == {"yes", "no", "found", "absent", "error"}

-----------------------------------------------------------------------------
(* What a step does to the caller it belongs to, and not to the others.    *)

\* A call whose statements run is one.
LEMMA OpenCall ==
    ASSUME TypeOK, NEW c \in Callers, ~At(c, "outside")
    PROVE  calls[c] \in Calls
  BY DEF TypeOK

LEMMA AnswerEnds ==
    ASSUME TypeOK, NEW c \in Callers, ~At(c, "outside"), NEW a \in Answers, Answer(c, a)
    PROVE  /\ calls' \in [Callers -> Calls \cup {NoCall}]
           /\ tx' \in [Callers -> [at : {"outside", "called", "clear", "insert", "match", "evict", "commit"},
                                   now : Nat]]
           /\ At(c, "outside")'
           /\ calls'[c] \in Calls /\ calls'[c].answer = a
           /\ \A d \in Callers \ {c} : calls'[d] = calls[d] /\ tx'[d] = tx[d]
<1>1. calls[c] \in Calls
  BY OpenCall
<1>2. [calls[c] EXCEPT !.answer = a] \in Calls
  BY <1>1 DEF Calls, Answers
<1> QED
  BY <1>1, <1>2 DEF TypeOK, Answer, At, Outside, Calls

LEMMA NoCallIsNone == NoCall \notin Calls
  BY DEF NoCall, Calls

\* A call that is answered with nothing committed: its transaction, if any, is rolled back.
LEMMA AnsweringKeeps ==
    ASSUME IInv, NEW c \in Callers, ~At(c, "outside"), NEW a \in Answers, Answer(c, a),
           Rollback(c), UNCHANGED clock
    PROVE  IInv'
<1> USE DEF IInv, Rollback
<1> DEFINE Rest == \A d \in Callers \ {c} : calls'[d] = calls[d] /\ tx'[d] = tx[d]
<1>1. /\ calls' \in [Callers -> Calls \cup {NoCall}]
      /\ tx' \in [Callers -> [at : {"outside", "called", "clear", "insert", "match", "evict", "commit"},
                              now : Nat]]
      /\ At(c, "outside")'
      /\ calls'[c] \in Calls /\ calls'[c].answer = a
      /\ Rest
  BY AnswerEnds
<1>2. TypeOK'
  BY <1>1, NoCallIsNone DEF TypeOK, At, Answers
<1>3. CheckStillHolds'
  BY <1>1 DEF CheckStillHolds, At, IsExpected
<1>4. Places'
  BY <1>1 DEF Places, At
<1>5. Drafts'
  BY <1>1 DEF Drafts, TypeOK, At
<1>6. RefusedByLive'
  <2> SUFFICES ASSUME NEW d \in Callers, At(d, "insert")', lock' # d, row # None
               PROVE  row.until > calls'[d].since
    BY DEF RefusedByLive
  <2>1. d # c /\ calls'[d] = calls[d] /\ At(d, "insert")
    BY <1>1 DEF At
  <2>2. lock # d
    BY <2>1
  <2> QED
    BY <2>1, <2>2 DEF RefusedByLive
<1>7. GetsEvictExpired'
  BY <1>1 DEF GetsEvictExpired, At
<1> QED
  BY <1>2, <1>3, <1>4, <1>5, <1>6, <1>7

\* A statement writes the row as its call asks, and was right to do so.
Drafting(c) ==
    \/ Puts(c) /\ calls[c].kind \notin Deletes \cup {"read"}
    \/ Removes(c) /\ calls[c].kind \in Deletes \cup {"read"}

Justified(c) ==
    /\ calls[c].kind = "insert" => At(c, "insert") /\ ~Live(row, tx[c].now)
    /\ calls[c].kind \in Matching =>
          At(c, "match") /\ Live(row, tx[c].now) /\ IsExpected(c, row.value)
    /\ calls[c].kind = "read" => At(c, "evict")

LEMMA DraftingKeeps ==
    ASSUME IInv, NEW c \in Callers, ~At(c, "outside"), Free(c), Go(c, "commit"),
           Drafting(c), Justified(c), row' = row, calls' = calls, clock' = clock
    PROVE  IInv'
<1> USE DEF IInv, Drafting, Justified
<1>1. calls[c] \in Calls
  BY OpenCall
<1>2. own' \in Records \cup {None} /\ lock' = c
  BY <1>1 DEF Puts, Removes, Records, Calls
<1>3. /\ tx' \in [Callers -> [at : {"outside", "called", "clear", "insert", "match", "evict", "commit"},
                              now : Nat]]
      /\ At(c, "commit")' /\ tx'[c].now = tx[c].now
      /\ \A d \in Callers \ {c} : tx'[d] = tx[d]
  BY DEF Go, At, TypeOK
<1>4. \A d \in Callers \ {c} : lock # d
  BY DEF Free, TypeOK
<1>5. TypeOK'
  BY <1>2, <1>3, <1>4 DEF TypeOK, At
<1>6. CheckStillHolds'
  BY <1>3 DEF CheckStillHolds, At, IsExpected
<1>7. Places'
  BY <1>3 DEF Places, At
<1>8. Drafts'
  BY <1>2, <1>3, <1>4 DEF Drafts, At, TypeOK, Puts, Removes
<1>9. RefusedByLive'
  BY <1>2, <1>3, <1>4 DEF RefusedByLive, At
<1>10. GetsEvictExpired'
  BY <1>2, <1>3, <1>4 DEF GetsEvictExpired, At, Free
<1> QED
  BY <1>5, <1>6, <1>7, <1>8, <1>9, <1>10

-----------------------------------------------------------------------------
(* The statements keep the invariant.                                      *)

LEMMA CallKeeps ==
    ASSUME IInv, NEW c \in Callers, Call(c)
    PROVE  IInv'
<1> USE DEF IInv, Call, Go, Expected
<1>1. TypeOK'
  BY DEF TypeOK, Records, Calls, NoCall, Outside, At
<1>2. CheckStillHolds'
  BY DEF CheckStillHolds, TypeOK, Calls, NoCall, Outside, At, IsExpected, Live, Drafts, Records, Matching
<1>3. Places'
  BY DEF Places, TypeOK, Calls, NoCall, Outside, At, Matching
<1>4. Drafts'
  BY DEF Drafts, TypeOK, Places, Calls, NoCall, Outside, At, Live, Deletes, Records, Matching
<1>5. RefusedByLive'
  BY DEF RefusedByLive, TypeOK, Places, Drafts, Calls, NoCall, Outside, At, Live, Records
<1>6. GetsEvictExpired'
  BY DEF GetsEvictExpired, TypeOK, Places, Drafts, Calls, NoCall, Outside, At, Live, Records
<1> QED
  BY <1>1, <1>2, <1>3, <1>4, <1>5, <1>6

LEMMA ReturnKeeps ==
    ASSUME IInv, NEW c \in Callers, Return(c)
    PROVE  IInv'
<1> USE DEF IInv, Return
<1>1. TypeOK'
  BY DEF TypeOK, Records, Calls, NoCall, Outside, At
<1>2. CheckStillHolds'
  BY DEF CheckStillHolds, TypeOK, Calls, NoCall, Outside, At, IsExpected, Live, Drafts, Records, Matching
<1>3. Places'
  BY DEF Places, TypeOK, Calls, NoCall, Outside, At, Matching
<1>4. Drafts'
  BY DEF Drafts, TypeOK, Places, Calls, NoCall, Outside, At, Live, Deletes, Records, Matching
<1>5. RefusedByLive'
  BY DEF RefusedByLive, TypeOK, Places, Drafts, Calls, NoCall, Outside, At, Live, Records
<1>6. GetsEvictExpired'
  BY DEF GetsEvictExpired, TypeOK, Places, Drafts, Calls, NoCall, Outside, At, Live, Records
<1> QED
  BY <1>1, <1>2, <1>3, <1>4, <1>5, <1>6

LEMMA InsertLooksKeeps ==
    ASSUME IInv, NEW c \in Callers, InsertLooks(c)
    PROVE  IInv'
<1> USE DEF IInv, InsertLooks, Looks
<1>1. TypeOK'
  BY DEF TypeOK, Records, Calls, NoCall, Outside, At
<1>2. CheckStillHolds'
  BY DEF CheckStillHolds, TypeOK, Calls, NoCall, Outside, At, IsExpected, Live, Drafts, Records, Matching
<1>3. Places'
  BY DEF Places, TypeOK, Calls, NoCall, Outside, At, Matching
<1>4. Drafts'
  BY DEF Drafts, TypeOK, Places, Calls, NoCall, Outside, At, Live, Deletes, Records, Matching
<1>5. RefusedByLive'
  BY DEF RefusedByLive, TypeOK, Places, Drafts, Calls, NoCall, Outside, At, Live, Records
<1>6. GetsEvictExpired'
  BY DEF GetsEvictExpired, TypeOK, Places, Drafts, Calls, NoCall, Outside, At, Live, Records
<1> QED
  BY <1>1, <1>2, <1>3, <1>4, <1>5, <1>6

LEMMA InsertClearsKeeps ==
    ASSUME IInv, NEW c \in Callers, InsertClears(c)
    PROVE  IInv'
<1> USE DEF IInv, InsertClears, Go, Removes, Free
<1>1. TypeOK'
  BY DEF TypeOK, Records, Calls, NoCall, Outside, At
<1>2. CheckStillHolds'
  BY DEF CheckStillHolds, TypeOK, Calls, NoCall, Outside, At, IsExpected, Live, Drafts, Records, Matching
<1>3. Places'
  BY DEF Places, TypeOK, Calls, NoCall, Outside, At, Matching
<1>4. Drafts'
  BY DEF Drafts, TypeOK, Places, Calls, NoCall, Outside, At, Live, Deletes, Records, Matching
<1>5. RefusedByLive'
  BY DEF RefusedByLive, TypeOK, Places, Drafts, Calls, NoCall, Outside, At, Live, Records
<1>6. GetsEvictExpired'
  BY DEF GetsEvictExpired, TypeOK, Places, Drafts, Calls, NoCall, Outside, At, Live, Records
<1> QED
  BY <1>1, <1>2, <1>3, <1>4, <1>5, <1>6

LEMMA InsertsKeeps ==
    ASSUME IInv, NEW c \in Callers, Inserts(c)
    PROVE  IInv'
<1>1. At(c, "insert") /\ ~At(c, "outside") /\ calls[c].kind = "insert" /\ Free(c)
  BY DEF IInv, Places, Inserts, At
<1>2. CASE Found(c) = None
  <2>1. ~Live(row, tx[c].now)
    BY <1>1, <1>2 DEF IInv, Drafts, Found, Live
  <2>2. Drafting(c) /\ Justified(c)
    BY <1>1, <1>2, <2>1 DEF Inserts, Drafting, Justified, Deletes, Matching
  <2> QED
    BY <1>1, <1>2, <2>2, DraftingKeeps DEF Inserts
<1>3. CASE Found(c) # None
  BY <1>1, <1>3, AnsweringKeeps DEF Inserts, Answers
<1> QED
  BY <1>2, <1>3

LEMMA MatchLooksKeeps ==
    ASSUME IInv, NEW c \in Callers, MatchLooks(c)
    PROVE  IInv'
<1> USE DEF IInv, MatchLooks, Looks
<1>1. TypeOK'
  BY DEF TypeOK, Records, Calls, NoCall, Outside, At
<1>2. CheckStillHolds'
  BY DEF CheckStillHolds, TypeOK, Calls, NoCall, Outside, At, IsExpected, Live, Drafts, Records, Matching
<1>3. Places'
  BY DEF Places, TypeOK, Calls, NoCall, Outside, At, Matching
<1>4. Drafts'
  BY DEF Drafts, TypeOK, Places, Calls, NoCall, Outside, At, Live, Deletes, Records, Matching
<1>5. RefusedByLive'
  BY DEF RefusedByLive, TypeOK, Places, Drafts, Calls, NoCall, Outside, At, Live, Records
<1>6. GetsEvictExpired'
  BY DEF GetsEvictExpired, TypeOK, Places, Drafts, Calls, NoCall, Outside, At, Live, Records
<1> QED
  BY <1>1, <1>2, <1>3, <1>4, <1>5, <1>6

LEMMA MatchesKeeps ==
    ASSUME IInv, NEW c \in Callers, Matches(c)
    PROVE  IInv'
<1>1. At(c, "match") /\ ~At(c, "outside") /\ calls[c].kind \in Matching /\ Free(c)
  BY DEF IInv, Places, Matches, At
<1>2. lock # c
  BY <1>1 DEF IInv, TypeOK, At
<1>3. CASE Live(row, tx[c].now) /\ IsExpected(c, row.value)
  <2>1. Drafting(c) /\ Justified(c)
    BY <1>1, <1>3 DEF Matches, Drafting, Justified, Deletes, Matching
  <2> QED
    BY <1>1, <1>3, <2>1, DraftingKeeps DEF Matches
<1>4. CASE ~(Live(row, tx[c].now) /\ IsExpected(c, row.value))
  BY <1>1, <1>2, <1>4, AnsweringKeeps DEF Matches, Answers, Rollback
<1> QED
  BY <1>3, <1>4

LEMMA OverwritesKeeps ==
    ASSUME IInv, NEW c \in Callers, Overwrites(c)
    PROVE  IInv'
<1>1. ~At(c, "outside") /\ calls[c].kind = "put"
  BY DEF Overwrites, At
<1>2. Drafting(c) /\ Justified(c)
  BY <1>1 DEF Overwrites, Drafting, Justified, Deletes, Matching
<1> QED
  BY <1>1, <1>2, DraftingKeeps DEF Overwrites

LEMMA ErasesKeeps ==
    ASSUME IInv, NEW c \in Callers, Erases(c)
    PROVE  IInv'
<1>1. At(c, "called") /\ ~At(c, "outside") /\ calls[c].kind = "erase" /\ Free(c)
  BY DEF Erases, At
<1>2. lock # c
  BY <1>1 DEF IInv, TypeOK, At
<1>3. CASE row # None
  <2>1. Drafting(c) /\ Justified(c)
    BY <1>1, <1>3 DEF Erases, Drafting, Justified, Deletes, Matching
  <2> QED
    BY <1>1, <1>3, <2>1, DraftingKeeps DEF Erases
<1>4. CASE row = None
  BY <1>1, <1>2, <1>4, AnsweringKeeps DEF Erases, Answers, Rollback
<1> QED
  BY <1>3, <1>4

LEMMA ReadsKeeps ==
    ASSUME IInv, NEW c \in Callers, Reads(c)
    PROVE  IInv'
<1>1. At(c, "called") /\ ~At(c, "outside") /\ calls[c].kind = "read"
  BY DEF Reads, At
<1>2. lock # c
  BY <1>1 DEF IInv, TypeOK, At
<1>3. CASE row # None /\ ~Live(row, clock)
  <2> USE <1>1, <1>2, <1>3 DEF IInv, Reads, Go
  <2>1. TypeOK'
    <3>1. tx' = [tx EXCEPT ![c].at = "evict"] /\ UNCHANGED <<row, lock, own, calls, clock>>
      OBVIOUS
    <3> QED
      BY <3>1 DEF TypeOK, At
  <2>2. CheckStillHolds'
    BY DEF CheckStillHolds, TypeOK, Calls, NoCall, Outside, At, IsExpected, Live, Drafts, Records, Matching
  <2>3. Places'
    BY DEF Places, TypeOK, Calls, NoCall, Outside, At, Matching
  <2>4. Drafts'
    BY DEF Drafts, TypeOK, Places, Calls, NoCall, Outside, At, Live, Deletes, Records, Matching
  <2>5. RefusedByLive'
    BY DEF RefusedByLive, TypeOK, Places, Drafts, Calls, NoCall, Outside, At, Live, Records
  <2>6. GetsEvictExpired'
    BY DEF GetsEvictExpired, TypeOK, Places, Drafts, Calls, NoCall, Outside, At, Live, Records, Free
  <2> QED
    BY <2>1, <2>2, <2>3, <2>4, <2>5, <2>6
<1>4. CASE ~(row # None /\ ~Live(row, clock))
  BY <1>1, <1>2, <1>4, AnsweringKeeps DEF Reads, Answers, Rollback
<1> QED
  BY <1>3, <1>4

LEMMA EvictsKeeps ==
    ASSUME IInv, NEW c \in Callers, Evicts(c)
    PROVE  IInv'
<1>1. At(c, "evict") /\ ~At(c, "outside") /\ calls[c].kind = "read" /\ Free(c)
  BY DEF IInv, Places, Evicts, At
<1>2. lock # c
  BY <1>1 DEF IInv, TypeOK, At
<1>3. CASE row # None
  <2>1. Drafting(c) /\ Justified(c)
    BY <1>1, <1>3 DEF Evicts, Drafting, Justified, Deletes, Matching
  <2> QED
    BY <1>1, <1>3, <2>1, DraftingKeeps DEF Evicts
<1>4. CASE row = None
  BY <1>1, <1>2, <1>4, AnsweringKeeps DEF Evicts, Answers, Rollback
<1> QED
  BY <1>3, <1>4

LEMMA CommitsKeeps ==
    ASSUME IInv, NEW c \in Callers, Commits(c)
    PROVE  IInv'
<1> USE DEF IInv
<1>1. PICK a \in Answers : Answer(c, a)
  BY DEF Commits, Answers
<1>2. ~At(c, "outside") /\ lock = c
  BY DEF Commits, At, TypeOK
<1>3. /\ calls' \in [Callers -> Calls \cup {NoCall}]
      /\ tx' \in [Callers -> [at : {"outside", "called", "clear", "insert", "match", "evict", "commit"},
                              now : Nat]]
      /\ At(c, "outside")'
      /\ calls'[c] \in Calls /\ calls'[c].answer = a
      /\ \A d \in Callers \ {c} : calls'[d] = calls[d] /\ tx'[d] = tx[d]
  BY <1>1, <1>2, AnswerEnds
<1>4. \A d \in Callers : ~At(d, "commit")'
  BY <1>2, <1>3 DEF TypeOK, At
<1>5. TypeOK'
  BY <1>2, <1>3, <1>4, NoCallIsNone DEF Commits, TypeOK, At, Answers
<1>6. CheckStillHolds' /\ Drafts'
  BY <1>3, <1>4 DEF Commits, CheckStillHolds, Drafts
<1>7. Places'
  BY <1>3 DEF Commits, Places, At
<1>8. RefusedByLive'
  <2> SUFFICES ASSUME NEW d \in Callers, At(d, "insert")', own # None
               PROVE  own.until > calls'[d].since
    BY DEF RefusedByLive, Commits
  <2>1. d # c /\ calls'[d] = calls[d] /\ At(d, "insert")
    BY <1>3 DEF At
  <2>2. own.until = calls[c].until
    BY DEF Commits, Drafts
  <2>3. calls[c].until > clock /\ calls[d].since <= clock
    BY <1>2, <2>1, OpenCall DEF Places, At, TypeOK, Calls
  <2> QED
    BY <1>2, <2>1, <2>2, <2>3, OpenCall DEF Calls, TypeOK, At
<1>9. GetsEvictExpired'
  BY <1>2, <1>3, <1>4 DEF Commits, GetsEvictExpired, At
<1> QED
  BY <1>5, <1>6, <1>7, <1>8, <1>9

LEMMA FailsKeeps ==
    ASSUME IInv, NEW c \in Callers, Fails(c)
    PROVE  IInv'
  BY AnsweringKeeps DEF Fails, Answers

\* Time passes: what has expired stays so.
LEMMA TickKeeps ==
    ASSUME IInv, Tick
    PROVE  IInv'
<1> USE DEF IInv, Tick
<1>1. TypeOK'
  BY DEF TypeOK, Records, Calls, NoCall, Outside, At
<1>2. CheckStillHolds'
  BY DEF CheckStillHolds, TypeOK, Calls, NoCall, Outside, At, IsExpected, Live, Drafts, Records, Matching
<1>3. Places'
  BY DEF Places, TypeOK, Calls, NoCall, Outside, At, Matching
<1>4. Drafts'
  BY DEF Drafts, TypeOK, Places, Calls, NoCall, Outside, At, Live, Deletes, Records, Matching
<1>5. RefusedByLive'
  BY DEF RefusedByLive, TypeOK, Places, Drafts, Calls, NoCall, Outside, At, Live, Records
<1>6. GetsEvictExpired'
  BY DEF GetsEvictExpired, TypeOK, Places, Drafts, Calls, NoCall, Outside, At, Live, Records
<1> QED
  BY <1>1, <1>2, <1>3, <1>4, <1>5, <1>6

-----------------------------------------------------------------------------
(* The invariants.                                                         *)

LEMMA InitHolds == Init => IInv
  BY DEF Init, IInv, TypeOK, CheckStillHolds, Places, Drafts, RefusedByLive, GetsEvictExpired, At,
         Outside, NoCall

LEMMA NextKeeps == IInv /\ [Next]_vars => IInv'
<1> SUFFICES ASSUME IInv, [Next]_vars
             PROVE  IInv'
  OBVIOUS
<1>1. CASE UNCHANGED vars
  BY <1>1 DEF vars, IInv, TypeOK, CheckStillHolds, Places, Drafts, RefusedByLive, GetsEvictExpired, At,
              IsExpected
<1>2. ASSUME NEW c \in Callers, Call(c) \/ Return(c) \/ Statement(c) \/ Fails(c)
      PROVE  IInv'
  BY <1>2, CallKeeps, ReturnKeeps, InsertLooksKeeps, InsertClearsKeeps, InsertsKeeps, MatchLooksKeeps,
     MatchesKeeps, OverwritesKeeps, ErasesKeeps, ReadsKeeps, EvictsKeeps, CommitsKeeps, FailsKeeps
     DEF Statement
<1>3. CASE Tick
  BY <1>3, TickKeeps
<1> QED
  BY <1>1, <1>2, <1>3 DEF Next

THEOREM Invariance == Spec => []IInv
<1>1. Init => IInv
  BY InitHolds
<1>2. IInv /\ [Next]_vars => IInv'
  BY NextKeeps
<1> QED
  BY <1>1, <1>2, PTL DEF Spec

\* For any callers, values and times, every variable keeps its type, an open call is one whose
\* statements run, and the key is locked only by a transaction under way.
THEOREM TypeCorrect == Spec => []TypeOK
<1>1. IInv => TypeOK
  BY DEF IInv
<1> QED
  BY <1>1, Invariance, PTL

\* What a transaction found when it checked its condition is still so when it commits, also when
\* gets delete expired records in between (keyValueStore/index.ts: set, delete).
THEOREM ChecksHold == Spec => []CheckStillHolds
<1>1. IInv => CheckStillHolds
  BY DEF IInv
<1> QED
  BY <1>1, Invariance, PTL

-----------------------------------------------------------------------------
(* The conditional store.                                                  *)

\* No write comes between a get's read and its delete.
GetsAlone == "read" \in Kinds => ~OvertakenGets

LEMMA OpenThere ==
    ASSUME IInv, NEW c \in Callers, ~At(c, "outside")
    PROVE  /\ Store!Open(c) /\ calls[c] \in Calls
           /\ clock \in Store!Times(c)
  BY OpenCall DEF IInv, TypeOK, Store!Open, Store!NoCall, NoCall, Store!Times, Calls, Places, At

LEMMA CallThere ==
    ASSUME NEW c \in Callers, Call(c)
    PROVE  Store!Call(c)
<1>1. Kinds \subseteq Store!Writes \cup Store!Deletes \cup {"read"}
  BY DEF Store!Writes, Store!Deletes
<1>2. \A kind : Store!Expected(kind) = Expected(kind)
  BY DEF Store!Expected, Expected, Store!Matching, Matching
<1> QED
  BY <1>1, <1>2 DEF Call, Store!Call, NoCall, Store!NoCall

LEMMA ReturnThere ==
    ASSUME IInv, NEW c \in Callers, Return(c)
    PROVE  Store!Return(c)
  BY DEF IInv, TypeOK, Return, Store!Return, Store!Open, NoCall, Store!NoCall, At

LEMMA FailsThere ==
    ASSUME IInv, NEW c \in Callers, Fails(c)
    PROVE  Store!Erring(c)
  BY OpenThere DEF Fails, Rollback, Answer, Store!Answer, Store!Erring, Store!Clearing

\* An insert is refused because of a row that was live when the call began.
LEMMA InsertsThere ==
    ASSUME IInv, NEW c \in Callers, Inserts(c)
    PROVE  Store!Refusing(c) \/ UNCHANGED Store!vars
<1>1. At(c, "insert") /\ ~At(c, "outside") /\ calls[c].kind = "insert" /\ Free(c)
  BY DEF IInv, Places, Inserts, At
<1>2. Store!Open(c) /\ calls[c] \in Calls
  BY <1>1, OpenThere
<1>3. CASE Found(c) = None
  BY <1>3 DEF Inserts, Store!vars
<1>4. CASE Found(c) # None
  <2>1. lock # c /\ row # None
    BY <1>1, <1>4 DEF IInv, Drafts, Found
  <2>2. row.until > calls[c].since
    BY <1>1, <2>1 DEF IInv, RefusedByLive
  <2>3. calls[c].since \in Store!Times(c)
    BY <1>1, <1>2 DEF IInv, TypeOK, Places, Store!Times, Calls, At
  <2>4. ~Store!Holds(calls[c], row, calls[c].since)
    BY <1>1, <2>1, <2>2 DEF Store!Holds, Store!Live
  <2> QED
    BY <1>1, <1>2, <1>4, <2>3, <2>4 DEF Inserts, Answer, Rollback, Store!Refusing, Store!Answer,
                                       Store!Conditional
<1> QED
  BY <1>3, <1>4

LEMMA MatchesThere ==
    ASSUME IInv, NEW c \in Callers, Matches(c)
    PROVE  Store!Refusing(c) \/ UNCHANGED Store!vars
<1>1. At(c, "match") /\ ~At(c, "outside") /\ calls[c].kind \in Matching
  BY DEF IInv, Places, Matches, At
<1>2. Store!Open(c) /\ calls[c] \in Calls
  BY <1>1, OpenThere
<1>3. CASE Live(row, tx[c].now) /\ IsExpected(c, row.value)
  BY <1>3 DEF Matches, Store!vars
<1>4. CASE ~(Live(row, tx[c].now) /\ IsExpected(c, row.value))
  <2>1. tx[c].now \in Store!Times(c)
    BY <1>1, <1>2 DEF IInv, TypeOK, Places, Store!Times, Calls, At
  <2>2. ~Store!Holds(calls[c], row, tx[c].now)
    BY <1>1, <1>4 DEF Store!Holds, Store!Live, Live, IsExpected, Store!Matching, Matching
  <2> QED
    BY <1>1, <1>2, <1>4, <2>1, <2>2 DEF Matches, Answer, Store!Refusing, Store!Answer,
                                       Store!Conditional, Store!Matching, Matching
<1> QED
  BY <1>3, <1>4

\* Nothing there to delete.
LEMMA ErasesThere ==
    ASSUME IInv, NEW c \in Callers, Erases(c)
    PROVE  Store!Writing(c) \/ UNCHANGED Store!vars
<1>1. ~At(c, "outside") /\ calls[c].kind = "erase"
  BY DEF Erases, At
<1>2. Store!Open(c) /\ clock \in Store!Times(c)
  BY <1>1, OpenThere
<1>3. CASE row # None
  BY <1>3 DEF Erases, Store!vars
<1>4. CASE row = None
  <2>1. Store!Holds(calls[c], row, clock) /\ Store!Written(calls[c]) = None
    BY <1>1 DEF Store!Holds, Store!Matching, Store!Written, Store!Deletes
  <2> QED
    BY <1>1, <1>2, <1>4, <2>1 DEF Erases, Answer, Store!Writing, Store!Answer
<1> QED
  BY <1>3, <1>4

\* A get that finds nothing, or a live record.
LEMMA ReadsThere ==
    ASSUME IInv, NEW c \in Callers, Reads(c) \/ Evicts(c)
    PROVE  Store!Reading(c) \/ UNCHANGED Store!vars
<1>1. ~At(c, "outside") /\ calls[c].kind = "read"
  BY DEF IInv, Places, Reads, Evicts, At
<1>2. Store!Open(c) /\ clock \in Store!Times(c)
  BY <1>1, OpenThere
<1>3. CASE UNCHANGED calls
  BY <1>3 DEF Reads, Evicts, Store!vars
<1>4. CASE Answer(c, IF Live(row, clock) THEN "found" ELSE "absent")
  BY <1>1, <1>2, <1>4 DEF Reads, Evicts, Answer, Live, Store!Live, Store!Reading, Store!Answer,
                          Store!Clearing
<1>5. UNCHANGED calls \/ Answer(c, IF Live(row, clock) THEN "found" ELSE "absent")
  BY DEF Reads, Evicts, Live
<1> QED
  BY <1>3, <1>4, <1>5

\* A commit is the step of the conditional store: what was checked still holds.
LEMMA CommitsThere ==
    ASSUME IInv, GetsAlone, NEW c \in Callers, Commits(c)
    PROVE  Store!Writing(c) \/ Store!Reading(c) \/ Store!Erring(c)
<1>1. At(c, "commit") /\ ~At(c, "outside")
  BY DEF Commits, At
<1>2. Store!Open(c) /\ calls[c] \in Calls /\ clock \in Store!Times(c)
  BY <1>1, OpenThere
<1>3. CASE calls[c].kind = "read"
  <2>1. ~Live(row, clock)
    BY <1>1, <1>2, <1>3 DEF IInv, GetsEvictExpired, GetsAlone, Calls
  <2>2. row' = None
    BY <1>1, <1>3 DEF IInv, Drafts, Commits
  <2>3. Store!Clearing
    BY <2>1, <2>2 DEF Store!Clearing, Store!Live, Live
  <2>4. CASE Answer(c, "absent")
    BY <1>2, <1>3, <2>1, <2>3, <2>4 DEF Commits, Answer, Live, Store!Live, Store!Reading, Store!Answer
  <2>5. CASE Answer(c, "error")
    BY <1>2, <2>3, <2>5 DEF Commits, Answer, Store!Erring, Store!Answer
  <2> QED
    BY <1>3, <2>4, <2>5 DEF Commits
<1>4. CASE calls[c].kind # "read"
  <2>1. row' = Store!Written(calls[c])
    BY <1>1, <1>4 DEF IInv, Drafts, Commits, Store!Written, Store!Deletes, Deletes
  <2>2. \E now \in Store!Times(c) : Store!Holds(calls[c], row, now)
    <3>1. CASE calls[c].kind \in Matching \cup {"insert"}
      <4>1. tx[c].now \in Store!Times(c)
        BY <1>1, <1>2, <3>1 DEF IInv, TypeOK, Places, Store!Times, Calls, At
      <4>2. Store!Holds(calls[c], row, tx[c].now)
        BY <1>1, <3>1 DEF IInv, CheckStillHolds, Store!Holds, Store!Live, Live, IsExpected,
                          Store!Matching, Matching
      <4> QED
        BY <4>1, <4>2
    <3>2. CASE calls[c].kind \notin Matching \cup {"insert"}
      BY <1>2, <3>2 DEF Store!Holds, Store!Matching, Matching
    <3> QED
      BY <3>1, <3>2
  <2> QED
    BY <1>2, <1>4, <2>1, <2>2 DEF Commits, Answer, Store!Writing, Store!Answer
<1> QED
  BY <1>3, <1>4

LEMMA StepThere ==
    ASSUME IInv, GetsAlone, [Next]_vars
    PROVE  [Store!Next]_(Store!vars)
<1>1. CASE UNCHANGED vars
  BY <1>1 DEF vars, Store!vars
<1>2. CASE Tick
  BY <1>2 DEF Tick, Store!Tick, Store!Next
<1>3. ASSUME NEW c \in Callers, InsertLooks(c) \/ InsertClears(c) \/ MatchLooks(c) \/ Overwrites(c)
      PROVE  UNCHANGED Store!vars
  BY <1>3 DEF InsertLooks, InsertClears, MatchLooks, Overwrites, Store!vars
<1>4. ASSUME NEW c \in Callers, Call(c) \/ Return(c) \/ Statement(c) \/ Fails(c)
      PROVE  [Store!Next]_(Store!vars)
  BY <1>3, <1>4, CallThere, ReturnThere, FailsThere, InsertsThere, MatchesThere, ErasesThere, ReadsThere,
     CommitsThere DEF Statement, Store!Next
<1> QED
  BY <1>1, <1>2, <1>4 DEF Next

\* The store checks the record and writes it as one step, for any callers, values and times, as long
\* as no write comes between a get's read and its delete (keyValueStore/index.ts against
\* keyValueStore/abstractions.ts).
THEOREM ChecksAndWritesAsOne ==
    ASSUME GetsAlone
    PROVE  Spec => ImplementsConditionalStore
<1>1. Init => Store!Init
  BY DEF Init, Store!Init, NoCall, Store!NoCall
<1>2. IInv /\ [Next]_vars => [Store!Next]_(Store!vars)
  BY StepThere
<1> QED
  BY <1>1, <1>2, Invariance, PTL DEF Spec, ImplementsConditionalStore, Store!Spec

-----------------------------------------------------------------------------
(* One winner.  That no two inserts win is argued from the steps of the    *)
(* conditional store alone, and holds of the code because its steps are    *)
(* steps of that store.                                                    *)

\* Callers only write where nothing lives, and read.
OnlyInserts == Kinds \subseteq {"insert", "read"}

\* The record of a call that won is there for its time.
WinnersRecordStays ==
    \A c \in Callers : Won(c) /\ calls[c].until > clock => row # None /\ row.until = calls[c].until

\* Nobody who won counts on a record that has run out.
LEMMA NoWinnerOnExpired ==
    ASSUME TypeOK, WinnersRecordStays, NEW now \in Nat, now <= clock, ~Live(row, now)
    PROVE  \A d \in Callers : Won(d) => calls[d].until <= clock
  BY DEF WinnersRecordStays, TypeOK, Records, Calls, Won, Live

\* Nobody wins in a step: the record stays, or was nobody's.
LEMMA NoNewWinner ==
    ASSUME TypeOK, TypeOK', WinnersRecordStays, OneWinner, clock' >= clock,
           \A d \in Callers : Won(d)' => Won(d) /\ calls'[d] = calls[d],
           row' = row \/ \A d \in Callers : Won(d) => calls[d].until <= clock
    PROVE  (WinnersRecordStays /\ OneWinner)'
<1>1. \A d \in Callers : Won(d) => calls[d].until \in Nat
  BY DEF TypeOK, Calls, Won
<1>2. clock \in Nat /\ clock' \in Nat
  BY DEF TypeOK
<1>3. WinnersRecordStays'
  BY <1>1, <1>2 DEF WinnersRecordStays
<1>4. OneWinner'
  BY <1>1, <1>2 DEF OneWinner
<1> QED
  BY <1>3, <1>4

\* A caller starts a call, is answered otherwise, or leaves: the others' calls are as they were.
LEMMA OthersStay ==
    ASSUME TypeOK, TypeOK', NEW c \in Callers,
           Store!Call(c) \/ Store!Writing(c) \/ Store!Refusing(c) \/ Store!Reading(c) \/ Store!Erring(c)
              \/ Store!Return(c)
    PROVE  \A d \in Callers \ {c} : calls'[d] = calls[d]
  BY DEF Store!Call, Store!Writing, Store!Refusing, Store!Reading, Store!Erring, Store!Return,
         Store!Answer, TypeOK

LEMMA CallWinsNothing ==
    ASSUME TypeOK, NEW c \in Callers, Store!Call(c)
    PROVE  ~Won(c)'
<1>1. PICK kind \in Store!Writes \cup Store!Deletes \cup {"read"}, v \in Values, l \in Lifetimes :
        \E e \in Store!Expected(kind) :
           calls' = [calls EXCEPT ![c] = [kind |-> kind, value |-> v, equals |-> e, until |-> clock + l,
                                          since |-> clock, answer |-> "open"]]
  BY DEF Store!Call
<1> QED
  BY <1>1 DEF TypeOK, Won

\* Only a call that writes is answered yes.
LEMMA OthersWinNothing ==
    ASSUME TypeOK, NEW c \in Callers,
           Store!Refusing(c) \/ Store!Reading(c) \/ Store!Erring(c) \/ Store!Return(c)
    PROVE  ~Won(c)'
  BY DEF Store!Refusing, Store!Reading, Store!Erring, Store!Return, Store!Answer, Store!Open, Store!NoCall,
         NoCall, TypeOK, Calls, Won

\* An insert finds no live record, so whoever won before has had its time.
LEMMA WritingKeepsOneWinner ==
    ASSUME TypeOK, TypeOK', OnlyInserts, WinnersRecordStays, OneWinner, NEW c \in Callers, Store!Writing(c)
    PROVE  (WinnersRecordStays /\ OneWinner)'
<1>1. PICK now \in Store!Times(c) : Store!Holds(calls[c], row, now)
  BY DEF Store!Writing
<1>2. /\ calls[c] \in Calls /\ calls[c].kind = "insert"
      /\ clock' = clock /\ clock \in Nat
      /\ row' = [value |-> calls[c].value, until |-> calls[c].until]
  BY DEF Store!Writing, Store!Open, Store!NoCall, NoCall, Store!Written, Store!Deletes, OnlyInserts, TypeOK,
         Calls
<1>3. now \in Nat /\ now <= clock /\ ~Live(row, now)
  BY <1>1, <1>2 DEF Store!Times, Store!Holds, Store!Live, Live, Calls
<1>4. \A d \in Callers : Won(d) => calls[d].until <= clock
  BY <1>3, NoWinnerOnExpired
<1>5. \A d \in Callers \ {c} : calls'[d] = calls[d]
  BY OthersStay
<1>6. calls'[c].until = calls[c].until
  BY <1>2 DEF Store!Writing, Store!Answer, TypeOK, Calls
<1>7. row' # None /\ row'.until = calls'[c].until
  BY <1>2, <1>6 DEF Calls
<1>8. \A d \in Callers \ {c} : Won(d)' => calls'[d].until <= clock'
  BY <1>2, <1>4, <1>5 DEF Won
<1>9. \A d \in Callers : Won(d)' => calls'[d].until \in Nat
  BY DEF TypeOK, Calls, Won
<1>10. WinnersRecordStays'
  BY <1>2, <1>7, <1>8, <1>9 DEF WinnersRecordStays
<1>11. OneWinner'
  BY <1>8 DEF OneWinner
<1> QED
  BY <1>10, <1>11

\* A step of the conditional store.
LEMMA StoreKeepsOneWinner ==
    ASSUME TypeOK, TypeOK', OnlyInserts, WinnersRecordStays, OneWinner, [Store!Next]_(Store!vars)
    PROVE  (WinnersRecordStays /\ OneWinner)'
<1>1. CASE UNCHANGED Store!vars
  BY <1>1 DEF Store!vars, WinnersRecordStays, OneWinner, Won
<1>2. CASE Store!Tick
  <2>1. \A d \in Callers : Won(d)' => Won(d) /\ calls'[d] = calls[d]
    BY <1>2 DEF Store!Tick, Won
  <2> QED
    BY <1>2, <2>1, NoNewWinner DEF Store!Tick, TypeOK
<1>3. ASSUME NEW c \in Callers, Store!Writing(c)
      PROVE  (WinnersRecordStays /\ OneWinner)'
  BY <1>3, WritingKeepsOneWinner
<1>4. ASSUME NEW c \in Callers,
             Store!Call(c) \/ Store!Refusing(c) \/ Store!Reading(c) \/ Store!Erring(c) \/ Store!Return(c)
      PROVE  (WinnersRecordStays /\ OneWinner)'
  <2>1. \A d \in Callers : Won(d)' => Won(d) /\ calls'[d] = calls[d]
    <3>1. \A d \in Callers \ {c} : calls'[d] = calls[d]
      BY <1>4, OthersStay
    <3>2. ~Won(c)'
      BY <1>4, CallWinsNothing, OthersWinNothing
    <3> QED
      BY <3>1, <3>2 DEF Won
  <2>2. clock' = clock /\ clock \in Nat
    BY <1>4 DEF Store!Call, Store!Refusing, Store!Reading, Store!Erring, Store!Return, TypeOK
  <2>3. row' = row \/ ~Live(row, clock)
    BY <1>4 DEF Store!Call, Store!Refusing, Store!Reading, Store!Erring, Store!Return, Store!Clearing,
                Store!Live, Live
  <2>4. row' = row \/ \A d \in Callers : Won(d) => calls[d].until <= clock
    BY <2>2, <2>3, NoWinnerOnExpired
  <2> QED
    BY <2>1, <2>2, <2>4, NoNewWinner
<1> QED
  BY <1>1, <1>2, <1>3, <1>4 DEF Store!Next

\* Callers that only insert and read, for any number of them, any values and times: of those that
\* wrote where nothing lived, one at a time is told that it did, as long as no write comes between a
\* get's read and its delete (keyValueStore/index.ts: set with exists: false).
THEOREM OneCallerWins ==
    ASSUME GetsAlone, OnlyInserts
    PROVE  Spec => []OneWinner
<1>1. Init => WinnersRecordStays /\ OneWinner
  BY DEF Init, WinnersRecordStays, OneWinner, Won
<1>2. IInv /\ IInv' /\ WinnersRecordStays /\ OneWinner /\ [Next]_vars => (WinnersRecordStays /\ OneWinner)'
  <2> SUFFICES ASSUME IInv, IInv', WinnersRecordStays, OneWinner, [Next]_vars
               PROVE  (WinnersRecordStays /\ OneWinner)'
    OBVIOUS
  <2>1. TypeOK /\ TypeOK'
    BY DEF IInv
  <2>2. [Store!Next]_(Store!vars)
    BY StepThere
  <2> QED
    BY <2>1, <2>2, StoreKeepsOneWinner
<1> QED
  BY <1>1, <1>2, Invariance, PTL DEF Spec

=============================================================================
