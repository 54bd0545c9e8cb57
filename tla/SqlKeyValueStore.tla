-------------------------- MODULE SqlKeyValueStore --------------------------
(***************************************************************************)
(* One key of the SQL key-value store, statement by statement              *)
(* (packages/api-core-sql/src/keyValueStore/index.ts).  The database is    *)
(* external: a statement reads what is committed, a transaction's first    *)
(* write of the row locks the key until it commits or rolls back, and a    *)
(* writing statement waits for the lock and then looks at what was         *)
(* committed meanwhile.  Collections and list are left out.                *)
(***************************************************************************)
EXTENDS Integers

CONSTANTS
    Callers,
    Kinds,          \* the operations that are called
    Values,
    None,
    Lifetimes,      \* the times a record may be given to live, in ticks
    Lag,            \* ticks a call may take
    MaxTime,        \* bound on the clock
    OvertakenGets   \* may a write come between a get's read and its delete?

ASSUME StoreAssumption ==
    /\ Kinds \subseteq {"insert", "replace", "put", "remove", "erase", "read"}
    /\ None \notin Callers \cup Values \cup [value : Values, until : Nat]
    /\ Lag \in Nat /\ MaxTime \in Nat /\ OvertakenGets \in BOOLEAN
    /\ Lifetimes \subseteq Nat /\ \A l \in Lifetimes : l > Lag

VARIABLES
    row,    \* the committed row of the key
    lock,   \* the caller whose transaction has written the row
    own,    \* what it has written
    tx,     \* each caller's place in its call, and the time it compares with
    calls,
    clock

vars == <<row, lock, own, tx, calls, clock>>

NoCall == [kind |-> "none"]
Outside == [at |-> "outside", now |-> 0]
Deletes == {"remove", "erase"}
Matching == {"replace", "remove"}

\* The value in a call's condition; None for exists: true, which has none.
Expected(kind) == IF kind \in Matching THEN Values \cup {None} ELSE {None}
IsExpected(c, v) == calls[c].equals \in {None, v}

Live(r, now) == r # None /\ r.until > now

At(c, place) == tx[c].at = place
Go(c, place) == tx' = [tx EXCEPT ![c].at = place]
Looks(c, place) == tx' = [tx EXCEPT ![c] = [at |-> place, now |-> clock]]
Answer(c, a) ==
    /\ calls' = [calls EXCEPT ![c].answer = a]
    /\ tx' = [tx EXCEPT ![c] = Outside]

\* What a statement of c finds once nobody else holds the key.
Free(c) ==
    /\ lock \in {None, c}
    /\ ~OvertakenGets => \A d \in Callers \ {c} : ~At(d, "evict")
Found(c) == IF lock = c THEN own ELSE row

Puts(c) == own' = [value |-> calls[c].value, until |-> calls[c].until] /\ lock' = c
Removes(c) == own' = None /\ lock' = c
Rollback(c) == lock' = (IF lock = c THEN None ELSE lock) /\ UNCHANGED <<row, own>>

-----------------------------------------------------------------------------

Init ==
    /\ row = None
    /\ lock = None
    /\ own = None
    /\ tx = [c \in Callers |-> Outside]
    /\ calls = [c \in Callers |-> NoCall]
    /\ clock = 0

\* The caller works out when its record expires, and calls.
Call(c) ==
    /\ calls[c] = NoCall
    /\ \E kind \in Kinds, v \in Values, l \in Lifetimes : \E e \in Expected(kind) :
          calls' = [calls EXCEPT ![c] = [kind |-> kind, value |-> v, equals |-> e, until |-> clock + l,
                                         since |-> clock, answer |-> "open"]]
    /\ Go(c, "called")
    /\ UNCHANGED <<row, lock, own, clock>>

Return(c) ==
    /\ calls[c] # NoCall /\ At(c, "outside")
    /\ calls' = [calls EXCEPT ![c] = NoCall]
    /\ UNCHANGED <<row, lock, own, tx, clock>>

-----------------------------------------------------------------------------
(* set with exists: false.                                                 *)

InsertLooks(c) ==
    /\ At(c, "called") /\ calls[c].kind = "insert"
    /\ Looks(c, IF row # None /\ ~Live(row, clock) THEN "clear" ELSE "insert")
    /\ UNCHANGED <<row, lock, own, calls, clock>>

\* Mutant: whatever is there by now is cleared.
InsertClearsAll(c) ==
    /\ At(c, "clear") /\ Free(c)
    /\ IF row # None THEN Removes(c) ELSE UNCHANGED <<lock, own>>
    /\ Go(c, "insert")
    /\ UNCHANGED <<row, calls, clock>>

\* Deleted if it is still an expired record.
InsertClears(c) ==
    /\ At(c, "clear") /\ Free(c)
    /\ IF row # None /\ ~Live(row, tx[c].now) THEN Removes(c) ELSE UNCHANGED <<lock, own>>
    /\ Go(c, "insert")
    /\ UNCHANGED <<row, calls, clock>>

\* Mutant: a refused insert does not roll back.
InsertsHoldingOn(c) ==
    /\ At(c, "insert") /\ Free(c)
    /\ IF Found(c) = None
         THEN Puts(c) /\ Go(c, "commit") /\ UNCHANGED <<row, calls>>
         ELSE Answer(c, "no") /\ lock' = c /\ UNCHANGED <<row, own>>
    /\ UNCHANGED clock

\* The primary key refuses the insert when a row is there.
Inserts(c) ==
    /\ At(c, "insert") /\ Free(c)
    /\ IF Found(c) = None
         THEN Puts(c) /\ Go(c, "commit") /\ UNCHANGED <<row, calls>>
         ELSE Answer(c, "no") /\ Rollback(c)
    /\ UNCHANGED clock

-----------------------------------------------------------------------------
(* set and delete with exists: true or equals: whereLive.                   *)

MatchLooks(c) ==
    /\ At(c, "called") /\ calls[c].kind \in Matching
    /\ Looks(c, "match")
    /\ UNCHANGED <<row, lock, own, calls, clock>>

Matches(c) ==
    /\ At(c, "match") /\ Free(c)
    /\ IF Live(row, tx[c].now) /\ IsExpected(c, row.value)
         THEN /\ IF calls[c].kind = "remove" THEN Removes(c) ELSE Puts(c)
              /\ Go(c, "commit")
              /\ UNCHANGED <<row, calls>>
         ELSE Answer(c, "no") /\ UNCHANGED <<row, lock, own>>
    /\ UNCHANGED clock

-----------------------------------------------------------------------------
(* set and delete with no condition.                                       *)

Overwrites(c) ==
    /\ At(c, "called") /\ calls[c].kind = "put" /\ Free(c)
    /\ Puts(c)
    /\ Go(c, "commit")
    /\ UNCHANGED <<row, calls, clock>>

\* A delete that finds nothing has nothing to commit.
Erases(c) ==
    /\ At(c, "called") /\ calls[c].kind = "erase" /\ Free(c)
    /\ IF row # None
         THEN Removes(c) /\ Go(c, "commit") /\ UNCHANGED calls
         ELSE Answer(c, "yes") /\ UNCHANGED <<lock, own>>
    /\ UNCHANGED <<row, clock>>

-----------------------------------------------------------------------------
(* get: reads, and deletes an expired record in a transaction of its own.  *)

Reads(c) ==
    /\ At(c, "called") /\ calls[c].kind = "read"
    /\ ~OvertakenGets => Free(c)
    /\ IF row # None /\ ~Live(row, clock) THEN Go(c, "evict") /\ UNCHANGED calls
       ELSE Answer(c, IF row = None THEN "absent" ELSE "found")
    /\ UNCHANGED <<row, lock, own, clock>>

\* Deleted by its key, whatever is there by now.
Evicts(c) ==
    /\ At(c, "evict") /\ Free(c)
    /\ IF row # None
         THEN Removes(c) /\ Go(c, "commit") /\ UNCHANGED calls
         ELSE Answer(c, "absent") /\ UNCHANGED <<lock, own>>
    /\ UNCHANGED <<row, clock>>

-----------------------------------------------------------------------------
(* The end of a transaction, and of a call that fails.                     *)

Commits(c) ==
    /\ At(c, "commit")
    /\ row' = own
    /\ lock' = None /\ own' = None
    /\ \/ Answer(c, IF calls[c].kind = "read" THEN "absent" ELSE "yes")
       \/ Answer(c, "error")
    /\ UNCHANGED clock

Fails(c) ==
    /\ ~At(c, "outside")
    /\ Answer(c, "error")
    /\ Rollback(c)
    /\ UNCHANGED clock

Tick ==
    /\ clock < MaxTime
    /\ \A c \in Callers : ~At(c, "outside") => clock < calls[c].since + Lag
    /\ clock' = clock + 1
    /\ UNCHANGED <<row, lock, own, tx, calls>>

-----------------------------------------------------------------------------

Statement(c) ==
    \/ InsertLooks(c) \/ InsertClears(c) \/ Inserts(c)
    \/ MatchLooks(c) \/ Matches(c)
    \/ Overwrites(c) \/ Erases(c)
    \/ Reads(c) \/ Evicts(c)
    \/ Commits(c)

Next ==
    \/ \E c \in Callers : Call(c) \/ Return(c) \/ Statement(c) \/ Fails(c)
    \/ Tick

Spec == Init /\ [][Next]_vars

-----------------------------------------------------------------------------
(* Properties.                                                             *)

Records == [value : Values, until : Nat]
Calls == [kind : Kinds, value : Values, equals : Values \cup {None}, until : Nat, since : Nat,
          answer : {"open", "yes", "no", "found", "absent", "error"}]

\* The variables hold values of their types, a call is open while its statements run, and the key is
\* locked by a transaction that is under way.
TypeOK ==
    /\ row \in Records \cup {None} /\ own \in Records \cup {None}
    /\ lock \in Callers \cup {None}
    /\ tx \in [Callers -> [at : {"outside", "called", "clear", "insert", "match", "evict", "commit"},
                           now : Nat]]
    /\ clock \in Nat
    /\ calls \in [Callers -> Calls \cup {NoCall}]
    /\ \A c \in Callers :
          /\ ~At(c, "outside") <=> calls[c] # NoCall /\ calls[c].answer = "open"
          /\ lock = c => tx[c].at \in {"insert", "commit"}
          /\ At(c, "commit") => lock = c

\* What a transaction found when it checked its condition is still so when it commits: nobody
\* overwrote the row in between.
CheckStillHolds ==
    \A c \in Callers : At(c, "commit") =>
       /\ calls[c].kind = "insert" => ~Live(row, tx[c].now)
       /\ calls[c].kind \in Matching => Live(row, tx[c].now) /\ IsExpected(c, row.value)

Won(c) == calls[c] # NoCall /\ calls[c].kind = "insert" /\ calls[c].answer = "yes"

\* Of several callers that write only when there is no live record, one succeeds as long as the
\* record lives (nobody deletes or replaces it).
OneWinner ==
    \A c, d \in {e \in Callers : Won(e)} :
       c # d => calls[c].until <= clock \/ calls[d].until <= clock

\* The store checks the record and writes it as one step: it implements the conditional store.
Store == INSTANCE ConditionalStore WITH record <- row
ImplementsConditionalStore == Store!Spec
=============================================================================
