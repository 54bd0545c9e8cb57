-------------------------- MODULE ConditionalStore --------------------------
(***************************************************************************)
(* What the key-value store promises of one key                            *)
(* (api-core/src/features/keyValueStore/abstractions.ts): a write checks   *)
(* the record and writes it as one step, a record that has expired counts  *)
(* as absent, and only an expired record goes away by itself.  A call      *)
(* judges expiry by a time of its own, between its start and its effect.   *)
(***************************************************************************)
EXTENDS Integers

CONSTANTS
    Callers,
    Values,
    None,
    Lifetimes  \* the times a record may be given to live, in ticks

VARIABLES
    record,  \* the record of the key: its value and when it expires
    calls,   \* each caller's call, its start and its answer
    clock

vars == <<record, calls, clock>>

Writes == {"insert", "replace", "put"}   \* set with exists: false, with another condition, with none
Deletes == {"remove", "erase"}           \* delete with a condition, with none
Matching == {"replace", "remove"}
Conditional == {"insert"} \cup Matching

\* What a condition asks the value to be; None for exists: true, which takes any.
Expected(kind) == IF kind \in Matching THEN Values \cup {None} ELSE {None}

NoCall == [kind |-> "none"]
Open(c) == calls[c] # NoCall /\ calls[c].answer = "open"
Answer(c, a) == calls' = [calls EXCEPT ![c].answer = a]
Times(c) == calls[c].since..clock

Live(r, now) == r # None /\ r.until > now

\* The condition of a call, on the record it finds.
Holds(call, r, now) ==
    /\ call.kind = "insert" => ~Live(r, now)
    /\ call.kind \in Matching => Live(r, now) /\ call.equals \in {None, r.value}

Written(call) ==
    IF call.kind \in Deletes THEN None ELSE [value |-> call.value, until |-> call.until]

-----------------------------------------------------------------------------

Init ==
    /\ record = None
    /\ calls = [c \in Callers |-> NoCall]
    /\ clock = 0

Call(c) ==
    /\ calls[c] = NoCall
    /\ \E kind \in Writes \cup Deletes \cup {"read"}, v \in Values, l \in Lifetimes :
       \E e \in Expected(kind) :
          calls' = [calls EXCEPT ![c] = [kind |-> kind, value |-> v, equals |-> e, until |-> clock + l,
                                         since |-> clock, answer |-> "open"]]
    /\ UNCHANGED <<record, clock>>

\* The call checks and writes in one step; its caller hears so, or gets an error.
Writing(c) ==
    /\ Open(c) /\ calls[c].kind # "read"
    /\ \E now \in Times(c) : Holds(calls[c], record, now)
    /\ record' = Written(calls[c])
    /\ Answer(c, "yes") \/ Answer(c, "error")
    /\ UNCHANGED clock

Refusing(c) ==
    /\ Open(c) /\ calls[c].kind \in Conditional
    /\ \E now \in Times(c) : ~Holds(calls[c], record, now)
    /\ Answer(c, "no")
    /\ UNCHANGED <<record, clock>>

\* What has expired may be cleared away.
Clearing == record' = record \/ (~Live(record, clock) /\ record' = None)

Reading(c) ==
    /\ Open(c) /\ calls[c].kind = "read"
    /\ \E now \in Times(c) : Answer(c, IF Live(record, now) THEN "found" ELSE "absent")
    /\ Clearing
    /\ UNCHANGED clock

Erring(c) == Open(c) /\ Answer(c, "error") /\ Clearing /\ UNCHANGED clock

Return(c) ==
    /\ calls[c] # NoCall /\ ~Open(c)
    /\ calls' = [calls EXCEPT ![c] = NoCall]
    /\ UNCHANGED <<record, clock>>

Tick == clock' = clock + 1 /\ UNCHANGED <<record, calls>>

Next ==
    \/ \E c \in Callers : Call(c) \/ Writing(c) \/ Refusing(c) \/ Reading(c) \/ Erring(c) \/ Return(c)
    \/ Tick

Spec == Init /\ [][Next]_vars
=============================================================================
