--------------------------- MODULE EntryOverlaps ---------------------------
(***************************************************************************)
(* Requests of EntryRevisions that overlap, with two histories of what     *)
(* they did to each other.  No transaction and no lock keeps a request     *)
(* from writing a row back that another has changed since it was read, nor *)
(* two requests from publishing a revision each.                           *)
(***************************************************************************)
EXTENDS EntryRevisions

VARIABLES
    behind,  \* per writer: the rows others have changed since its operation started
    lost,    \* a writer has written a row that it was behind on: a change is lost
    raced    \* two operations that publish a revision were under way at once

hvars == <<vars, behind, lost, raced>>

Changed == {v \in Versions : rows'[v] # rows[v]}

\* w takes the step.  Every action but CreateEntry moves its writer.
Moved(w) == stage'[w] # stage[w] \/ found'[w] # found[w]

Publishes(p) == p.kind = "publish" \/ (p.kind = "revise" /\ p.entry.published)
TwoPublish == \E w, o \in Writers : w # o /\ Publishes(plan[w]) /\ Publishes(plan[o])

HistoryInit ==
    /\ behind = [w \in Writers |-> {}]
    /\ lost = FALSE
    /\ raced = FALSE

History ==
    /\ behind' = [w \in Writers |-> IF stage'[w] = "idle" THEN {}
                                    ELSE IF Moved(w) THEN behind[w]
                                    ELSE behind[w] \cup Changed]
    /\ lost' = (lost \/ \E w \in Writers : Moved(w) /\ Changed \cap behind[w] # {})
    /\ raced' = (raced \/ TwoPublish')

OverlapSpec == Init /\ HistoryInit /\ [][Next /\ History]_hvars
=============================================================================
