--------------------------- MODULE EntryRevisions ---------------------------
(***************************************************************************)
(* The revisions of one content entry in the SQL storage of the headless   *)
(* CMS (packages/api-headless-cms-sql, called by the use cases of          *)
(* packages/api-headless-cms).  Every revision is a row; two flags say     *)
(* which row is the latest revision and which one is published.  Each      *)
(* flag is kept twice, as a column and inside the row's JSON.  An          *)
(* operation is several SQL statements without a transaction: an action is *)
(* one statement, and an operation may break off between any two.          *)
(***************************************************************************)
EXTENDS Integers, FiniteSets

CONSTANTS
    Writers,     \* requests that change the entry
    MaxVersion,  \* bound: no revision is numbered higher
    NoRow,       \* no row has this version
    Requests,    \* the operations that are asked for, besides creating the entry
    OneAtATime   \* TRUE: an operation starts when no other is under way

ASSUME OneAtATimeIsBoolean == OneAtATime \in BOOLEAN
ASSUME SomeVersions == MaxVersion \in Nat \ {0}

Kinds == {"revise", "update", "publish", "unpublish", "deleteRevision", "delete", "bin", "restore"}

ASSUME RequestsAreKinds == Requests \subseteq Kinds

Versions == 1..MaxVersion
Statuses == {"draft", "published", "unpublished"}

\* What is kept of a row's JSON; live is 0 for null.
Data == [latest : BOOLEAN, published : BOOLEAN, deleted : BOOLEAN,
         status : Statuses, locked : BOOLEAN, live : 0..MaxVersion]
Row == [isLatest : BOOLEAN, isPublished : BOOLEAN, wbyDeleted : BOOLEAN, data : Data]

ASSUME NoRowIsNoRow == NoRow \notin Row

Table == [Versions -> Row \cup {NoRow}]
NoRows == [v \in Versions |-> NoRow]

\* Mutant: a column is forgotten.
EntryToShortRow(entry) ==
    [isLatest |-> entry.latest, wbyDeleted |-> entry.deleted, data |-> entry]

\* entryToRow: the columns are copied from the JSON.
EntryToRow(entry) ==
    [isLatest |-> entry.latest, isPublished |-> entry.published,
     wbyDeleted |-> entry.deleted, data |-> entry]

VARIABLES
    rows,     \* the entry's rows, by version
    stage,    \* per writer: the statement that comes next
    plan,     \* per writer: what it was asked for and what it means to write
    found,    \* per writer: the rows its last read returned and it has not written yet
    intact,   \* history: no operation has broken off or failed on the way
    straight  \* history: revisions were made of the latest one, and not published at once

vars == <<rows, stage, plan, found, intact, straight>>

Stages == {"idle", "oldLatest", "clearing", "oldPublished", "retiring", "flags", "writing",
           "sync", "syncing", "erasing", "patch", "patching", "promoting", "emptying"}

\* entry: the JSON to be written to the row id; heir: the row that becomes the latest
\* (0: none), heirEntry: what it is written with.
Plans == [kind : Kinds \cup {"none"}, id : Versions, entry : Data, heir : 0..MaxVersion, heirEntry : Data]
Blank == [latest |-> FALSE, published |-> FALSE, deleted |-> FALSE,
          status |-> "draft", locked |-> FALSE, live |-> 0]
NoPlan == [kind |-> "none", id |-> 1, entry |-> Blank, heir |-> 0, heirEntry |-> Blank]

Present(v) == rows[v] # NoRow
Latest == {v \in Versions : Present(v) /\ rows[v].isLatest}
Published == {v \in Versions : Present(v) /\ rows[v].isPublished}

\* GetRevisionById and GetLatestRevisionByEntryId leave out what is in the bin.
Shown(v) == Present(v) /\ ~rows[v].data.deleted
ShownLatest == {v \in Latest : Shown(v)}

Quiet == \A w \in Writers : stage[w] = "idle"
MayStart(w) == stage[w] = "idle" /\ (OneAtATime => Quiet)

Start(w, kind, id, entry, first) ==
    /\ MayStart(w)
    /\ kind \in Requests
    /\ stage' = [stage EXCEPT ![w] = first]
    /\ plan' = [plan EXCEPT ![w] =
                  [kind |-> kind, id |-> id, entry |-> entry, heir |-> 0, heirEntry |-> Blank]]
    /\ UNCHANGED <<rows, found, intact>>

\* The operation of w ends; as it should, or not.
Finish(w) ==
    /\ stage' = [stage EXCEPT ![w] = "idle"]
    /\ plan' = [plan EXCEPT ![w] = NoPlan]
    /\ found' = [found EXCEPT ![w] = NoRows]
Succeed(w) == Finish(w) /\ intact' = intact
Fail(w) == Finish(w) /\ intact' = FALSE

Goto(w, next) ==
    /\ stage' = [stage EXCEPT ![w] = next]
    /\ UNCHANGED <<plan, intact>>

\* Either the next statement of w, or its end.
GotoOrSucceed(w, more, next) ==
    IF more THEN Goto(w, next) /\ found' = [found EXCEPT ![w] = NoRows] ELSE Succeed(w)

\* An UPDATE of one row by its id: nothing happens to a row that is gone.
UpdateRow(v, row) == rows' = IF Present(v) THEN [rows EXCEPT ![v] = row] ELSE rows

\* A SELECT of the rows in vs.
Find(w, vs) == found' = [found EXCEPT ![w] = [v \in Versions |-> IF v \in vs THEN rows[v] ELSE NoRow]]
FoundAll(w) == found[w] = NoRows

-----------------------------------------------------------------------------
(* Create entry: one INSERT, under an id that nobody knows yet. *)

CreateEntry(w, s) ==
    /\ Quiet
    /\ rows = NoRows
    /\ rows' = [rows EXCEPT ![1] = EntryToRow(
                  [latest |-> TRUE, published |-> s = "published", deleted |-> FALSE,
                   status |-> s, locked |-> s # "draft",
                   live |-> IF s = "published" THEN 1 ELSE 0])]
    /\ UNCHANGED <<stage, plan, found, intact, straight>>

-----------------------------------------------------------------------------
(* Create revision from: the old latest rows lose the flag one by one, the *)
(* old published rows too if the new revision is published, then INSERT.   *)

StartRevision(w, v, s) ==
    \E l \in ShownLatest :
        /\ Shown(v)
        /\ l < MaxVersion
        /\ Start(w, "revise", l + 1,
                 [rows[v].data EXCEPT !.latest = TRUE, !.published = (s = "published"),
                                      !.status = s, !.locked = (s # "draft")],
                 "oldLatest")
        /\ straight' = (straight /\ v = l /\ s # "published")

FindOldLatest(w) ==
    /\ stage[w] = "oldLatest"
    /\ Find(w, Latest)
    /\ Goto(w, "clearing")
    /\ UNCHANGED <<rows, straight>>

\* Mutant: only the column is changed.
ClearLatestColumn(w, v) ==
    /\ stage[w] = "clearing"
    /\ found[w][v] # NoRow
    /\ UpdateRow(v, [rows[v] EXCEPT !.isLatest = FALSE])
    /\ found' = [found EXCEPT ![w][v] = NoRow]
    /\ UNCHANGED <<stage, plan, intact, straight>>

ClearLatest(w, v) ==
    /\ stage[w] = "clearing"
    /\ found[w][v] # NoRow
    /\ UpdateRow(v, [rows[v] EXCEPT !.isLatest = FALSE,
                                    !.data = [found[w][v].data EXCEPT !.latest = FALSE]])
    /\ found' = [found EXCEPT ![w][v] = NoRow]
    /\ UNCHANGED <<stage, plan, intact, straight>>

\* Mutant: the published row is looked for where the latest one is.
FindPublishedLatest(w) ==
    /\ \/ stage[w] = "oldPublished"
       \/ stage[w] = "clearing" /\ FoundAll(w) /\ plan[w].entry.published
    /\ Find(w, Published \cap Latest)
    /\ Goto(w, "retiring")
    /\ UNCHANGED <<rows, straight>>

FindOldPublished(w) ==
    /\ \/ stage[w] = "oldPublished"
       \/ stage[w] = "clearing" /\ FoundAll(w) /\ plan[w].entry.published
    /\ Find(w, Published)
    /\ Goto(w, "retiring")
    /\ UNCHANGED <<rows, straight>>

RetirePublished(w, v) ==
    /\ stage[w] = "retiring"
    /\ found[w][v] # NoRow
    /\ UpdateRow(v, [rows[v] EXCEPT !.isPublished = FALSE,
                                    !.data = [found[w][v].data EXCEPT !.published = FALSE,
                                                                      !.status = "unpublished"]])
    /\ found' = [found EXCEPT ![w][v] = NoRow]
    /\ UNCHANGED <<stage, plan, intact, straight>>

\* Mutant: the INSERT does not wait for the old latest row to be written.
InsertUnawaited(w) ==
    /\ plan[w].kind = "revise"
    /\ \/ stage[w] = "clearing" /\ ~plan[w].entry.published
       \/ stage[w] = "retiring"
    /\ IF Present(plan[w].id)
       THEN Fail(w) /\ rows' = rows
       ELSE Succeed(w) /\ rows' = [rows EXCEPT ![plan[w].id] = EntryToRow(plan[w].entry)]
    /\ UNCHANGED straight

\* The primary key refuses a version that is there already.
InsertRevision(w) ==
    /\ plan[w].kind = "revise"
    /\ FoundAll(w)
    /\ \/ stage[w] = "clearing" /\ ~plan[w].entry.published
       \/ stage[w] = "retiring"
    /\ IF Present(plan[w].id)
       THEN Fail(w) /\ rows' = rows
       ELSE Succeed(w) /\ rows' = [rows EXCEPT ![plan[w].id] = EntryToRow(plan[w].entry)]
    /\ UNCHANGED straight

-----------------------------------------------------------------------------
(* Update, publish and unpublish: the flags are read, the revision is      *)
(* written, and what concerns the whole entry goes to the latest row.      *)

StartUpdate(w, v) ==
    /\ Shown(v)
    /\ ~rows[v].data.locked
    /\ ShownLatest # {}
    /\ Start(w, "update", v, rows[v].data, "flags")
    /\ UNCHANGED straight

StartPublish(w, v) ==
    /\ Shown(v)
    /\ ShownLatest # {}
    /\ Start(w, "publish", v,
             [rows[v].data EXCEPT !.status = "published", !.locked = TRUE, !.live = v],
             "oldPublished")
    /\ UNCHANGED straight

StartUnpublish(w, v) ==
    /\ v \in Published
    /\ ShownLatest # {}
    /\ Start(w, "unpublish", v,
             [rows[v].data EXCEPT !.status = "unpublished", !.live = 0], "flags")
    /\ UNCHANGED straight

\* The flags the row is to have, after those it has now.
FlagsRead(p) ==
    LET now == IF Present(p.id) THEN rows[p.id]
               ELSE [isLatest |-> p.entry.latest, isPublished |-> p.entry.published]
    IN  [p.entry EXCEPT !.latest = now.isLatest,
                        !.published = CASE p.kind = "publish" -> TRUE
                                        [] p.kind = "unpublish" -> FALSE
                                        [] OTHER -> now.isPublished]

ReadFlags(w) ==
    /\ \/ stage[w] = "flags"
       \/ stage[w] = "retiring" /\ plan[w].kind = "publish" /\ FoundAll(w)
    /\ stage' = [stage EXCEPT ![w] = "writing"]
    /\ plan' = [plan EXCEPT ![w] = [@ EXCEPT !.entry = FlagsRead(plan[w])]]
    /\ UNCHANGED <<rows, found, intact, straight>>

\* An update writes no flag column; publish and unpublish write isPublished.
WriteRevision(w) ==
    LET p == plan[w]
    IN  /\ stage[w] = "writing"
        /\ UpdateRow(p.id, [rows[p.id] EXCEPT
               !.isPublished = IF p.kind = "update" THEN @ ELSE p.entry.published,
               !.wbyDeleted = p.entry.deleted,
               !.data = p.entry])
        /\ GotoOrSucceed(w, ~p.entry.latest, "sync")
        /\ UNCHANGED straight

FindLatest(w) ==
    /\ stage[w] = "sync"
    /\ IF Latest = {} THEN Succeed(w)
       ELSE \E l \in Latest : Find(w, {l}) /\ Goto(w, "syncing")
    /\ UNCHANGED <<rows, straight>>

\* Mutant: unpublish leaves the pointer of the latest row alone.
SyncedOnPublish(p, data) ==
    IF p.kind = "publish" THEN [data EXCEPT !.live = p.id] ELSE data

\* The live pointer that publish and unpublish leave in the latest row.
Synced(p, data) ==
    CASE p.kind = "publish" -> [data EXCEPT !.live = p.id]
      [] p.kind = "unpublish" -> [data EXCEPT !.live = 0]
      [] OTHER -> data

SyncLatest(w, v) ==
    /\ stage[w] = "syncing"
    /\ found[w][v] # NoRow
    /\ UpdateRow(v, [rows[v] EXCEPT !.data = Synced(plan[w], found[w][v].data)])
    /\ Succeed(w)
    /\ UNCHANGED straight

-----------------------------------------------------------------------------
(* Delete a revision: its row goes; if it was published every live pointer *)
(* is cleared; if it was the latest the one before it takes its place.     *)

Before(v) == {u \in Versions : u < v /\ Present(u)}

\* Mutant: the rows before v are sorted the wrong way.
Earliest(v) == {u \in Before(v) : \A t \in Before(v) : u <= t}

Previous(v) == {u \in Before(v) : \A t \in Before(v) : t <= u}

\* What becomes the latest after v; 0 if v is not the latest, l, or nothing is before it.
Heirs(v, l) ==
    LET shown == {u \in Previous(v) : v = l /\ Shown(u)}
    IN  IF shown = {} THEN {0} ELSE shown

\* The latest revision, with nothing before it, is the whole entry.
StartDeleteRevision(w, v) ==
    \E l \in Latest : \E heir \in Heirs(v, l) :
        LET whole == v = l /\ heir = 0
            gone == rows[v].data
        IN  /\ MayStart(w)
            /\ "deleteRevision" \in Requests
            /\ Shown(v)
            /\ stage' = [stage EXCEPT ![w] = IF whole THEN "emptying" ELSE "erasing"]
            /\ plan' = [plan EXCEPT ![w] =
                 [kind |-> IF whole THEN "delete" ELSE "deleteRevision",
                  id |-> v, entry |-> gone, heir |-> heir,
                  heirEntry |-> IF heir = 0 THEN Blank
                                ELSE [rows[heir].data EXCEPT
                                       !.latest = TRUE,
                                       !.live = IF gone.status = "published" THEN 0
                                                ELSE gone.live]]]
            /\ UNCHANGED <<rows, found, intact, straight>>

EraseRevision(w) ==
    LET p == plan[w]
        clears == p.entry.status = "published"
    IN  /\ stage[w] = "erasing"
        /\ rows' = [rows EXCEPT ![p.id] = NoRow]
        /\ GotoOrSucceed(w, clears \/ p.heir # 0, IF clears THEN "patch" ELSE "promoting")
        /\ UNCHANGED straight

PromotePrevious(w) ==
    /\ stage[w] = "promoting"
    /\ UpdateRow(plan[w].heir, EntryToRow(plan[w].heirEntry))
    /\ Succeed(w)
    /\ UNCHANGED straight

-----------------------------------------------------------------------------
(* Delete the entry, move it to the bin, restore it: every row at once.    *)

StartDelete(w) ==
    /\ \E l \in Latest : Start(w, "delete", l, rows[l].data, "emptying")
    /\ UNCHANGED straight

Empty(w) ==
    /\ stage[w] = "emptying"
    /\ rows' = NoRows
    /\ Succeed(w)
    /\ UNCHANGED straight

StartMoveToBin(w) ==
    /\ \E l \in ShownLatest : Start(w, "bin", l, rows[l].data, "patch")
    /\ UNCHANGED straight

StartRestore(w) ==
    /\ \E l \in Latest \ ShownLatest : Start(w, "restore", l, rows[l].data, "patch")
    /\ UNCHANGED straight

FindAll(w) ==
    /\ stage[w] = "patch"
    /\ IF rows = NoRows
       THEN GotoOrSucceed(w, plan[w].heir # 0, "promoting")
       ELSE Find(w, Versions) /\ Goto(w, "patching")
    /\ UNCHANGED <<rows, straight>>

\* patchAllEntryRevisions: the JSON of each row as it was found, changed.
Patched(kind, data) ==
    CASE kind = "bin" -> [data EXCEPT !.deleted = TRUE]
      [] kind = "restore" -> [data EXCEPT !.deleted = FALSE]
      [] OTHER -> [data EXCEPT !.live = 0]

PatchedRow(w, v) ==
    [rows[v] EXCEPT !.wbyDeleted = CASE plan[w].kind = "bin" -> TRUE
                                     [] plan[w].kind = "restore" -> FALSE
                                     [] OTHER -> @,
                    !.data = Patched(plan[w].kind, found[w][v].data)]

\* One UPDATE of all rows; a row that was not found gets no JSON, which the column refuses.
PatchAll(w) ==
    /\ stage[w] = "patching"
    /\ IF \E v \in Versions : Present(v) /\ found[w][v] = NoRow
       THEN Fail(w) /\ rows' = rows
       ELSE /\ rows' = [v \in Versions |-> IF Present(v) THEN PatchedRow(w, v) ELSE NoRow]
            /\ GotoOrSucceed(w, plan[w].heir # 0, "promoting")
    /\ UNCHANGED straight

-----------------------------------------------------------------------------
\* A statement fails, or the process ends: what was written stays.
BreakOff(w) ==
    /\ stage[w] # "idle"
    /\ Fail(w)
    /\ UNCHANGED <<rows, straight>>

Init ==
    /\ rows = NoRows
    /\ stage = [w \in Writers |-> "idle"]
    /\ plan = [w \in Writers |-> NoPlan]
    /\ found = [w \in Writers |-> NoRows]
    /\ intact = TRUE
    /\ straight = TRUE

Next ==
    \E w \in Writers :
        \/ \E s \in Statuses : CreateEntry(w, s)
        \/ \E v \in Versions :
            \/ \E s \in Statuses : StartRevision(w, v, s)
            \/ ClearLatest(w, v)
            \/ RetirePublished(w, v)
            \/ StartUpdate(w, v)
            \/ StartPublish(w, v)
            \/ StartUnpublish(w, v)
            \/ SyncLatest(w, v)
            \/ StartDeleteRevision(w, v)
        \/ FindOldLatest(w)
        \/ FindOldPublished(w)
        \/ InsertRevision(w)
        \/ ReadFlags(w)
        \/ WriteRevision(w)
        \/ FindLatest(w)
        \/ EraseRevision(w)
        \/ PromotePrevious(w)
        \/ StartDelete(w)
        \/ Empty(w)
        \/ StartMoveToBin(w)
        \/ StartRestore(w)
        \/ FindAll(w)
        \/ PatchAll(w)
        \/ BreakOff(w)

Spec == Init /\ [][Next]_vars

-----------------------------------------------------------------------------
TypeOK ==
    /\ rows \in Table
    /\ stage \in [Writers -> Stages]
    /\ plan \in [Writers -> Plans]
    /\ found \in [Writers -> Table]
    /\ intact \in BOOLEAN
    /\ straight \in BOOLEAN

AtMostOne(vs) == \A u, v \in vs : u = v

(* "At most one row per entry has isLatest = true. At most one has         *)
(* isPublished = true." (SINGLE_TABLE_DESIGN.md).  No constraint of the    *)
(* table says so: it is the order of the statements of create revision,    *)
(* publish and delete revision, at every moment and wherever one of them   *)
(* breaks off.  When operations overlap, the primary key still keeps       *)
(* racing create revisions to one latest row; two published rows come of   *)
(* two requests that publish, and two latest ones of a delete meanwhile.   *)
AtMostOneLatest == AtMostOne(Latest)
AtMostOnePublished == AtMostOne(Published)

(* Each flag of a row is the same in its column, which the queries select  *)
(* by, and in its JSON, which is what they return; and the row with the    *)
(* published flag is the one whose status says published.  Rows are        *)
(* written back from reads made statements earlier.                        *)
FlagsAgree ==
    \A v \in Versions : Present(v) =>
        LET row == rows[v]
        IN  /\ row.isLatest = row.data.latest
            /\ row.isPublished = row.data.published
            /\ row.wbyDeleted = row.data.deleted
            /\ row.isPublished = (row.data.status = "published")

(* Between operations, none of which broke off, an entry that has          *)
(* revisions has a latest one, and it is the one numbered highest: the     *)
(* next revision's number is taken from it.                                *)
NewestIsLatest ==
    Quiet /\ intact => \A v \in Versions :
        Present(v) /\ (\A u \in Versions : Present(u) => u <= v) => v \in Latest

(* Between operations, the live pointer of the latest revision, by which   *)
(* the API says that the entry is live, names the published revision, or   *)
(* none when none is published.  It holds of entries whose revisions were  *)
(* each made of the latest one and not published at once: the pointer is   *)
(* handed from revision to revision and kept up by each operation.         *)
LiveVersion == IF Published = {} THEN {0} ELSE Published
LiveIsKeptUp ==
    Quiet /\ intact /\ straight => \A l \in Latest : rows[l].data.live \in LiveVersion
=============================================================================
