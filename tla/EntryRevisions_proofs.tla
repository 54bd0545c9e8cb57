------------------------ MODULE EntryRevisions_proofs -------------------------
(***************************************************************************)
(* Proofs about EntryRevisions, for any number of requests and revisions:  *)
(* its types; that operations that overlap leave at most one latest row as *)
(* long as nothing is deleted (RacesAreSettled); that operations one after *)
(* the other, each possibly broken off anywhere, leave the newest revision *)
(* the latest one (NewestStaysLatest), the live pointer true               *)
(* (LivePointerIsTrue) and the next number free (NumbersAreFree).  And     *)
(* about EntryOverlaps: what it takes for requests that overlap to put a   *)
(* row's flags out of step (OnlyLostWritesSplitFlags) or to publish two    *)
(* rows (OnlyRacesPublishTwo).                                             *)
(***************************************************************************)
EXTENDS EntryOverlaps, TLAPS

USE OneAtATimeIsBoolean, SomeVersions, NoRowIsNoRow, RequestsAreKinds

-----------------------------------------------------------------------------
(* Types.                                                                  *)

LEMMA PlainValues ==
    /\ Blank \in Data
    /\ NoPlan \in Plans
    /\ NoRows \in Table
  <1>1. Blank \in Data
    BY DEF Blank, Data, Statuses
  <1>2. NoPlan \in Plans
    BY <1>1 DEF NoPlan, Plans, Versions
  <1>3. NoRows \in Table
    BY DEF NoRows, Table
  <1> QED BY <1>1, <1>2, <1>3

LEMMA DataUpdates ==
    ASSUME NEW d \in Data
    PROVE  /\ \A a \in BOOLEAN : [d EXCEPT !.latest = a] \in Data
           /\ \A a \in BOOLEAN : [d EXCEPT !.deleted = a] \in Data
           /\ \A n \in 0..MaxVersion : [d EXCEPT !.live = n] \in Data
           /\ \A a, b \in BOOLEAN : [d EXCEPT !.latest = a, !.published = b] \in Data
           /\ \A a \in BOOLEAN, n \in 0..MaxVersion : [d EXCEPT !.latest = a, !.live = n] \in Data
           /\ \A a \in BOOLEAN, s \in Statuses : [d EXCEPT !.published = a, !.status = s] \in Data
           /\ \A s \in Statuses, n \in 0..MaxVersion : [d EXCEPT !.status = s, !.live = n] \in Data
           /\ \A s \in Statuses, n \in 0..MaxVersion, a \in BOOLEAN :
                [d EXCEPT !.status = s, !.locked = a, !.live = n] \in Data
  BY DEF Data

LEMMA RowOfEntry ==
    ASSUME NEW d \in Data
    PROVE  EntryToRow(d) \in Row
  BY DEF EntryToRow, Row, Data

LEMMA RowUpdates ==
    ASSUME NEW row \in Row, NEW d \in Data, NEW b \in BOOLEAN
    PROVE  /\ row.data \in Data
           /\ [row EXCEPT !.data = d] \in Row
           /\ [row EXCEPT !.isLatest = b, !.data = d] \in Row
           /\ [row EXCEPT !.isPublished = b, !.data = d] \in Row
           /\ [row EXCEPT !.wbyDeleted = b, !.data = d] \in Row
           /\ row # NoRow
  BY DEF Row

\* The row of a version that is there.
LEMMA PresentRow ==
    ASSUME rows \in Table, NEW v \in Versions, Present(v)
    PROVE  rows[v] \in Row /\ rows[v].data \in Data
  BY DEF Table, Present, Row

LEMMA FoundRow ==
    ASSUME found \in [Writers -> Table], NEW w \in Writers, NEW v \in Versions,
           found[w][v] # NoRow
    PROVE  found[w][v] \in Row /\ found[w][v].data \in Data
  BY DEF Table, Row

LEMMA UpdatedTable ==
    ASSUME rows \in Table, NEW v \in Versions, NEW row,
           Present(v) => row \in Row, UpdateRow(v, row)
    PROVE  /\ rows' \in Table
           /\ \A u \in Versions : u # v => rows'[u] = rows[u]
           /\ Present(v) => rows'[v] = row
           /\ ~Present(v) => rows'[v] = NoRow
  BY DEF UpdateRow, Table, Present

LEMMA OldFinds ==
    ASSUME rows \in Table, found \in [Writers -> Table], NEW w \in Writers,
           NEW vs, Find(w, vs)
    PROVE  /\ found' \in [Writers -> Table]
           /\ \A v \in Versions : found'[w][v] = IF v \in vs THEN rows[v] ELSE NoRow
           /\ \A o \in Writers : o # w => found'[o] = found[o]
  <1>1. [v \in Versions |-> IF v \in vs THEN rows[v] ELSE NoRow] \in Table
    BY DEF Table
  <1> QED BY <1>1 DEF Find

\* The parts of TypeOK that say where the writers are.
WritersOK ==
    /\ stage \in [Writers -> Stages]
    /\ plan \in [Writers -> Plans]
    /\ intact \in BOOLEAN

LEMMA GotoTypes ==
    ASSUME TypeOK, NEW w \in Writers, NEW g \in Stages, Goto(w, g)
    PROVE  WritersOK'
  BY DEF TypeOK, WritersOK, Goto

LEMMA FinishTypes ==
    ASSUME TypeOK, NEW w \in Writers, Finish(w), intact' \in BOOLEAN
    PROVE  WritersOK' /\ found' \in [Writers -> Table]
  BY PlainValues DEF TypeOK, WritersOK, Finish, Stages

LEMMA GotoOrSucceedTypes ==
    ASSUME TypeOK, NEW w \in Writers, NEW more, NEW g \in Stages, GotoOrSucceed(w, more, g)
    PROVE  WritersOK' /\ found' \in [Writers -> Table]
  <1>1. CASE more
    <2>1. Goto(w, g) /\ found' = [found EXCEPT ![w] = NoRows]
      BY <1>1 DEF GotoOrSucceed
    <2> QED BY <2>1, GotoTypes, PlainValues DEF TypeOK
  <1>2. CASE ~more
    <2>1. Finish(w) /\ intact' = intact
      BY <1>2 DEF GotoOrSucceed, Succeed
    <2> QED BY <2>1, FinishTypes DEF TypeOK
  <1> QED BY <1>1, <1>2

LEMMA StartTypes ==
    ASSUME TypeOK, NEW w \in Writers, NEW k \in Kinds, NEW v \in Versions, NEW d \in Data,
           NEW g \in Stages, Start(w, k, v, d, g), straight' \in BOOLEAN
    PROVE  TypeOK'
  <1>1. [kind |-> k, id |-> v, entry |-> d, heir |-> 0, heirEntry |-> Blank] \in Plans
    BY PlainValues DEF Plans
  <1> QED BY <1>1 DEF TypeOK, Start

\* A step that leaves the rows and the history, and moves the writers in their types.
LEMMA WholeType ==
    ASSUME TypeOK, WritersOK', rows' \in Table, found' \in [Writers -> Table],
           straight' \in BOOLEAN
    PROVE  TypeOK'
  BY DEF TypeOK, WritersOK

LEMMA CreateEntryTypes ==
    ASSUME TypeOK, NEW w \in Writers, NEW s \in Statuses, CreateEntry(w, s)
    PROVE  TypeOK'
  <1> DEFINE d == [latest |-> TRUE, published |-> s = "published", deleted |-> FALSE,
                   status |-> s, locked |-> s # "draft",
                   live |-> IF s = "published" THEN 1 ELSE 0]
  <1>1. d \in Data
    BY DEF Data
  <1>2. EntryToRow(d) \in Row
    BY <1>1, RowOfEntry
  <1> HIDE DEF d
  <1>3. rows' = [rows EXCEPT ![1] = EntryToRow(d)]
    BY DEF CreateEntry, d
  <1>4. rows' \in Table
    BY <1>2, <1>3 DEF TypeOK, Table
  <1> QED BY <1>4 DEF CreateEntry, TypeOK

LEMMA RevisionTypes ==
    ASSUME TypeOK, NEW w \in Writers, NEW v \in Versions, NEW s \in Statuses,
           StartRevision(w, v, s)
    PROVE  TypeOK'
  <1>1. PICK l \in ShownLatest :
          /\ Shown(v)
          /\ l < MaxVersion
          /\ Start(w, "revise", l + 1,
                   [rows[v].data EXCEPT !.latest = TRUE, !.published = (s = "published"),
                                        !.status = s, !.locked = (s # "draft")],
                   "oldLatest")
          /\ straight' = (straight /\ v = l /\ s # "published")
    BY DEF StartRevision
  <1>2. rows[v].data \in Data
    BY <1>1, PresentRow DEF Shown, TypeOK
  <1>3. [rows[v].data EXCEPT !.latest = TRUE, !.published = (s = "published"),
                             !.status = s, !.locked = (s # "draft")] \in Data
    BY <1>2 DEF Data
  <1>4. l + 1 \in Versions
    BY <1>1 DEF ShownLatest, Latest, Versions
  <1>5. straight' \in BOOLEAN /\ "revise" \in Kinds /\ "oldLatest" \in Stages
    BY <1>1 DEF TypeOK, Kinds, Stages
  <1> QED BY <1>1, <1>3, <1>4, <1>5, StartTypes

LEMMA OtherStartTypes ==
    ASSUME TypeOK, NEW w \in Writers, NEW v \in Versions,
           \/ StartUpdate(w, v) \/ StartPublish(w, v) \/ StartUnpublish(w, v)
           \/ StartDelete(w) \/ StartMoveToBin(w) \/ StartRestore(w)
    PROVE  TypeOK'
  <1> USE DEF Kinds, Stages
  <1>0. straight' \in BOOLEAN
    BY DEF TypeOK, StartUpdate, StartPublish, StartUnpublish, StartDelete, StartMoveToBin, StartRestore
  <1>1. CASE StartUpdate(w, v)
    <2>1. rows[v].data \in Data
      BY <1>1, PresentRow DEF StartUpdate, Shown, TypeOK
    <2> QED BY <1>0, <1>1, <2>1, StartTypes DEF StartUpdate
  <1>2. CASE StartPublish(w, v)
    <2>1. rows[v].data \in Data
      BY <1>2, PresentRow DEF StartPublish, Shown, TypeOK
    <2>2. "published" \in Statuses /\ v \in 0..MaxVersion
      BY DEF Statuses, Versions
    <2>3. [rows[v].data EXCEPT !.status = "published", !.locked = TRUE, !.live = v] \in Data
      BY <2>1, <2>2, DataUpdates
    <2> QED BY <1>0, <1>2, <2>3, StartTypes DEF StartPublish
  <1>3. CASE StartUnpublish(w, v)
    <2>1. rows[v].data \in Data
      BY <1>3, PresentRow DEF StartUnpublish, Published, TypeOK
    <2>2. "unpublished" \in Statuses /\ 0 \in 0..MaxVersion
      BY DEF Statuses
    <2>3. [rows[v].data EXCEPT !.status = "unpublished", !.live = 0] \in Data
      BY <2>1, <2>2, DataUpdates
    <2> QED BY <1>0, <1>3, <2>3, StartTypes DEF StartUnpublish
  <1>4. \A l \in Latest : l \in Versions /\ rows[l].data \in Data
    BY PresentRow DEF Latest, TypeOK
  <1>5. CASE StartDelete(w)
    BY <1>0, <1>4, <1>5, StartTypes DEF StartDelete
  <1>6. CASE StartMoveToBin(w)
    BY <1>0, <1>4, <1>6, StartTypes DEF StartMoveToBin, ShownLatest
  <1>7. CASE StartRestore(w)
    BY <1>0, <1>4, <1>7, StartTypes DEF StartRestore
  <1> QED BY <1>1, <1>2, <1>3, <1>5, <1>6, <1>7

LEMMA HeirIsThere ==
    ASSUME TypeOK, NEW v \in Versions, NEW l \in Latest, NEW heir \in Heirs(v, l)
    PROVE  /\ heir \in 0..MaxVersion
           /\ heir # 0 => /\ v = l
                          /\ heir \in Versions
                          /\ heir < v
                          /\ Present(heir)
                          /\ \A t \in Versions : t < v /\ Present(t) => t <= heir
  BY DEF Heirs, Previous, Before, Shown, Versions

LEMMA StartDeleteRevisionTypes ==
    ASSUME TypeOK, NEW w \in Writers, NEW v \in Versions, StartDeleteRevision(w, v)
    PROVE  TypeOK'
  <1>1. PICK l \in Latest : \E heir \in Heirs(v, l) :
          LET whole == v = l /\ heir = 0
              gone == rows[v].data
          IN  /\ Shown(v)
              /\ stage' = [stage EXCEPT ![w] = IF whole THEN "emptying" ELSE "erasing"]
              /\ plan' = [plan EXCEPT ![w] =
                   [kind |-> IF whole THEN "delete" ELSE "deleteRevision",
                    id |-> v, entry |-> gone, heir |-> heir,
                    heirEntry |-> IF heir = 0 THEN Blank
                                  ELSE [rows[heir].data EXCEPT
                                         !.latest = TRUE,
                                         !.live = IF gone.status = "published" THEN 0
                                                  ELSE gone.live]]]
              /\ UNCHANGED <<rows, found, intact, straight>>
    BY DEF StartDeleteRevision
  <1>2. PICK heir \in Heirs(v, l) :
          LET whole == v = l /\ heir = 0
              gone == rows[v].data
          IN  /\ Shown(v)
              /\ stage' = [stage EXCEPT ![w] = IF whole THEN "emptying" ELSE "erasing"]
              /\ plan' = [plan EXCEPT ![w] =
                   [kind |-> IF whole THEN "delete" ELSE "deleteRevision",
                    id |-> v, entry |-> gone, heir |-> heir,
                    heirEntry |-> IF heir = 0 THEN Blank
                                  ELSE [rows[heir].data EXCEPT
                                         !.latest = TRUE,
                                         !.live = IF gone.status = "published" THEN 0
                                                  ELSE gone.live]]]
              /\ UNCHANGED <<rows, found, intact, straight>>
    BY <1>1
  <1> DEFINE k == IF v = l /\ heir = 0 THEN "delete" ELSE "deleteRevision"
             n == IF rows[v].data.status = "published" THEN 0 ELSE rows[v].data.live
             e == IF heir = 0 THEN Blank
                  ELSE [rows[heir].data EXCEPT !.latest = TRUE, !.live = n]
  <1>3. rows[v].data \in Data
    BY <1>2, PresentRow DEF Shown, TypeOK
  <1>4. n \in 0..MaxVersion
    BY <1>3 DEF Data
  <1>5. e \in Data
    <2>1. CASE heir = 0
      BY <2>1, PlainValues
    <2>2. CASE heir # 0
      <3>1. rows[heir].data \in Data
        BY <2>2, HeirIsThere, PresentRow DEF TypeOK
      <3> HIDE DEF n
      <3> QED BY <1>4, <2>2, <3>1, DataUpdates
    <2> QED BY <2>1, <2>2
  <1>6. k \in Kinds \cup {"none"} /\ heir \in 0..MaxVersion
    BY HeirIsThere DEF Kinds
  <1>7. plan' = [plan EXCEPT ![w] =
          [kind |-> k, id |-> v, entry |-> rows[v].data, heir |-> heir, heirEntry |-> e]]
    BY <1>2
  <1> HIDE DEF k, e
  <1>8. [kind |-> k, id |-> v, entry |-> rows[v].data, heir |-> heir, heirEntry |-> e] \in Plans
    BY <1>3, <1>5, <1>6 DEF Plans
  <1>9. plan' \in [Writers -> Plans]
    BY <1>7, <1>8 DEF TypeOK
  <1>10. stage' \in [Writers -> Stages]
    BY <1>2 DEF TypeOK, Stages
  <1> QED BY <1>2, <1>9, <1>10 DEF TypeOK

LEMMA FindTypes ==
    ASSUME TypeOK, NEW w \in Writers,
           \/ FindOldLatest(w) \/ FindOldPublished(w) \/ FindLatest(w) \/ FindAll(w)
    PROVE  TypeOK'
  <1> USE DEF Stages
  <1>1. ASSUME NEW vs, NEW g \in Stages, Find(w, vs), Goto(w, g)
        PROVE  WritersOK' /\ found' \in [Writers -> Table]
    BY <1>1, OldFinds, GotoTypes DEF TypeOK
  <1>2. CASE FindOldLatest(w)
    BY <1>1, <1>2, WholeType DEF FindOldLatest, TypeOK
  <1>3. CASE FindOldPublished(w)
    BY <1>1, <1>3, WholeType DEF FindOldPublished, TypeOK
  <1>4. CASE FindLatest(w)
    <2>1. CASE Latest = {}
      BY <1>4, <2>1, FinishTypes, WholeType DEF FindLatest, Succeed, TypeOK
    <2>2. CASE Latest # {}
      BY <1>1, <1>4, <2>2, WholeType DEF FindLatest, TypeOK
    <2> QED BY <2>1, <2>2
  <1>5. CASE FindAll(w)
    <2>1. CASE rows = NoRows
      BY <1>5, <2>1, GotoOrSucceedTypes, WholeType DEF FindAll, TypeOK
    <2>2. CASE rows # NoRows
      BY <1>1, <1>5, <2>2, WholeType DEF FindAll, TypeOK
    <2> QED BY <2>1, <2>2
  <1> QED BY <1>2, <1>3, <1>4, <1>5

LEMMA FoundEmptied ==
    ASSUME TypeOK, NEW w \in Writers, NEW v \in Versions,
           found' = [found EXCEPT ![w][v] = NoRow]
    PROVE  /\ found' \in [Writers -> Table]
           /\ \A u \in Versions : found'[w][u] = IF u = v THEN NoRow ELSE found[w][u]
           /\ \A o \in Writers : o # w => found'[o] = found[o]
  BY DEF TypeOK, Table

LEMMA ClearTypes ==
    ASSUME TypeOK, NEW w \in Writers, NEW v \in Versions,
           ClearLatest(w, v) \/ RetirePublished(w, v)
    PROVE  TypeOK'
  <1> DEFINE d == found[w][v].data
  <1>1. d \in Data
    BY FoundRow DEF ClearLatest, RetirePublished, TypeOK
  <1>2. "unpublished" \in Statuses
    BY DEF Statuses
  <1>3. [d EXCEPT !.latest = FALSE] \in Data
    BY <1>1, <1>2, DataUpdates
  <1>4. [d EXCEPT !.published = FALSE, !.status = "unpublished"] \in Data
    BY <1>1, <1>2, DataUpdates
  <1> HIDE DEF d
  <1>5. CASE ClearLatest(w, v)
    <2>1. UpdateRow(v, [rows[v] EXCEPT !.isLatest = FALSE, !.data = [d EXCEPT !.latest = FALSE]])
      BY <1>5 DEF ClearLatest, d
    <2>2. rows' \in Table
      BY <1>3, <2>1, PresentRow, RowUpdates, UpdatedTable DEF TypeOK
    <2> QED BY <1>5, <2>2, FoundEmptied DEF ClearLatest, TypeOK
  <1>6. CASE RetirePublished(w, v)
    <2>1. UpdateRow(v, [rows[v] EXCEPT !.isPublished = FALSE,
                          !.data = [d EXCEPT !.published = FALSE, !.status = "unpublished"]])
      BY <1>6 DEF RetirePublished, d
    <2>2. rows' \in Table
      BY <1>4, <2>1, PresentRow, RowUpdates, UpdatedTable DEF TypeOK
    <2> QED BY <1>6, <2>2, FoundEmptied DEF RetirePublished, TypeOK
  <1> QED BY <1>5, <1>6

LEMMA InsertTypes ==
    ASSUME TypeOK, NEW w \in Writers, InsertRevision(w)
    PROVE  TypeOK'
  <1>1. plan[w].id \in Versions /\ plan[w].entry \in Data
    BY DEF TypeOK, Plans
  <1>2. EntryToRow(plan[w].entry) \in Row
    BY <1>1, RowOfEntry
  <1>3. rows' \in Table
    BY <1>1, <1>2 DEF InsertRevision, TypeOK, Table
  <1>4. Finish(w) /\ intact' \in BOOLEAN /\ straight' = straight
    BY DEF InsertRevision, Fail, Succeed, TypeOK
  <1> QED BY <1>3, <1>4, FinishTypes, WholeType DEF TypeOK

LEMMA FlagsReadTypes ==
    ASSUME TypeOK, NEW p \in Plans
    PROVE  FlagsRead(p) \in Data
  <1> DEFINE now == IF Present(p.id) THEN rows[p.id]
                    ELSE [isLatest |-> p.entry.latest, isPublished |-> p.entry.published]
             b == CASE p.kind = "publish" -> TRUE
                    [] p.kind = "unpublish" -> FALSE
                    [] OTHER -> now.isPublished
  <1>1. p.id \in Versions /\ p.entry \in Data
    BY DEF Plans
  <1>2. now.isLatest \in BOOLEAN /\ now.isPublished \in BOOLEAN
    BY <1>1, PresentRow DEF TypeOK, Row, Data
  <1>3. FlagsRead(p) = [p.entry EXCEPT !.latest = now.isLatest, !.published = b]
    BY DEF FlagsRead
  <1> HIDE DEF now
  <1>4. b \in BOOLEAN
    BY <1>2
  <1> HIDE DEF b
  <1>5. "draft" \in Statuses /\ 0 \in 0..MaxVersion
    BY DEF Statuses
  <1> QED BY <1>1, <1>2, <1>3, <1>4, <1>5, DataUpdates

LEMMA WriteTypes ==
    ASSUME TypeOK, NEW w \in Writers, ReadFlags(w) \/ WriteRevision(w)
    PROVE  TypeOK'
  <1>1. plan[w] \in Plans /\ plan[w].id \in Versions /\ plan[w].entry \in Data
    BY DEF TypeOK, Plans
  <1>2. CASE ReadFlags(w)
    <2>1. FlagsRead(plan[w]) \in Data
      BY <1>1, FlagsReadTypes
    <2>2. [plan[w] EXCEPT !.entry = FlagsRead(plan[w])] \in Plans
      BY <1>1, <2>1 DEF Plans
    <2> QED BY <1>2, <2>2 DEF ReadFlags, TypeOK, Stages
  <1>3. CASE WriteRevision(w)
    <2> DEFINE p == plan[w]
               row == [rows[p.id] EXCEPT
                         !.isPublished = IF p.kind = "update" THEN @ ELSE p.entry.published,
                         !.wbyDeleted = p.entry.deleted,
                         !.data = p.entry]
    <2>1. Present(p.id) => row \in Row
      <3>1. Present(p.id) => rows[p.id] \in Row
        BY <1>1, PresentRow DEF TypeOK
      <3>2. p.entry.published \in BOOLEAN /\ p.entry.deleted \in BOOLEAN
        BY <1>1 DEF Data
      <3>3. p.entry \in Data
        BY <1>1
      <3> QED BY <3>1, <3>2, <3>3 DEF Row
    <2>2. UpdateRow(p.id, row)
      BY <1>3 DEF WriteRevision
    <2>3. GotoOrSucceed(w, ~p.entry.latest, "sync") /\ straight' = straight /\ "sync" \in Stages
      BY <1>3 DEF WriteRevision, Stages
    <2> HIDE DEF row
    <2>4. rows' \in Table
      BY <1>1, <2>1, <2>2, UpdatedTable DEF TypeOK
    <2>5. WritersOK' /\ found' \in [Writers -> Table]
      BY <2>3, GotoOrSucceedTypes
    <2> QED BY <2>3, <2>4, <2>5, WholeType DEF TypeOK
  <1> QED BY <1>2, <1>3

LEMMA SyncedTypes ==
    ASSUME NEW p \in Plans, NEW d \in Data
    PROVE  Synced(p, d) \in Data
  <1>1. p.id \in 0..MaxVersion /\ 0 \in 0..MaxVersion
    BY DEF Plans, Versions
  <1>2. "draft" \in Statuses
    BY DEF Statuses
  <1>3. [d EXCEPT !.live = p.id] \in Data /\ [d EXCEPT !.live = 0] \in Data
    BY <1>1, <1>2, DataUpdates
  <1> QED BY <1>3 DEF Synced

LEMMA SyncTypes ==
    ASSUME TypeOK, NEW w \in Writers, NEW v \in Versions, SyncLatest(w, v)
    PROVE  TypeOK'
  <1>1. plan[w] \in Plans /\ found[w][v].data \in Data
    BY FoundRow DEF TypeOK, SyncLatest
  <1>2. Synced(plan[w], found[w][v].data) \in Data
    BY <1>1, SyncedTypes
  <1>3. Present(v) => [rows[v] EXCEPT !.data = Synced(plan[w], found[w][v].data)] \in Row
    BY <1>2, PresentRow, RowUpdates DEF TypeOK
  <1>4. rows' \in Table
    BY <1>3, UpdatedTable DEF SyncLatest, TypeOK
  <1> QED BY <1>4, FinishTypes, WholeType DEF SyncLatest, Succeed, TypeOK

LEMMA PatchedTypes ==
    ASSUME TypeOK, NEW w \in Writers, NEW v \in Versions, Present(v), found[w][v] # NoRow
    PROVE  /\ Patched(plan[w].kind, found[w][v].data) \in Data
           /\ PatchedRow(w, v) \in Row
  <1> DEFINE k == plan[w].kind
             d == found[w][v].data
  <1>1. d \in Data
    BY FoundRow DEF TypeOK
  <1>2. 0 \in 0..MaxVersion /\ "draft" \in Statuses
    BY DEF Statuses
  <1>3. /\ [d EXCEPT !.deleted = TRUE] \in Data
        /\ [d EXCEPT !.deleted = FALSE] \in Data
        /\ [d EXCEPT !.live = 0] \in Data
    BY <1>1, <1>2, DataUpdates
  <1>4. Patched(k, d) \in Data
    BY <1>3 DEF Patched
  <1>5. rows[v] \in Row
    BY PresentRow DEF TypeOK
  <1> HIDE DEF d
  <1>6. PatchedRow(w, v) = [rows[v] EXCEPT !.wbyDeleted = CASE k = "bin" -> TRUE
                                     [] k = "restore" -> FALSE
                                     [] OTHER -> @,
                    !.data = Patched(k, d)]
    BY DEF PatchedRow, d
  <1> HIDE DEF k
  <1>7. PatchedRow(w, v) \in Row
    BY <1>4, <1>5, <1>6 DEF Row
  <1> QED BY <1>4, <1>7 DEF d, k

LEMMA WholeEntryTypes ==
    ASSUME TypeOK, NEW w \in Writers,
           EraseRevision(w) \/ PromotePrevious(w) \/ Empty(w) \/ PatchAll(w) \/ BreakOff(w)
    PROVE  TypeOK'
  <1> USE DEF Stages
  <1>1. /\ plan[w].id \in Versions
        /\ plan[w].heirEntry \in Data
        /\ plan[w].heir # 0 => plan[w].heir \in Versions
    BY DEF TypeOK, Plans, Versions
  <1>2. CASE EraseRevision(w)
    <2>1. rows' \in Table
      BY <1>1, <1>2 DEF EraseRevision, TypeOK, Table
    <2> QED BY <1>2, <2>1, GotoOrSucceedTypes, WholeType DEF EraseRevision, TypeOK
  <1>3. CASE PromotePrevious(w)
    <2>1. EntryToRow(plan[w].heirEntry) \in Row
      BY <1>1, RowOfEntry
    <2>2. rows' \in Table
      BY <1>1, <1>3, <2>1 DEF PromotePrevious, UpdateRow, TypeOK, Table
    <2> QED BY <1>3, <2>2, FinishTypes, WholeType DEF PromotePrevious, Succeed, TypeOK
  <1>4. CASE Empty(w)
    BY <1>4, PlainValues, FinishTypes, WholeType DEF Empty, Succeed, TypeOK
  <1>5. CASE PatchAll(w)
    <2>1. CASE \E v \in Versions : Present(v) /\ found[w][v] = NoRow
      BY <1>5, <2>1, FinishTypes, WholeType DEF PatchAll, Fail, TypeOK
    <2>2. CASE ~\E v \in Versions : Present(v) /\ found[w][v] = NoRow
      <3>1. rows' = [v \in Versions |-> IF Present(v) THEN PatchedRow(w, v) ELSE NoRow]
        BY <1>5, <2>2 DEF PatchAll
      <3>2. \A v \in Versions : Present(v) => PatchedRow(w, v) \in Row
        BY <2>2, PatchedTypes
      <3>3. rows' \in Table
        BY <3>1, <3>2 DEF Table
      <3>4. WritersOK' /\ found' \in [Writers -> Table] /\ straight' = straight
        BY <1>5, <2>2, GotoOrSucceedTypes DEF PatchAll
      <3> QED BY <3>3, <3>4, WholeType DEF TypeOK
    <2> QED BY <2>1, <2>2
  <1>6. CASE BreakOff(w)
    BY <1>6, FinishTypes, WholeType DEF BreakOff, Fail, TypeOK
  <1> QED BY <1>2, <1>3, <1>4, <1>5, <1>6

LEMMA TypesKept ==
    ASSUME TypeOK, [Next]_vars
    PROVE  TypeOK'
  <1>1. CASE UNCHANGED vars
    BY <1>1 DEF vars, TypeOK, Table
  <1>2. CASE Next
    <2>1. PICK w \in Writers :
        \/ \E s \in Statuses : CreateEntry(w, s)
        \/ \E v \in Versions :
            \/ \E s \in Statuses : StartRevision(w, v, s)
            \/ ClearLatest(w, v)
            \/ RetirePublished(w, v)
            \/ StartUpdate(w, v)
            \/ StartPublish(w, v)
            \/ StartUnpublish(w, v)
            \/ SyncLatest(w, v)
            \/ StartDeleteRevision(w, v)
        \/ FindOldLatest(w)
        \/ FindOldPublished(w)
        \/ InsertRevision(w)
        \/ ReadFlags(w)
        \/ WriteRevision(w)
        \/ FindLatest(w)
        \/ EraseRevision(w)
        \/ PromotePrevious(w)
        \/ StartDelete(w)
        \/ Empty(w)
        \/ StartMoveToBin(w)
        \/ StartRestore(w)
        \/ FindAll(w)
        \/ PatchAll(w)
        \/ BreakOff(w)
      BY <1>2 DEF Next
    <2>2. 1 \in Versions
      BY DEF Versions
    <2> QED BY <2>1, <2>2, CreateEntryTypes, RevisionTypes, OtherStartTypes, StartDeleteRevisionTypes,
               FindTypes, ClearTypes, InsertTypes, WriteTypes, SyncTypes, WholeEntryTypes
  <1> QED BY <1>1, <1>2

LEMMA InitialTypes == Init => TypeOK
  BY PlainValues DEF Init, TypeOK, Stages

(* Every variable keeps its type, for any number of requests and revisions *)
(* and any set of operations that are asked for.                           *)
THEOREM TypeCorrect == Spec => []TypeOK
  BY InitialTypes, TypesKept, PTL DEF Spec

-----------------------------------------------------------------------------
(* Operations that overlap, none of which deletes.  Rows only come, each   *)
(* above the others, so that the latest row is the one above all others.   *)
(* A create revision that will insert has taken the flag from the row      *)
(* below by then; one that comes too late is refused by the primary key.   *)

NoGaps == \A u, v \in Versions : u < v /\ Present(v) => Present(u)
TopIsLatest == \A l \in Latest, u \in Versions : Present(u) => u <= l

Settling(w) ==
    LET p == plan[w]
    IN  /\ stage[w] \notin {"erasing", "promoting", "emptying"}
        /\ p.heir = 0
        /\ stage[w] \in {"oldLatest", "clearing"} => p.kind = "revise"
        /\ stage[w] = "oldPublished" => p.kind # "revise"
        /\ p.kind = "revise" =>
             /\ p.id - 1 \in Versions
             /\ Present(p.id - 1)
             /\ ~Present(p.id) /\ p.id - 1 \in Latest =>
                  /\ stage[w] # "retiring"
                  /\ stage[w] = "clearing" => found[w][p.id - 1] # NoRow

RaceInv ==
    /\ NoGaps
    /\ TopIsLatest
    /\ \A w \in Writers : Settling(w)

NothingIsDeleted == Requests \cap {"deleteRevision", "delete"} = {}

OthersWait(w) ==
    \A o \in Writers : o # w => stage'[o] = stage[o] /\ plan'[o] = plan[o] /\ found'[o] = found[o]

LEMMA FinishSettles ==
    ASSUME TypeOK, NEW w \in Writers, Finish(w)
    PROVE  Settling(w)' /\ OthersWait(w)
  <1>1. stage'[w] = "idle" /\ plan'[w] = NoPlan
    BY DEF Finish, TypeOK
  <1>2. OthersWait(w)
    BY DEF Finish, TypeOK, OthersWait
  <1> QED BY <1>1, <1>2 DEF Settling, NoPlan

LEMMA GotoWaits ==
    ASSUME TypeOK, NEW w \in Writers, NEW g \in Stages, Goto(w, g)
    PROVE  /\ stage'[w] = g
           /\ plan' = plan
           /\ (\A o \in Writers : o # w => found'[o] = found[o]) => OthersWait(w)
  BY DEF Goto, TypeOK, OthersWait

\* A step of w that brings no row and gives no row the latest flag.
LEMMA NothingNewSettles ==
    ASSUME TypeOK, RaceInv, NEW w \in Writers, OthersWait(w), Settling(w)',
           \A v \in Versions : (Present(v)' <=> Present(v)),
           Latest' \subseteq Latest
    PROVE  RaceInv'
  <1>1. NoGaps'
    BY DEF RaceInv, NoGaps
  <1>2. TopIsLatest'
    BY DEF RaceInv, TopIsLatest
  <1>3. ASSUME NEW o \in Writers PROVE Settling(o)'
    <2>1. CASE o = w
      BY <2>1
    <2>2. CASE o # w
      <3>1. stage'[o] = stage[o] /\ plan'[o] = plan[o] /\ found'[o] = found[o]
        BY <2>2 DEF OthersWait
      <3>2. Settling(o)
        BY DEF RaceInv
      <3>3. PICK j \in Versions : j = plan[o].id
        BY DEF TypeOK, Plans
      <3>4. Present(j)' <=> Present(j)
        OBVIOUS
      <3>5. j - 1 \in Versions => (Present(j - 1)' <=> Present(j - 1))
        BY DEF Present
      <3>6. j - 1 \in Latest' => j - 1 \in Latest
        OBVIOUS
      <3> QED BY <3>1, <3>2, <3>3, <3>4, <3>5, <3>6 DEF Settling
    <2> QED BY <2>1, <2>2
  <1> QED BY <1>1, <1>2, <1>3 DEF RaceInv

LEMMA UpdateKeepsRows ==
    ASSUME TypeOK, NEW v \in Versions, NEW row, UpdateRow(v, row),
           Present(v) => row \in Row /\ row.isLatest = rows[v].isLatest
    PROVE  /\ \A u \in Versions : (Present(u)' <=> Present(u))
           /\ Latest' = Latest
  <1>1. /\ \A u \in Versions : u # v => rows'[u] = rows[u]
        /\ Present(v) => rows'[v] = row
        /\ ~Present(v) => rows'[v] = NoRow
    BY UpdatedTable DEF TypeOK
  <1>2. (Present(v)' <=> Present(v))
    BY <1>1, NoRowIsNoRow DEF Present
  <1>3. \A u \in Versions : (Present(u)' <=> Present(u))
    BY <1>1, <1>2 DEF Present
  <1>4. \A u \in Versions : u \in Latest' <=> u \in Latest
    BY <1>1, <1>3 DEF Latest
  <1> QED BY <1>3, <1>4 DEF Latest

LEMMA SameRowsSettle ==
    ASSUME TypeOK, RaceInv, NEW w \in Writers, OthersWait(w), Settling(w)', rows' = rows
    PROVE  RaceInv'
  BY NothingNewSettles DEF Present, Latest

LEMMA StartSettles ==
    ASSUME TypeOK, RaceInv, NEW w \in Writers, NEW k \in Kinds, NEW v \in Versions,
           NEW d \in Data, NEW g \in Stages, Start(w, k, v, d, g),
           g \in {"oldLatest", "oldPublished", "flags", "patch"},
           k = "revise" => g = "oldLatest" /\ v - 1 \in Versions /\ Present(v - 1),
           g = "oldLatest" => k = "revise"
    PROVE  RaceInv'
  <1>1. stage'[w] = g /\ plan'[w].kind = k /\ plan'[w].id = v /\ plan'[w].heir = 0
    BY DEF Start, TypeOK
  <1>2. OthersWait(w) /\ rows' = rows
    BY DEF Start, TypeOK, OthersWait
  <1>3. Settling(w)'
    BY <1>1, <1>2 DEF Settling, Present
  <1> QED BY <1>2, <1>3, SameRowsSettle

LEMMA StartsSettle ==
    ASSUME TypeOK, RaceInv, NothingIsDeleted, NEW w \in Writers, NEW v \in Versions, NEW s \in Statuses,
           \/ StartRevision(w, v, s) \/ StartUpdate(w, v) \/ StartPublish(w, v)
           \/ StartUnpublish(w, v) \/ StartDelete(w) \/ StartMoveToBin(w) \/ StartRestore(w)
           \/ StartDeleteRevision(w, v)
    PROVE  RaceInv'
  <1> DEFINE Starts(k, u, d, g) == u \in Versions /\ d \in Data /\ Start(w, k, u, d, g)
  <1>1. \A u \in Versions : Present(u) => rows[u].data \in Data
    BY PresentRow DEF TypeOK
  <1>2. CASE StartRevision(w, v, s)
    <2>1. PICK l \in ShownLatest :
            /\ Shown(v)
            /\ l < MaxVersion
            /\ Start(w, "revise", l + 1,
                     [rows[v].data EXCEPT !.latest = TRUE, !.published = (s = "published"),
                                          !.status = s, !.locked = (s # "draft")],
                     "oldLatest")
      BY <1>2 DEF StartRevision
    <2>2. [rows[v].data EXCEPT !.latest = TRUE, !.published = (s = "published"),
                               !.status = s, !.locked = (s # "draft")] \in Data
      BY <1>1, <2>1 DEF Data, Shown
    <2>3. l + 1 \in Versions /\ (l + 1) - 1 \in Versions /\ Present((l + 1) - 1)
      BY <2>1 DEF ShownLatest, Latest, Versions
    <2> QED BY <2>1, <2>2, <2>3, StartSettles DEF Kinds, Stages
  <1>3. CASE StartUpdate(w, v)
    <2>1. rows[v].data \in Data /\ Start(w, "update", v, rows[v].data, "flags")
      BY <1>1, <1>3 DEF StartUpdate, Shown
    <2> QED BY <2>1, StartSettles DEF Kinds, Stages
  <1>4. CASE StartPublish(w, v)
    <2> DEFINE d == [rows[v].data EXCEPT !.status = "published", !.locked = TRUE, !.live = v]
    <2>1. "published" \in Statuses /\ v \in 0..MaxVersion
      BY DEF Statuses, Versions
    <2>2. d \in Data /\ Start(w, "publish", v, d, "oldPublished")
      BY <1>1, <1>4, <2>1, DataUpdates DEF StartPublish, Shown
    <2> HIDE DEF d
    <2> QED BY <2>2, StartSettles DEF Kinds, Stages
  <1>5. CASE StartUnpublish(w, v)
    <2> DEFINE d == [rows[v].data EXCEPT !.status = "unpublished", !.live = 0]
    <2>1. "unpublished" \in Statuses /\ 0 \in 0..MaxVersion
      BY DEF Statuses
    <2>2. d \in Data /\ Start(w, "unpublish", v, d, "flags")
      BY <1>1, <1>5, <2>1, DataUpdates DEF StartUnpublish, Published
    <2> HIDE DEF d
    <2> QED BY <2>2, StartSettles DEF Kinds, Stages
  <1>6. CASE StartMoveToBin(w)
    <2>1. PICK l \in Versions : rows[l].data \in Data /\ Start(w, "bin", l, rows[l].data, "patch")
      BY <1>1, <1>6 DEF StartMoveToBin, ShownLatest, Latest
    <2> QED BY <2>1, StartSettles DEF Kinds, Stages
  <1>7. CASE StartRestore(w)
    <2>1. PICK l \in Versions : rows[l].data \in Data /\ Start(w, "restore", l, rows[l].data, "patch")
      BY <1>1, <1>7 DEF StartRestore, Latest
    <2> QED BY <2>1, StartSettles DEF Kinds, Stages
  <1>8. ~StartDelete(w) /\ ~StartDeleteRevision(w, v)
    BY DEF NothingIsDeleted, StartDelete, StartDeleteRevision, Start
  <1> QED BY <1>2, <1>3, <1>4, <1>5, <1>6, <1>7, <1>8

LEMMA CreateSettles ==
    ASSUME TypeOK, RaceInv, NEW w \in Writers, NEW s \in Statuses, CreateEntry(w, s)
    PROVE  RaceInv'
  <1>1. /\ \A v \in Versions : Present(v)' => v = 1
        /\ \A v \in Versions : ~Present(v)
    BY DEF CreateEntry, NoRows, Present, TypeOK, Table
  <1>2. NoGaps' /\ TopIsLatest'
    BY <1>1 DEF NoGaps, TopIsLatest, Latest, Versions
  <1>3. ASSUME NEW o \in Writers PROVE Settling(o)'
    <2>1. Settling(o) /\ stage' = stage /\ plan' = plan /\ found' = found
      BY DEF RaceInv, CreateEntry
    <2>2. plan[o].kind # "revise"
      BY <1>1, <2>1 DEF Settling
    <2> QED BY <2>1, <2>2 DEF Settling
  <1> QED BY <1>2, <1>3 DEF RaceInv

LEMMA FindSettles ==
    ASSUME TypeOK, RaceInv, NEW w \in Writers,
           \/ FindOldLatest(w) \/ FindOldPublished(w) \/ FindLatest(w) \/ FindAll(w)
    PROVE  RaceInv'
  <1> USE DEF Stages
  <1>0. Settling(w) /\ plan[w].heir = 0
    BY DEF RaceInv, Settling
  <1>1. ASSUME NEW vs, Find(w, vs)
        PROVE  /\ \A v \in Versions : found'[w][v] = IF v \in vs THEN rows[v] ELSE NoRow
               /\ \A o \in Writers : o # w => found'[o] = found[o]
    BY <1>1, OldFinds DEF TypeOK
  <1>2. CASE FindOldLatest(w)
    <2>1. stage[w] = "oldLatest" /\ Find(w, Latest) /\ Goto(w, "clearing") /\ rows' = rows
      BY <1>2 DEF FindOldLatest
    <2>2. OthersWait(w) /\ stage'[w] = "clearing" /\ plan' = plan
      BY <1>1, <2>1, GotoWaits
    <2>3. plan[w].id - 1 \in Versions /\ plan[w].id - 1 \in Latest => found'[w][plan[w].id - 1] # NoRow
      BY <1>1, <2>1 DEF Latest, Present
    <2>4. Settling(w)'
      BY <1>0, <2>1, <2>2, <2>3 DEF Settling, Present, Latest
    <2> QED BY <2>1, <2>2, <2>4, SameRowsSettle
  <1>3. CASE FindOldPublished(w)
    <2>1. Find(w, Published) /\ Goto(w, "retiring") /\ rows' = rows
      BY <1>3 DEF FindOldPublished
    <2>2. OthersWait(w) /\ stage'[w] = "retiring" /\ plan' = plan
      BY <1>1, <2>1, GotoWaits
    <2>3. plan[w].kind = "revise" => stage[w] = "clearing" /\ found[w] = NoRows
      BY <1>0, <1>3 DEF FindOldPublished, FoundAll, Settling
    <2>4. plan[w].kind = "revise" /\ ~Present(plan[w].id) => plan[w].id - 1 \notin Latest
      BY <1>0, <2>3 DEF Settling, NoRows
    <2>5. Settling(w)'
      BY <1>0, <2>1, <2>2, <2>4 DEF Settling, Present, Latest
    <2> QED BY <2>1, <2>2, <2>5, SameRowsSettle
  <1>4. CASE FindLatest(w)
    <2>1. CASE Latest = {}
      BY <1>4, <2>1, FinishSettles, SameRowsSettle DEF FindLatest, Succeed
    <2>2. CASE Latest # {}
      <3>1. PICK l \in Latest : Find(w, {l}) /\ Goto(w, "syncing")
        BY <1>4, <2>2 DEF FindLatest
      <3>2. OthersWait(w) /\ stage'[w] = "syncing" /\ plan' = plan
        BY <1>1, <3>1, GotoWaits
      <3>3. rows' = rows
        BY <1>4 DEF FindLatest
      <3>4. Settling(w)'
        BY <1>0, <3>2, <3>3 DEF Settling, Present, Latest
      <3> QED BY <3>2, <3>3, <3>4, SameRowsSettle
    <2> QED BY <2>1, <2>2
  <1>5. CASE FindAll(w)
    <2>0. rows' = rows
      BY <1>5 DEF FindAll
    <2>1. CASE rows = NoRows
      BY <1>0, <1>5, <2>0, <2>1, FinishSettles, SameRowsSettle DEF FindAll, GotoOrSucceed, Succeed
    <2>2. CASE rows # NoRows
      <3>1. Find(w, Versions) /\ Goto(w, "patching")
        BY <1>5, <2>2 DEF FindAll
      <3>2. OthersWait(w) /\ stage'[w] = "patching" /\ plan' = plan
        BY <1>1, <3>1, GotoWaits
      <3>3. Settling(w)'
        BY <1>0, <2>0, <3>2 DEF Settling, Present, Latest
      <3> QED BY <2>0, <3>2, <3>3, SameRowsSettle
    <2> QED BY <2>1, <2>2
  <1> QED BY <1>2, <1>3, <1>4, <1>5

LEMMA ClearSettles ==
    ASSUME TypeOK, RaceInv, TypeOK', NEW w \in Writers, NEW v \in Versions,
           ClearLatest(w, v) \/ RetirePublished(w, v)
    PROVE  RaceInv'
  <1> DEFINE d == found[w][v].data
  <1>0. d \in Data /\ "unpublished" \in Statuses
    BY FoundRow DEF ClearLatest, RetirePublished, TypeOK, Statuses
  <1>1. /\ \A u \in Versions : found'[w][u] = IF u = v THEN NoRow ELSE found[w][u]
        /\ \A o \in Writers : o # w => found'[o] = found[o]
        /\ stage' = stage
        /\ plan' = plan
    BY FoundEmptied DEF ClearLatest, RetirePublished
  <1>2. OthersWait(w)
    BY <1>1 DEF OthersWait
  <1>3. Settling(w)
    BY DEF RaceInv
  <1>4. CASE ClearLatest(w, v)
    <2>1. [d EXCEPT !.latest = FALSE] \in Data
      BY <1>0, DataUpdates
    <2>2. UpdateRow(v, [rows[v] EXCEPT !.isLatest = FALSE, !.data = [d EXCEPT !.latest = FALSE]])
      BY <1>4 DEF ClearLatest
    <2> HIDE DEF d
    <2>3. Present(v) => [rows[v] EXCEPT !.isLatest = FALSE, !.data = [d EXCEPT !.latest = FALSE]] \in Row
      BY <2>1, PresentRow, RowUpdates DEF TypeOK
    <2>4. /\ \A u \in Versions : u # v => rows'[u] = rows[u]
          /\ Present(v) => rows'[v] = [rows[v] EXCEPT !.isLatest = FALSE, !.data = [d EXCEPT !.latest = FALSE]]
          /\ ~Present(v) => rows'[v] = NoRow
      BY <2>2, <2>3, UpdatedTable DEF TypeOK
    <2>5. Present(v)' <=> Present(v)
      BY <2>3, <2>4, NoRowIsNoRow DEF Present
    <2>6. Present(v) => rows'[v].isLatest = FALSE
      <3>1. Present(v) => rows[v] \in Row
        BY PresentRow DEF TypeOK
      <3> QED BY <3>1, <2>4 DEF Row
    <2>7. \A u \in Versions : (Present(u)' <=> Present(u)) /\ (u \in Latest' <=> u \in Latest /\ u # v)
      BY <2>4, <2>5, <2>6 DEF Present, Latest
    <2>8. Latest' \subseteq Latest
      BY <2>7 DEF Latest
    <2>9. Settling(w)'
      BY <1>1, <1>3, <2>7 DEF Settling, Present, TypeOK, Plans
    <2> QED BY <1>2, <2>7, <2>8, <2>9, NothingNewSettles
  <1>5. CASE RetirePublished(w, v)
    <2> DEFINE e == [d EXCEPT !.published = FALSE, !.status = "unpublished"]
    <2>1. e \in Data
      BY <1>0, DataUpdates
    <2>2. UpdateRow(v, [rows[v] EXCEPT !.isPublished = FALSE, !.data = e])
      BY <1>5 DEF RetirePublished
    <2> HIDE DEF d, e
    <2>3. Present(v) => /\ [rows[v] EXCEPT !.isPublished = FALSE, !.data = e] \in Row
                       /\ [rows[v] EXCEPT !.isPublished = FALSE, !.data = e].isLatest = rows[v].isLatest
      <3>1. Present(v) => rows[v] \in Row
        BY PresentRow DEF TypeOK
      <3> QED BY <2>1, <3>1 DEF Row
    <2>4. (\A u \in Versions : (Present(u)' <=> Present(u))) /\ Latest' = Latest
      BY <2>2, <2>3, UpdateKeepsRows
    <2>5. stage[w] = "retiring"
      BY <1>5 DEF RetirePublished
    <2>6. Settling(w)'
      BY <1>1, <1>3, <2>4, <2>5 DEF Settling, Present, TypeOK, Plans
    <2> QED BY <1>2, <2>4, <2>6, NothingNewSettles
  <1> QED BY <1>4, <1>5

LEMMA InsertSettles ==
    ASSUME TypeOK, RaceInv, TypeOK', NEW w \in Writers, InsertRevision(w)
    PROVE  RaceInv'
  <1>0. PICK i \in Versions : i = plan[w].id
    BY DEF TypeOK, Plans
  <1>1. i \in Versions /\ Settling(w)
    BY DEF RaceInv
  <1>2. Settling(w)' /\ OthersWait(w)
    BY FinishSettles DEF InsertRevision, Succeed, Fail
  <1>3. CASE Present(i)
    BY <1>0, <1>2, <1>3, SameRowsSettle DEF InsertRevision
  <1>4. CASE ~Present(i)
    <2>1. rows' = [rows EXCEPT ![i] = EntryToRow(plan[w].entry)]
      BY <1>0, <1>4 DEF InsertRevision
    <2>2. EntryToRow(plan[w].entry) \in Row
      BY RowOfEntry DEF TypeOK, Plans
    <2>3. /\ Present(i)'
          /\ \A u \in Versions : u # i => rows'[u] = rows[u]
      BY <1>1, <2>1, <2>2, NoRowIsNoRow DEF Present, TypeOK, Table
    <2>4. \A u \in Versions : u # i => (Present(u)' <=> Present(u)) /\ (u \in Latest' <=> u \in Latest)
      BY <2>3 DEF Present, Latest
    <2>5. i - 1 \in Versions /\ Present(i - 1) /\ plan[w].kind = "revise"
      BY <1>0, <1>1 DEF Settling, InsertRevision
    <2>6. i - 1 \notin Latest
      <3>1. stage[w] = "retiring" \/ (stage[w] = "clearing" /\ found[w] = NoRows)
        BY DEF InsertRevision, FoundAll
      <3> QED BY <1>0, <1>1, <1>4, <2>5, <3>1 DEF Settling, NoRows
    \* The rows that are there are those below i.
    <2>7. \A u \in Versions : Present(u) <=> u < i
      BY <1>1, <1>4, <2>5 DEF RaceInv, NoGaps, Versions
    <2>8. \A u \in Versions : u \notin Latest
      BY <1>1, <2>5, <2>6, <2>7 DEF RaceInv, TopIsLatest, Latest, Versions
    <2>9. \A u \in Versions : Present(u)' <=> u <= i
      BY <1>1, <2>3, <2>4, <2>7 DEF Versions
    <2>10. NoGaps'
      BY <1>1, <2>9 DEF NoGaps, Versions
    <2>11. \A l \in Latest' : l = i
      BY <2>4, <2>8 DEF Latest
    <2>12. TopIsLatest'
      BY <2>9, <2>11 DEF TopIsLatest
    <2>13. ASSUME NEW o \in Writers PROVE Settling(o)'
      <3>1. CASE o = w
        BY <1>2, <3>1
      <3>2. CASE o # w
        <4>1. stage'[o] = stage[o] /\ plan'[o] = plan[o] /\ found'[o] = found[o] /\ Settling(o)
          BY <1>2, <3>2 DEF OthersWait, RaceInv
        <4>2. PICK j \in Versions : j = plan[o].id
          BY DEF TypeOK, Plans
        <4>3. plan[o].kind = "revise" => /\ j - 1 \in Versions
                                         /\ Present(j - 1)'
                                         /\ ~(~Present(j)' /\ j - 1 \in Latest')
          <5>1. SUFFICES ASSUME plan[o].kind = "revise"
                         PROVE  /\ j - 1 \in Versions
                                /\ Present(j - 1)'
                                /\ ~(~Present(j)' /\ j - 1 \in Latest')
            OBVIOUS
          <5>2. j - 1 \in Versions /\ Present(j - 1)
            BY <4>1, <4>2, <5>1 DEF Settling
          <5>3. j - 1 < i
            BY <2>7, <5>2
          <5>4. j - 1 <= i /\ j - 1 # i
            BY <1>1, <5>2, <5>3 DEF Versions
          <5> QED BY <2>9, <2>11, <5>2, <5>4
        <4> QED BY <4>1, <4>2, <4>3 DEF Settling
      <3> QED BY <3>1, <3>2
    <2> QED BY <2>10, <2>12, <2>13 DEF RaceInv
  <1> QED BY <1>3, <1>4

LEMMA WriteSettles ==
    ASSUME TypeOK, RaceInv, TypeOK', NEW w \in Writers, NEW v \in Versions,
           ReadFlags(w) \/ WriteRevision(w) \/ SyncLatest(w, v)
    PROVE  RaceInv'
  <1>1. Settling(w) /\ plan[w] \in Plans /\ plan[w].id \in Versions /\ plan[w].entry \in Data
    BY DEF RaceInv, TypeOK, Plans
  <1>2. CASE ReadFlags(w)
    <2>1. /\ stage'[w] = "writing"
          /\ plan'[w].kind = plan[w].kind /\ plan'[w].id = plan[w].id /\ plan'[w].heir = plan[w].heir
          /\ rows' = rows
          /\ OthersWait(w)
      BY <1>1, <1>2 DEF ReadFlags, TypeOK, Plans, OthersWait
    <2>2. Settling(w)'
      BY <1>1, <2>1 DEF Settling, Present, Latest
    <2> QED BY <2>1, <2>2, SameRowsSettle
  <1>3. CASE WriteRevision(w)
    <2> DEFINE p == plan[w]
               row == [rows[p.id] EXCEPT
                         !.isPublished = IF p.kind = "update" THEN @ ELSE p.entry.published,
                         !.wbyDeleted = p.entry.deleted,
                         !.data = p.entry]
    <2>1. Present(p.id) => row \in Row /\ row.isLatest = rows[p.id].isLatest
      <3>1. Present(p.id) => rows[p.id] \in Row
        BY <1>1, PresentRow DEF TypeOK
      <3>2. p.entry.published \in BOOLEAN /\ p.entry.deleted \in BOOLEAN
        BY <1>1 DEF Data
      <3>3. p.entry \in Data
        BY <1>1
      <3> QED BY <3>1, <3>2, <3>3 DEF Row
    <2>2. UpdateRow(p.id, row)
      BY <1>3 DEF WriteRevision
    <2> HIDE DEF row
    <2>3. (\A u \in Versions : (Present(u)' <=> Present(u))) /\ Latest' = Latest
      BY <1>1, <2>1, <2>2, UpdateKeepsRows
    <2>4. Settling(w)' /\ OthersWait(w)
      <3>1. CASE ~p.entry.latest
        <4>1. Goto(w, "sync") /\ found' = [found EXCEPT ![w] = NoRows] /\ "sync" \in Stages
          BY <1>3, <3>1 DEF WriteRevision, GotoOrSucceed, Stages
        <4>2. stage'[w] = "sync" /\ plan' = plan /\ OthersWait(w)
          BY <4>1, GotoWaits DEF TypeOK
        <4>3. Settling(w)'
          BY <1>1, <2>3, <4>2 DEF Settling, Present
        <4> QED BY <4>2, <4>3
      <3>2. CASE p.entry.latest
        BY <1>3, <3>2, FinishSettles DEF WriteRevision, GotoOrSucceed, Succeed
      <3> QED BY <3>1, <3>2
    <2> QED BY <2>3, <2>4, NothingNewSettles
  <1>4. CASE SyncLatest(w, v)
    <2> DEFINE d == Synced(plan[w], found[w][v].data)
    <2>1. d \in Data
      BY <1>1, <1>4, FoundRow, SyncedTypes DEF SyncLatest, TypeOK
    <2>2. UpdateRow(v, [rows[v] EXCEPT !.data = d]) /\ Finish(w)
      BY <1>4 DEF SyncLatest, Succeed
    <2> HIDE DEF d
    <2>3. Present(v) => /\ [rows[v] EXCEPT !.data = d] \in Row
                       /\ [rows[v] EXCEPT !.data = d].isLatest = rows[v].isLatest
      <3>1. Present(v) => rows[v] \in Row
        BY PresentRow DEF TypeOK
      <3> QED BY <2>1, <3>1 DEF Row
    <2>4. (\A u \in Versions : (Present(u)' <=> Present(u))) /\ Latest' = Latest
      BY <2>2, <2>3, UpdateKeepsRows
    <2> QED BY <2>2, <2>4, FinishSettles, NothingNewSettles
  <1> QED BY <1>2, <1>3, <1>4

LEMMA WholeEntrySettles ==
    ASSUME TypeOK, RaceInv, TypeOK', NEW w \in Writers,
           EraseRevision(w) \/ PromotePrevious(w) \/ Empty(w) \/ PatchAll(w) \/ BreakOff(w)
    PROVE  RaceInv'
  <1>1. Settling(w)
    BY DEF RaceInv
  <1>2. ~EraseRevision(w) /\ ~PromotePrevious(w) /\ ~Empty(w)
    BY <1>1 DEF Settling, EraseRevision, PromotePrevious, Empty
  <1>3. CASE BreakOff(w)
    BY <1>3, FinishSettles, SameRowsSettle DEF BreakOff, Fail
  <1>4. CASE PatchAll(w)
    <2>1. Finish(w)
      BY <1>1, <1>4 DEF PatchAll, Settling, GotoOrSucceed, Succeed, Fail
    <2>2. CASE \E v \in Versions : Present(v) /\ found[w][v] = NoRow
      BY <1>4, <2>1, <2>2, FinishSettles, SameRowsSettle DEF PatchAll
    <2>3. CASE ~\E v \in Versions : Present(v) /\ found[w][v] = NoRow
      <3>1. rows' = [v \in Versions |-> IF Present(v) THEN PatchedRow(w, v) ELSE NoRow]
        BY <1>4, <2>3 DEF PatchAll
      <3>2. \A v \in Versions : Present(v) => PatchedRow(w, v) \in Row
        BY <2>3, PatchedTypes
      <3>3. \A v \in Versions : Present(v) => PatchedRow(w, v).isLatest = rows[v].isLatest
        <4>1. \A v \in Versions : Present(v) => rows[v] \in Row
          BY PresentRow DEF TypeOK
        <4> QED BY <4>1 DEF PatchedRow, Row
      <3>4. \A v \in Versions : (Present(v)' <=> Present(v)) /\ (v \in Latest' <=> v \in Latest)
        BY <3>1, <3>2, <3>3, NoRowIsNoRow DEF Present, Latest
      <3>5. Latest' \subseteq Latest
        BY <3>4 DEF Latest
      <3> QED BY <2>1, <3>4, <3>5, FinishSettles, NothingNewSettles
    <2> QED BY <2>2, <2>3
  <1> QED BY <1>2, <1>3, <1>4

LEMMA RacesKept ==
    ASSUME NothingIsDeleted, TypeOK, RaceInv, [Next]_vars
    PROVE  RaceInv'
  <1>0. TypeOK'
    BY TypesKept
  <1>1. CASE UNCHANGED vars
    BY <1>1 DEF vars, RaceInv, NoGaps, TopIsLatest, Settling, Latest, Present
  <1>2. CASE Next
    <2>1. PICK w \in Writers :
        \/ \E s \in Statuses : CreateEntry(w, s)
        \/ \E v \in Versions :
            \/ \E s \in Statuses : StartRevision(w, v, s)
            \/ ClearLatest(w, v)
            \/ RetirePublished(w, v)
            \/ StartUpdate(w, v)
            \/ StartPublish(w, v)
            \/ StartUnpublish(w, v)
            \/ SyncLatest(w, v)
            \/ StartDeleteRevision(w, v)
        \/ FindOldLatest(w)
        \/ FindOldPublished(w)
        \/ InsertRevision(w)
        \/ ReadFlags(w)
        \/ WriteRevision(w)
        \/ FindLatest(w)
        \/ EraseRevision(w)
        \/ PromotePrevious(w)
        \/ StartDelete(w)
        \/ Empty(w)
        \/ StartMoveToBin(w)
        \/ StartRestore(w)
        \/ FindAll(w)
        \/ PatchAll(w)
        \/ BreakOff(w)
      BY <1>2 DEF Next
    <2>2. 1 \in Versions /\ "draft" \in Statuses
      BY DEF Versions, Statuses
    <2> QED BY <1>0, <2>1, <2>2, StartsSettle, CreateSettles, FindSettles, ClearSettles, InsertSettles,
               WriteSettles, WholeEntrySettles
  <1> QED BY <1>1, <1>2

LEMMA RacesInitially == Init => RaceInv
  <1> SUFFICES ASSUME Init PROVE RaceInv
    OBVIOUS
  <1>1. \A v \in Versions : ~Present(v)
    BY DEF Init, NoRows, Present
  <1>2. \A w \in Writers : stage[w] = "idle" /\ plan[w] = NoPlan
    BY DEF Init
  <1> QED BY <1>1, <1>2 DEF RaceInv, NoGaps, TopIsLatest, Latest, Settling, NoPlan

LEMMA TopIsOne == TypeOK /\ TopIsLatest => AtMostOneLatest
  <1> SUFFICES ASSUME TopIsLatest, NEW u \in Latest, NEW v \in Latest
               PROVE  u = v
    BY DEF AtMostOneLatest, AtMostOne
  <1>1. u <= v /\ v <= u /\ u \in Int /\ v \in Int
    BY DEF TopIsLatest, Latest, Versions
  <1> QED BY <1>1

(* However many requests create, save, publish and unpublish revisions and *)
(* move the entry to the bin and back, statement by statement in any order *)
(* and broken off anywhere, no two rows are ever the latest: of the create *)
(* revisions that read the same latest row, one inserts the next version,  *)
(* and the primary key refuses the others.                                 *)
THEOREM RacesAreSettled ==
    ASSUME NothingIsDeleted
    PROVE  Spec => []AtMostOneLatest
  <1>1. Init => TypeOK /\ RaceInv
    BY InitialTypes, RacesInitially
  <1>2. TypeOK /\ RaceInv /\ [Next]_vars => (TypeOK /\ RaceInv)'
    BY NothingIsDeleted, TypesKept, RacesKept
  <1>3. TypeOK /\ RaceInv => AtMostOneLatest
    BY TopIsOne DEF RaceInv
  <1> QED BY <1>1, <1>2, <1>3, PTL DEF Spec

-----------------------------------------------------------------------------
(* One operation after the other.  What a request found is still in the    *)
(* rows when it writes, since nobody else writes; it sets a flag on a row  *)
(* only after it has found no other row with it, or cleared the others.    *)

FlagsOK(row) ==
    /\ row.isLatest = row.data.latest
    /\ row.isPublished = row.data.published
    /\ row.wbyDeleted = row.data.deleted
    /\ row.isPublished = (row.data.status = "published")

RowsAgree == \A v \in Versions : Present(v) => FlagsOK(rows[v])

Turn == \A w, o \in Writers : stage[w] # "idle" /\ stage[o] # "idle" => w = o

FindsAreFresh(w) ==
    /\ stage[w] = "idle" => found[w] = NoRows
    /\ \A v \in Versions : found[w][v] # NoRow => found[w][v] = rows[v]

\* What a request that takes flags away has done by now.
RevisionIsSound(w) ==
    LET p == plan[w]
    IN  /\ stage[w] \in {"oldLatest", "clearing"} => p.kind = "revise"
        /\ stage[w] = "clearing" => \A v \in Latest : found[w][v] # NoRow
        /\ stage[w] = "oldPublished" => p.kind = "publish"
        /\ stage[w] = "retiring" => /\ p.kind \in {"revise", "publish"}
                                    /\ \A v \in Published : found[w][v] # NoRow
                                    /\ p.kind = "revise" => Latest = {}
        /\ p.kind = "revise" => p.entry.latest /\ p.entry.published = (p.entry.status = "published")

\* What a request that writes a revision means to write.
WriteIsSound(w) ==
    LET p == plan[w]
    IN  /\ p.kind = "publish" => p.entry.status = "published"
        /\ p.kind = "unpublish" => p.entry.status # "published"
        /\ stage[w] = "flags" => p.kind \in {"update", "unpublish"}
        /\ p.kind = "update" /\ stage[w] \in {"flags", "writing"} /\ Present(p.id) =>
             p.entry.status = rows[p.id].data.status
        /\ stage[w] = "writing" =>
             /\ p.kind \in {"update", "publish", "unpublish"}
             /\ p.kind = "publish" => Published = {}
             /\ Present(p.id) =>
                  /\ p.entry.latest = rows[p.id].isLatest
                  /\ p.entry.published = (p.entry.status = "published")
                  /\ p.kind = "update" => p.entry.published = rows[p.id].isPublished

\* The revision that a deletion is to make the latest.
HeirIsSound(w) ==
    LET p == plan[w]
    IN  /\ stage[w] = "promoting" => p.heir # 0
        /\ p.heir # 0 =>
             /\ stage[w] \in {"erasing", "patch", "patching", "promoting"}
             /\ p.heir \in Versions
             /\ p.heir # p.id
             /\ Present(p.heir)
             /\ p.heirEntry.published = (p.heirEntry.status = "published")
             /\ p.heirEntry.published = rows[p.heir].isPublished
             /\ Latest \subseteq (IF stage[w] = "erasing" THEN {p.id} ELSE {})

Underway(w) ==
    /\ FindsAreFresh(w)
    /\ RevisionIsSound(w)
    /\ WriteIsSound(w)
    /\ HeirIsSound(w)

RolesInv ==
    /\ AtMostOneLatest
    /\ AtMostOnePublished
    /\ RowsAgree
    /\ Turn
    /\ \A w \in Writers : Underway(w)

LEMMA Alone ==
    ASSUME Turn, NEW w \in Writers, stage[w] # "idle"
    PROVE  \A o \in Writers : o # w => stage[o] = "idle"
  BY DEF Turn

LEMMA IdleStaysSound ==
    ASSUME NEW o \in Writers, Underway(o), stage[o] = "idle",
           stage'[o] = stage[o], plan'[o] = plan[o], found'[o] = found[o]
    PROVE  Underway(o)'
  <1>1. FindsAreFresh(o)'
    BY DEF Underway, FindsAreFresh, NoRows
  <1>2. RevisionIsSound(o)'
    BY DEF Underway, RevisionIsSound
  <1>3. WriteIsSound(o)'
    BY DEF Underway, WriteIsSound
  <1>4. HeirIsSound(o)'
    BY DEF Underway, HeirIsSound
  <1> QED BY <1>1, <1>2, <1>3, <1>4 DEF Underway

LEMMA FinishIsSound ==
    ASSUME TypeOK, NEW w \in Writers, Finish(w)
    PROVE  Underway(w)' /\ OthersWait(w)
  <1>1. stage'[w] = "idle" /\ plan'[w] = NoPlan /\ found'[w] = NoRows
    BY DEF Finish, TypeOK
  <1>2. OthersWait(w)
    BY DEF Finish, TypeOK, OthersWait
  <1>3. FindsAreFresh(w)'
    BY <1>1 DEF FindsAreFresh, NoRows
  <1>4. RevisionIsSound(w)' /\ WriteIsSound(w)' /\ HeirIsSound(w)'
    BY <1>1 DEF RevisionIsSound, WriteIsSound, HeirIsSound, NoPlan
  <1> QED BY <1>2, <1>3, <1>4 DEF Underway

\* A step of the only request under way.
LEMMA StepKeepsRoles ==
    ASSUME RolesInv, NEW w \in Writers, \A o \in Writers : o # w => stage[o] = "idle",
           OthersWait(w), AtMostOneLatest', AtMostOnePublished', RowsAgree', Underway(w)'
    PROVE  RolesInv'
  <1>1. ASSUME NEW o \in Writers, o # w PROVE stage'[o] = "idle" /\ Underway(o)'
    BY <1>1, IdleStaysSound DEF OthersWait, RolesInv
  <1>2. Turn'
    BY <1>1 DEF Turn
  <1> QED BY <1>1, <1>2 DEF RolesInv

LEMMA SameRowsKeepRoles ==
    ASSUME RolesInv, NEW w \in Writers, \A o \in Writers : o # w => stage[o] = "idle",
           OthersWait(w), rows' = rows, Underway(w)'
    PROVE  RolesInv'
  <1>1. AtMostOneLatest' /\ AtMostOnePublished' /\ RowsAgree'
    BY DEF RolesInv, AtMostOneLatest, AtMostOnePublished, RowsAgree, Latest, Published, Present
  <1> QED BY <1>1, StepKeepsRoles

LEMMA UpdateKeepsFlags ==
    ASSUME TypeOK, RowsAgree, NEW v \in Versions, NEW row, UpdateRow(v, row),
           Present(v) => row \in Row /\ FlagsOK(row)
    PROVE  /\ RowsAgree'
           /\ \A u \in Versions : (Present(u)' <=> Present(u))
           /\ \A u \in Versions : u # v => rows'[u] = rows[u]
           /\ Present(v) => rows'[v] = row
           /\ \A u \in Versions : u # v => /\ (u \in Latest' <=> u \in Latest)
                                           /\ (u \in Published' <=> u \in Published)
           /\ v \in Latest' <=> Present(v) /\ row.isLatest
           /\ v \in Published' <=> Present(v) /\ row.isPublished
  <1>1. /\ \A u \in Versions : u # v => rows'[u] = rows[u]
        /\ Present(v) => rows'[v] = row
        /\ ~Present(v) => rows'[v] = NoRow
    BY UpdatedTable DEF TypeOK
  <1>2. Present(v)' <=> Present(v)
    BY <1>1, NoRowIsNoRow DEF Present
  <1>3. \A u \in Versions : (Present(u)' <=> Present(u))
    BY <1>1, <1>2 DEF Present
  <1>4. RowsAgree'
    BY <1>1, <1>3 DEF RowsAgree
  <1> QED BY <1>1, <1>2, <1>3, <1>4 DEF Latest, Published

LEMMA StartKeepsRoles ==
    ASSUME TypeOK, RolesInv, OneAtATime, NEW w \in Writers, NEW k \in Kinds, NEW v \in Versions,
           NEW d \in Data, NEW g \in Stages, Start(w, k, v, d, g),
           \/ k = "revise" /\ g = "oldLatest" /\ d.latest /\ d.published = (d.status = "published")
           \/ k = "update" /\ g = "flags" /\ d.status = rows[v].data.status
           \/ k = "publish" /\ g = "oldPublished" /\ d.status = "published"
           \/ k = "unpublish" /\ g = "flags" /\ d.status # "published"
           \/ k = "delete" /\ g = "emptying"
           \/ k \in {"bin", "restore"} /\ g = "patch"
    PROVE  RolesInv'
  <1>1. /\ stage'[w] = g /\ plan'[w].kind = k /\ plan'[w].id = v /\ plan'[w].entry = d
        /\ plan'[w].heir = 0 /\ found' = found
    BY DEF Start, TypeOK
  <1>2. OthersWait(w) /\ rows' = rows
    BY DEF Start, TypeOK, OthersWait
  <1>3. \A o \in Writers : stage[o] = "idle"
    BY DEF Start, MayStart, Quiet
  <1>4. found'[w] = NoRows
    BY <1>1, <1>3 DEF RolesInv, Underway, FindsAreFresh
  <1>5. FindsAreFresh(w)'
    BY <1>1, <1>4 DEF FindsAreFresh, NoRows
  <1>6. RevisionIsSound(w)' /\ WriteIsSound(w)' /\ HeirIsSound(w)'
    BY <1>1, <1>2 DEF RevisionIsSound, WriteIsSound, HeirIsSound, Present
  <1> QED BY <1>2, <1>3, <1>5, <1>6, SameRowsKeepRoles DEF Underway

LEMMA StartsKeepRoles ==
    ASSUME TypeOK, RolesInv, OneAtATime, NEW w \in Writers, NEW v \in Versions, NEW s \in Statuses,
           \/ StartRevision(w, v, s) \/ StartUpdate(w, v) \/ StartPublish(w, v)
           \/ StartUnpublish(w, v) \/ StartDelete(w) \/ StartMoveToBin(w) \/ StartRestore(w)
    PROVE  RolesInv'
  <1>1. \A u \in Versions : Present(u) => rows[u].data \in Data
    BY PresentRow DEF TypeOK
  <1>2. CASE StartRevision(w, v, s)
    <2> DEFINE d == [rows[v].data EXCEPT !.latest = TRUE, !.published = (s = "published"),
                                         !.status = s, !.locked = (s # "draft")]
    <2>1. PICK l \in ShownLatest : /\ Shown(v)
                                   /\ l < MaxVersion
                                   /\ Start(w, "revise", l + 1, d, "oldLatest")
      BY <1>2 DEF StartRevision
    <2>2. d \in Data /\ d.latest /\ d.published = (d.status = "published")
      BY <1>1, <2>1 DEF Data, Shown
    <2>3. l + 1 \in Versions
      BY <2>1 DEF ShownLatest, Latest, Versions
    <2> HIDE DEF d
    <2> QED BY <2>1, <2>2, <2>3, StartKeepsRoles DEF Kinds, Stages
  <1>3. CASE StartUpdate(w, v)
    <2>1. rows[v].data \in Data /\ Start(w, "update", v, rows[v].data, "flags")
      BY <1>1, <1>3 DEF StartUpdate, Shown
    <2> QED BY <2>1, StartKeepsRoles DEF Kinds, Stages
  <1>4. CASE StartPublish(w, v)
    <2> DEFINE d == [rows[v].data EXCEPT !.status = "published", !.locked = TRUE, !.live = v]
    <2>1. "published" \in Statuses /\ v \in 0..MaxVersion
      BY DEF Statuses, Versions
    <2>2. rows[v].data \in Data
      BY <1>1, <1>4 DEF StartPublish, Shown
    <2>3. d \in Data /\ Start(w, "publish", v, d, "oldPublished")
      BY <1>4, <2>1, <2>2, DataUpdates DEF StartPublish
    <2>4. d.status = "published"
      BY <2>2 DEF Data
    <2> HIDE DEF d
    <2> QED BY <2>3, <2>4, StartKeepsRoles DEF Kinds, Stages
  <1>5. CASE StartUnpublish(w, v)
    <2> DEFINE d == [rows[v].data EXCEPT !.status = "unpublished", !.live = 0]
    <2>1. "unpublished" \in Statuses /\ 0 \in 0..MaxVersion
      BY DEF Statuses
    <2>2. rows[v].data \in Data
      BY <1>1, <1>5 DEF StartUnpublish, Published
    <2>3. d \in Data /\ Start(w, "unpublish", v, d, "flags")
      BY <1>5, <2>1, <2>2, DataUpdates DEF StartUnpublish
    <2>4. d.status # "published"
      BY <2>2 DEF Data
    <2> HIDE DEF d
    <2> QED BY <2>3, <2>4, StartKeepsRoles DEF Kinds, Stages
  <1>6. CASE StartDelete(w)
    <2>1. PICK l \in Versions : rows[l].data \in Data /\ Start(w, "delete", l, rows[l].data, "emptying")
      BY <1>1, <1>6 DEF StartDelete, Latest
    <2> QED BY <2>1, StartKeepsRoles DEF Kinds, Stages
  <1>7. CASE StartMoveToBin(w)
    <2>1. PICK l \in Versions : rows[l].data \in Data /\ Start(w, "bin", l, rows[l].data, "patch")
      BY <1>1, <1>7 DEF StartMoveToBin, ShownLatest, Latest
    <2> QED BY <2>1, StartKeepsRoles DEF Kinds, Stages
  <1>8. CASE StartRestore(w)
    <2>1. PICK l \in Versions : rows[l].data \in Data /\ Start(w, "restore", l, rows[l].data, "patch")
      BY <1>1, <1>8 DEF StartRestore, Latest
    <2> QED BY <2>1, StartKeepsRoles DEF Kinds, Stages
  <1> QED BY <1>2, <1>3, <1>4, <1>5, <1>6, <1>7, <1>8

LEMMA CreateKeepsRoles ==
    ASSUME TypeOK, RolesInv, NEW w \in Writers, NEW s \in Statuses, CreateEntry(w, s)
    PROVE  RolesInv'
  <1> DEFINE d == [latest |-> TRUE, published |-> s = "published", deleted |-> FALSE,
                   status |-> s, locked |-> s # "draft",
                   live |-> IF s = "published" THEN 1 ELSE 0]
  <1>1. /\ rows = NoRows
        /\ rows' = [rows EXCEPT ![1] = EntryToRow(d)]
        /\ Quiet
        /\ UNCHANGED <<stage, plan, found>>
    BY DEF CreateEntry
  <1>2. FlagsOK(EntryToRow(d))
    BY DEF FlagsOK, EntryToRow
  <1> HIDE DEF d
  <1>3. \A v \in Versions : Present(v)' => v = 1 /\ rows'[v] = EntryToRow(d)
    BY <1>1 DEF Present, NoRows
  <1>4. RowsAgree'
    BY <1>2, <1>3 DEF RowsAgree
  <1>5. AtMostOneLatest' /\ AtMostOnePublished'
    BY <1>3 DEF AtMostOneLatest, AtMostOnePublished, AtMostOne, Latest, Published
  <1>6. \A o \in Writers : Underway(o)'
    BY <1>1, IdleStaysSound DEF RolesInv, Quiet
  <1> QED BY <1>1, <1>4, <1>5, <1>6 DEF RolesInv, Turn

LEMMA FindKeepsRoles ==
    ASSUME TypeOK, RolesInv, NEW w \in Writers,
           \/ FindOldLatest(w) \/ FindOldPublished(w) \/ FindLatest(w) \/ FindAll(w)
    PROVE  RolesInv'
  <1> USE DEF Stages
  <1>0. /\ FindsAreFresh(w) /\ RevisionIsSound(w) /\ WriteIsSound(w) /\ HeirIsSound(w)
        /\ stage[w] # "idle"
        /\ rows' = rows
    BY DEF RolesInv, Underway, FindOldLatest, FindOldPublished, FindLatest, FindAll
  <1>1. \A o \in Writers : o # w => stage[o] = "idle"
    BY <1>0, Alone DEF RolesInv
  <1>2. ASSUME NEW vs, NEW g \in Stages, Find(w, vs), Goto(w, g), g # "idle"
        PROVE  /\ stage'[w] = g
               /\ plan' = plan
               /\ OthersWait(w)
               /\ \A v \in Versions : found'[w][v] = IF v \in vs THEN rows[v] ELSE NoRow
               /\ FindsAreFresh(w)'
    <2>1. /\ \A v \in Versions : found'[w][v] = IF v \in vs THEN rows[v] ELSE NoRow
          /\ \A o \in Writers : o # w => found'[o] = found[o]
      BY <1>2, OldFinds DEF TypeOK
    <2>2. stage'[w] = g /\ plan' = plan /\ OthersWait(w)
      BY <1>2, <2>1, GotoWaits
    <2>3. FindsAreFresh(w)'
      BY <1>0, <1>2, <2>1, <2>2 DEF FindsAreFresh
    <2> QED BY <2>1, <2>2, <2>3
  <1>3. CASE FindOldLatest(w)
    <2>1. Find(w, Latest) /\ Goto(w, "clearing") /\ stage[w] = "oldLatest"
      BY <1>3 DEF FindOldLatest
    <2>2. /\ stage'[w] = "clearing"
          /\ plan' = plan
          /\ OthersWait(w)
          /\ \A v \in Versions : found'[w][v] = IF v \in Latest THEN rows[v] ELSE NoRow
          /\ FindsAreFresh(w)'
      BY <1>2, <2>1
    <2>3. RevisionIsSound(w)'
      BY <1>0, <2>1, <2>2 DEF RevisionIsSound, Latest, Present
    <2>4. WriteIsSound(w)' /\ HeirIsSound(w)'
      BY <1>0, <2>1, <2>2 DEF WriteIsSound, HeirIsSound
    <2> QED BY <1>0, <1>1, <2>2, <2>3, <2>4, SameRowsKeepRoles DEF Underway
  <1>4. CASE FindOldPublished(w)
    <2>1. Find(w, Published) /\ Goto(w, "retiring")
      BY <1>4 DEF FindOldPublished
    <2>2. /\ stage'[w] = "retiring"
          /\ plan' = plan
          /\ OthersWait(w)
          /\ \A v \in Versions : found'[w][v] = IF v \in Published THEN rows[v] ELSE NoRow
          /\ FindsAreFresh(w)'
      BY <1>2, <2>1
    <2>3. \/ stage[w] = "oldPublished" /\ plan[w].kind = "publish"
          \/ stage[w] = "clearing" /\ plan[w].kind = "revise" /\ Latest = {}
      BY <1>0, <1>4 DEF FindOldPublished, RevisionIsSound, FoundAll, NoRows, Latest
    <2>4. Latest' = Latest /\ Published' = Published
      BY <1>0 DEF Latest, Published, Present
    <2>5. RevisionIsSound(w)'
      BY <1>0, <2>2, <2>3, <2>4 DEF RevisionIsSound, Published, Present
    <2>6. WriteIsSound(w)' /\ HeirIsSound(w)'
      BY <1>0, <2>2, <2>3 DEF WriteIsSound, HeirIsSound
    <2> QED BY <1>0, <1>1, <2>2, <2>5, <2>6, SameRowsKeepRoles DEF Underway
  <1>5. CASE FindLatest(w)
    <2>1. CASE Latest = {}
      BY <1>0, <1>1, <1>5, <2>1, FinishIsSound, SameRowsKeepRoles DEF FindLatest, Succeed
    <2>2. CASE Latest # {}
      <3>1. PICK l \in Latest : Find(w, {l}) /\ Goto(w, "syncing") /\ stage[w] = "sync"
        BY <1>5, <2>2 DEF FindLatest
      <3>2. stage'[w] = "syncing" /\ plan' = plan /\ OthersWait(w) /\ FindsAreFresh(w)'
        BY <1>2, <3>1
      <3>3. RevisionIsSound(w)' /\ WriteIsSound(w)' /\ HeirIsSound(w)'
        BY <1>0, <3>1, <3>2 DEF RevisionIsSound, WriteIsSound, HeirIsSound
      <3> QED BY <1>0, <1>1, <3>2, <3>3, SameRowsKeepRoles DEF Underway
    <2> QED BY <2>1, <2>2
  <1>6. CASE FindAll(w)
    <2>0. Latest' = Latest /\ stage[w] = "patch"
      BY <1>0, <1>6 DEF Latest, Present, FindAll
    <2>1. CASE rows = NoRows
      <3>1. plan[w].heir = 0
        BY <1>0, <2>1 DEF HeirIsSound, Present, NoRows
      <3> QED BY <1>0, <1>1, <1>6, <2>1, <3>1, FinishIsSound, SameRowsKeepRoles
              DEF FindAll, GotoOrSucceed, Succeed
    <2>2. CASE rows # NoRows
      <3>1. Find(w, Versions) /\ Goto(w, "patching")
        BY <1>6, <2>2 DEF FindAll
      <3>2. stage'[w] = "patching" /\ plan' = plan /\ OthersWait(w) /\ FindsAreFresh(w)'
        BY <1>2, <3>1
      <3>3. RevisionIsSound(w)' /\ WriteIsSound(w)'
        BY <1>0, <2>0, <3>2 DEF RevisionIsSound, WriteIsSound
      <3>4. HeirIsSound(w)'
        BY <1>0, <2>0, <3>2 DEF HeirIsSound, Present
      <3> QED BY <1>0, <1>1, <3>2, <3>3, <3>4, SameRowsKeepRoles DEF Underway
    <2> QED BY <2>1, <2>2
  <1> QED BY <1>3, <1>4, <1>5, <1>6

LEMMA ClearKeepsRoles ==
    ASSUME TypeOK, RolesInv, NEW w \in Writers, NEW v \in Versions,
           ClearLatest(w, v) \/ RetirePublished(w, v)
    PROVE  RolesInv'
  <1>0. /\ FindsAreFresh(w) /\ RevisionIsSound(w) /\ WriteIsSound(w) /\ HeirIsSound(w)
        /\ stage[w] \in {"clearing", "retiring"}
        /\ found[w][v] # NoRow
    BY DEF RolesInv, Underway, ClearLatest, RetirePublished
  <1>1. \A o \in Writers : o # w => stage[o] = "idle"
    BY <1>0, Alone DEF RolesInv
  <1>2. found[w][v] = rows[v] /\ Present(v)
    BY <1>0 DEF FindsAreFresh, Present
  <1> DEFINE d == found[w][v].data
  <1>3. rows[v] \in Row /\ d \in Data /\ FlagsOK(rows[v]) /\ rows[v].data = d /\ "unpublished" \in Statuses
    BY <1>2, PresentRow DEF TypeOK, RolesInv, RowsAgree, Statuses
  <1> HIDE DEF d
  <1>4. /\ \A u \in Versions : found'[w][u] = IF u = v THEN NoRow ELSE found[w][u]
        /\ \A o \in Writers : o # w => found'[o] = found[o]
        /\ stage' = stage
        /\ plan' = plan
    BY FoundEmptied DEF ClearLatest, RetirePublished
  <1>5. OthersWait(w)
    BY <1>4 DEF OthersWait
  <1>6. plan[w].heir = 0
    BY <1>0 DEF HeirIsSound
  <1>7. CASE ClearLatest(w, v)
    <2> DEFINE row == [rows[v] EXCEPT !.isLatest = FALSE, !.data = [d EXCEPT !.latest = FALSE]]
    <2>1. UpdateRow(v, row)
      BY <1>7 DEF ClearLatest, d
    <2>2. [d EXCEPT !.latest = FALSE] \in Data
      BY <1>3, DataUpdates
    <2>3. row \in Row /\ FlagsOK(row) /\ row.isLatest = FALSE /\ row.isPublished = rows[v].isPublished
      BY <1>3, <2>2 DEF FlagsOK, Row, Data
    <2> HIDE DEF row
    <2>4. /\ RowsAgree'
          /\ \A u \in Versions : u # v => rows'[u] = rows[u]
          /\ \A u \in Versions : u # v => /\ (u \in Latest' <=> u \in Latest)
                                          /\ (u \in Published' <=> u \in Published)
          /\ v \notin Latest'
          /\ v \in Published' <=> v \in Published
      BY <1>2, <2>1, <2>3, UpdateKeepsFlags DEF RolesInv, Published
    <2>5. AtMostOneLatest' /\ AtMostOnePublished'
      BY <2>4 DEF RolesInv, AtMostOneLatest, AtMostOnePublished, AtMostOne, Latest, Published
    <2>6. stage[w] = "clearing"
      BY <1>7 DEF ClearLatest
    <2>7. FindsAreFresh(w)'
      BY <1>0, <1>4, <2>4 DEF FindsAreFresh
    <2>8. \A u \in Latest' : u \in Versions /\ u # v /\ u \in Latest
      BY <2>4 DEF Latest
    <2>9. RevisionIsSound(w)'
      BY <1>0, <1>4, <2>6, <2>8 DEF RevisionIsSound
    <2>10. WriteIsSound(w)' /\ HeirIsSound(w)'
      BY <1>0, <1>4, <1>6, <2>6 DEF WriteIsSound, HeirIsSound
    <2> QED BY <1>1, <1>5, <2>4, <2>5, <2>7, <2>9, <2>10, StepKeepsRoles DEF Underway
  <1>8. CASE RetirePublished(w, v)
    <2> DEFINE e == [d EXCEPT !.published = FALSE, !.status = "unpublished"]
               row == [rows[v] EXCEPT !.isPublished = FALSE, !.data = e]
    <2>1. UpdateRow(v, row)
      BY <1>8 DEF RetirePublished, d
    <2>2. e \in Data
      BY <1>3, DataUpdates
    <2>3. e.latest = d.latest /\ e.published = FALSE /\ e.deleted = d.deleted /\ e.status = "unpublished"
      BY <1>3 DEF Data
    <2> HIDE DEF e
    <2>4. row \in Row /\ FlagsOK(row) /\ row.isPublished = FALSE /\ row.isLatest = rows[v].isLatest
      BY <1>3, <2>2, <2>3 DEF FlagsOK, Row
    <2> HIDE DEF row
    <2>5. /\ RowsAgree'
          /\ \A u \in Versions : u # v => rows'[u] = rows[u]
          /\ \A u \in Versions : u # v => /\ (u \in Latest' <=> u \in Latest)
                                          /\ (u \in Published' <=> u \in Published)
          /\ v \notin Published'
          /\ v \in Latest' <=> v \in Latest
      BY <1>2, <2>1, <2>4, UpdateKeepsFlags DEF RolesInv, Latest
    <2>6. AtMostOneLatest' /\ AtMostOnePublished'
      BY <2>5 DEF RolesInv, AtMostOneLatest, AtMostOnePublished, AtMostOne, Latest, Published
    <2>7. stage[w] = "retiring"
      BY <1>8 DEF RetirePublished
    <2>8. FindsAreFresh(w)'
      BY <1>0, <1>4, <2>5 DEF FindsAreFresh
    <2>9. \A u \in Published' : u \in Versions /\ u # v /\ u \in Published
      BY <2>5 DEF Published
    <2>10. \A u \in Latest' : u \in Latest
      BY <2>5 DEF Latest
    <2>11. RevisionIsSound(w)'
      BY <1>0, <1>4, <2>7, <2>9, <2>10 DEF RevisionIsSound
    <2>12. WriteIsSound(w)' /\ HeirIsSound(w)'
      BY <1>0, <1>4, <1>6, <2>7 DEF WriteIsSound, HeirIsSound
    <2> QED BY <1>1, <1>5, <2>5, <2>6, <2>8, <2>11, <2>12, StepKeepsRoles DEF Underway
  <1> QED BY <1>7, <1>8

LEMMA InsertKeepsRoles ==
    ASSUME TypeOK, RolesInv, NEW w \in Writers, InsertRevision(w)
    PROVE  RolesInv'
  <1>0. /\ FindsAreFresh(w) /\ RevisionIsSound(w)
        /\ stage[w] \in {"clearing", "retiring"}
        /\ plan[w].kind = "revise"
        /\ found[w] = NoRows
    BY DEF RolesInv, Underway, InsertRevision, FoundAll
  <1>1. \A o \in Writers : o # w => stage[o] = "idle"
    BY <1>0, Alone DEF RolesInv
  <1>2. Underway(w)' /\ OthersWait(w)
    BY FinishIsSound DEF InsertRevision, Succeed, Fail
  <1>3. PICK i \in Versions : i = plan[w].id
    BY DEF TypeOK, Plans
  <1>4. CASE Present(i)
    BY <1>1, <1>2, <1>3, <1>4, SameRowsKeepRoles DEF InsertRevision
  <1>5. CASE ~Present(i)
    <2>1. PICK d \in Data : d = plan[w].entry
      BY DEF TypeOK, Plans
    <2>2. rows' = [rows EXCEPT ![i] = EntryToRow(d)]
      BY <1>3, <1>5, <2>1 DEF InsertRevision
    <2>3. \A v \in Versions : found[w][v] = NoRow
      BY <1>0 DEF NoRows
    <2>4. Latest = {}
      BY <1>0, <2>3 DEF RevisionIsSound, Latest
    <2>5. d.published => Published = {}
      <3>1. stage[w] = "clearing" => ~d.published
        BY <2>1 DEF InsertRevision
      <3> QED BY <1>0, <2>3, <3>1 DEF RevisionIsSound, Published
    <2>6. FlagsOK(EntryToRow(d)) /\ EntryToRow(d).isLatest = d.latest /\ EntryToRow(d).isPublished = d.published
      BY <1>0, <2>1 DEF FlagsOK, EntryToRow, RevisionIsSound
    <2>7. \A u \in Versions : rows'[u] = IF u = i THEN EntryToRow(d) ELSE rows[u]
      BY <2>2 DEF TypeOK, Table
    <2>8. RowsAgree'
      BY <2>6, <2>7 DEF RolesInv, RowsAgree, Present
    <2>9. \A u \in Latest' : u = i
      BY <2>4, <2>7 DEF Latest, Present
    <2>10. \A u \in Published' : IF d.published THEN u = i ELSE u \in Published
      BY <2>5, <2>6, <2>7 DEF Published, Present
    <2>11. AtMostOneLatest' /\ AtMostOnePublished'
      BY <2>9, <2>10 DEF RolesInv, AtMostOneLatest, AtMostOnePublished, AtMostOne
    <2> QED BY <1>1, <1>2, <2>8, <2>11, StepKeepsRoles
  <1> QED BY <1>4, <1>5

LEMMA ReadFlagsKeepsRoles ==
    ASSUME TypeOK, RolesInv, NEW w \in Writers, ReadFlags(w)
    PROVE  RolesInv'
  <1>0. /\ FindsAreFresh(w) /\ RevisionIsSound(w) /\ WriteIsSound(w) /\ HeirIsSound(w)
        /\ stage[w] \in {"flags", "retiring"}
        /\ rows' = rows /\ found' = found
    BY DEF RolesInv, Underway, ReadFlags
  <1>1. \A o \in Writers : o # w => stage[o] = "idle"
    BY <1>0, Alone DEF RolesInv
  <1>2. PICK p \in Plans : p = plan[w]
    BY DEF TypeOK
  <1>3. p.id \in Versions /\ p.entry \in Data
    BY DEF Plans
  <1>4. /\ stage'[w] = "writing"
        /\ plan'[w] = [p EXCEPT !.entry = FlagsRead(p)]
        /\ OthersWait(w)
    BY <1>2 DEF ReadFlags, TypeOK, OthersWait
  <1>5. plan'[w].kind = p.kind /\ plan'[w].id = p.id /\ plan'[w].heir = p.heir
        /\ plan'[w].entry = FlagsRead(p)
    BY <1>4 DEF Plans
  <1>6. /\ FlagsRead(p).status = p.entry.status
        /\ Present(p.id) => FlagsRead(p).latest = rows[p.id].isLatest
        /\ p.kind = "publish" => FlagsRead(p).published = TRUE
        /\ p.kind = "unpublish" => FlagsRead(p).published = FALSE
        /\ p.kind = "update" /\ Present(p.id) => FlagsRead(p).published = rows[p.id].isPublished
    BY <1>3 DEF FlagsRead, Data
  <1>7. p.kind \in {"update", "unpublish"} \/ (p.kind = "publish" /\ Published = {})
    BY <1>0, <1>2 DEF ReadFlags, RevisionIsSound, WriteIsSound, FoundAll, NoRows, Published
  <1>8. p.kind = "update" /\ Present(p.id) => rows[p.id].isPublished = (p.entry.status = "published")
    <2>1. p.kind = "update" => stage[w] = "flags"
      BY <1>0, <1>2 DEF ReadFlags
    <2> QED BY <1>0, <1>2, <1>3, <2>1 DEF WriteIsSound, RolesInv, RowsAgree, FlagsOK
  <1>9. Published' = Published /\ (Present(p.id)' <=> Present(p.id))
    BY <1>0 DEF Published, Present
  <1>10. FindsAreFresh(w)'
    BY <1>0, <1>4 DEF FindsAreFresh
  <1>11. RevisionIsSound(w)'
    BY <1>4, <1>5, <1>7 DEF RevisionIsSound
  <1>12. p.heir = 0
    BY <1>0, <1>2 DEF HeirIsSound
  <1>13. HeirIsSound(w)'
    BY <1>4, <1>5, <1>12 DEF HeirIsSound
  <1>14. (p.kind = "publish" => p.entry.status = "published") /\ (p.kind = "unpublish" => p.entry.status # "published")
    BY <1>0, <1>2 DEF WriteIsSound
  <1>15. p.kind = "update" /\ Present(p.id) => p.entry.status = rows[p.id].data.status
    <2>1. p.kind = "update" => stage[w] = "flags"
      BY <1>0, <1>2 DEF ReadFlags
    <2> QED BY <1>0, <1>2, <2>1 DEF WriteIsSound
  <1>16. PICK e \in Data : e = FlagsRead(p)
    BY FlagsReadTypes
  <1>17. Present(p.id) => /\ e.published = (e.status = "published")
                          /\ e.latest = rows'[p.id].isLatest
                          /\ p.kind = "update" => e.published = rows'[p.id].isPublished
    BY <1>0, <1>6, <1>7, <1>8, <1>14, <1>16
  <1>18. p.kind = "update" /\ Present(p.id) => e.status = rows'[p.id].data.status
    BY <1>0, <1>6, <1>15, <1>16
  <1>19. (p.kind = "publish" => e.status = "published") /\ (p.kind = "unpublish" => e.status # "published")
    BY <1>6, <1>14, <1>16
  <1>20. Present(plan[w].id)' => Present(p.id)
    BY <1>0, <1>5 DEF Present
  <1>21. WriteIsSound(w)'
    BY <1>4, <1>5, <1>7, <1>9, <1>16, <1>17, <1>18, <1>19, <1>20 DEF WriteIsSound
  <1> QED BY <1>0, <1>1, <1>4, <1>10, <1>11, <1>13, <1>21, SameRowsKeepRoles DEF Underway

LEMMA WriteKeepsRoles ==
    ASSUME TypeOK, RolesInv, NEW w \in Writers, WriteRevision(w)
    PROVE  RolesInv'
  <1>0. /\ FindsAreFresh(w) /\ RevisionIsSound(w) /\ WriteIsSound(w) /\ HeirIsSound(w)
        /\ stage[w] = "writing"
    BY DEF RolesInv, Underway, WriteRevision
  <1>1. \A o \in Writers : o # w => stage[o] = "idle"
    BY <1>0, Alone DEF RolesInv
  <1>2. PICK p \in Plans : p = plan[w]
    BY DEF TypeOK
  <1>3. p.id \in Versions /\ p.entry \in Data
    BY DEF Plans
  <1> DEFINE row == [rows[p.id] EXCEPT
                       !.isPublished = IF p.kind = "update" THEN @ ELSE p.entry.published,
                       !.wbyDeleted = p.entry.deleted,
                       !.data = p.entry]
  <1>4. UpdateRow(p.id, row)
    BY <1>2 DEF WriteRevision
  <1>5. Present(p.id) =>
          /\ p.entry.latest = rows[p.id].isLatest
          /\ p.entry.published = (p.entry.status = "published")
          /\ p.kind = "update" => p.entry.published = rows[p.id].isPublished
    BY <1>0, <1>2 DEF WriteIsSound
  <1>6. Present(p.id) => /\ row \in Row
                         /\ FlagsOK(row)
                         /\ row.isLatest = rows[p.id].isLatest
                         /\ row.isPublished = p.entry.published
    <2>1. Present(p.id) => rows[p.id] \in Row
      BY <1>3, PresentRow DEF TypeOK
    <2> QED BY <1>3, <1>5, <2>1 DEF FlagsOK, Row, Data
  <1> HIDE DEF row
  <1>7. /\ RowsAgree'
        /\ \A u \in Versions : u # p.id => /\ (u \in Latest' <=> u \in Latest)
                                           /\ (u \in Published' <=> u \in Published)
        /\ p.id \in Latest' <=> p.id \in Latest
        /\ p.id \in Published' <=> Present(p.id) /\ p.entry.published
    BY <1>3, <1>4, <1>6, UpdateKeepsFlags DEF RolesInv, Latest
  <1>8. AtMostOneLatest'
    BY <1>7 DEF RolesInv, AtMostOneLatest, AtMostOne, Latest
  <1>9. \/ p.kind = "publish" /\ Published = {}
        \/ p.kind = "unpublish" /\ (Present(p.id) => ~p.entry.published)
        \/ p.kind = "update" /\ (p.id \in Published' <=> p.id \in Published)
    BY <1>0, <1>2, <1>3, <1>5, <1>7 DEF WriteIsSound, Published
  <1>10. AtMostOnePublished'
    BY <1>7, <1>9 DEF RolesInv, AtMostOnePublished, AtMostOne, Published
  <1>11. OthersWait(w) /\ Underway(w)'
    <2>1. CASE p.entry.latest
      BY <1>2, <2>1, FinishIsSound DEF WriteRevision, GotoOrSucceed, Succeed
    <2>2. CASE ~p.entry.latest
      <3>1. Goto(w, "sync") /\ found' = [found EXCEPT ![w] = NoRows] /\ "sync" \in Stages
        BY <1>2, <2>2 DEF WriteRevision, GotoOrSucceed, Stages
      <3>2. stage'[w] = "sync" /\ plan' = plan /\ OthersWait(w) /\ found'[w] = NoRows
        BY <3>1, GotoWaits DEF TypeOK
      <3>3. FindsAreFresh(w)'
        BY <3>2 DEF FindsAreFresh, NoRows
      <3>4. RevisionIsSound(w)' /\ WriteIsSound(w)' /\ HeirIsSound(w)'
        BY <1>0, <3>2 DEF RevisionIsSound, WriteIsSound, HeirIsSound
      <3> QED BY <3>2, <3>3, <3>4 DEF Underway
    <2> QED BY <2>1, <2>2
  <1> QED BY <1>1, <1>7, <1>8, <1>10, <1>11, StepKeepsRoles

LEMMA SyncKeepsRoles ==
    ASSUME TypeOK, RolesInv, NEW w \in Writers, NEW v \in Versions, SyncLatest(w, v)
    PROVE  RolesInv'
  <1>0. FindsAreFresh(w) /\ stage[w] = "syncing" /\ found[w][v] # NoRow
    BY DEF RolesInv, Underway, SyncLatest
  <1>1. \A o \in Writers : o # w => stage[o] = "idle"
    BY <1>0, Alone DEF RolesInv
  <1>2. found[w][v] = rows[v] /\ Present(v)
    BY <1>0 DEF FindsAreFresh, Present
  <1>3. rows[v] \in Row /\ rows[v].data \in Data /\ FlagsOK(rows[v])
    BY <1>2, PresentRow DEF TypeOK, RolesInv, RowsAgree
  <1> DEFINE d == Synced(plan[w], rows[v].data)
  <1>4. d \in Data
    BY <1>3, SyncedTypes DEF TypeOK
  <1>5. /\ d.latest = rows[v].data.latest /\ d.published = rows[v].data.published
        /\ d.deleted = rows[v].data.deleted /\ d.status = rows[v].data.status
    BY <1>3 DEF Synced, Data
  <1>6. UpdateRow(v, [rows[v] EXCEPT !.data = d]) /\ Finish(w)
    BY <1>2 DEF SyncLatest, Succeed
  <1> HIDE DEF d
  <1>7. /\ [rows[v] EXCEPT !.data = d] \in Row
        /\ FlagsOK([rows[v] EXCEPT !.data = d])
        /\ [rows[v] EXCEPT !.data = d].isLatest = rows[v].isLatest
        /\ [rows[v] EXCEPT !.data = d].isPublished = rows[v].isPublished
    BY <1>3, <1>4, <1>5 DEF FlagsOK, Row
  <1>8. /\ RowsAgree'
        /\ \A u \in Versions : /\ (u \in Latest' <=> u \in Latest)
                               /\ (u \in Published' <=> u \in Published)
    BY <1>2, <1>6, <1>7, UpdateKeepsFlags DEF RolesInv, Latest, Published
  <1>9. AtMostOneLatest' /\ AtMostOnePublished'
    BY <1>8 DEF RolesInv, AtMostOneLatest, AtMostOnePublished, AtMostOne, Latest, Published
  <1> QED BY <1>1, <1>6, <1>8, <1>9, FinishIsSound, StepKeepsRoles

LEMMA EraseKeepsRoles ==
    ASSUME TypeOK, RolesInv, NEW w \in Writers, EraseRevision(w)
    PROVE  RolesInv'
  <1>0. /\ FindsAreFresh(w) /\ RevisionIsSound(w) /\ WriteIsSound(w) /\ HeirIsSound(w)
        /\ stage[w] = "erasing"
    BY DEF RolesInv, Underway, EraseRevision
  <1>1. \A o \in Writers : o # w => stage[o] = "idle"
    BY <1>0, Alone DEF RolesInv
  <1>2. PICK p \in Plans : p = plan[w]
    BY DEF TypeOK
  <1>3. p.id \in Versions
    BY DEF Plans
  <1>4. rows' = [rows EXCEPT ![p.id] = NoRow]
    BY <1>2 DEF EraseRevision
  <1>5. \A u \in Versions : rows'[u] = IF u = p.id THEN NoRow ELSE rows[u]
    BY <1>3, <1>4 DEF TypeOK, Table
  <1>6. RowsAgree'
    BY <1>5 DEF RolesInv, RowsAgree, Present
  <1>7. \A u \in Versions : /\ u \in Latest' => u \in Latest /\ u # p.id
                            /\ u \in Published' => u \in Published
    BY <1>5 DEF Latest, Published, Present
  <1>8. AtMostOneLatest' /\ AtMostOnePublished'
    BY <1>7 DEF RolesInv, AtMostOneLatest, AtMostOnePublished, AtMostOne, Latest, Published
  <1>9. OthersWait(w) /\ Underway(w)'
    <2> DEFINE clears == p.entry.status = "published"
               g == IF clears THEN "patch" ELSE "promoting"
    <2>1. GotoOrSucceed(w, clears \/ p.heir # 0, g)
      BY <1>2 DEF EraseRevision
    <2>2. CASE ~(clears \/ p.heir # 0)
      BY <2>1, <2>2, FinishIsSound DEF GotoOrSucceed, Succeed
    <2>3. CASE clears \/ p.heir # 0
      <3>1. Goto(w, g) /\ found' = [found EXCEPT ![w] = NoRows] /\ g \in Stages
        BY <2>1, <2>3 DEF GotoOrSucceed, Stages
      <3>2. g \in {"patch", "promoting"} /\ (g = "promoting" => p.heir # 0)
        BY <2>3
      <3> HIDE DEF g
      <3>3. stage'[w] = g /\ plan' = plan /\ OthersWait(w) /\ found'[w] = NoRows
        BY <3>1, GotoWaits DEF TypeOK
      <3>4. FindsAreFresh(w)'
        BY <3>2, <3>3 DEF FindsAreFresh, NoRows
      <3>5. RevisionIsSound(w)' /\ WriteIsSound(w)'
        BY <1>0, <3>2, <3>3 DEF RevisionIsSound, WriteIsSound
      <3>6. p.heir # 0 => p.heir \in Versions /\ p.heir # p.id /\ Latest \subseteq {p.id}
                          /\ rows'[p.heir] = rows[p.heir] /\ Latest' = {}
        BY <1>0, <1>2, <1>5, <1>7 DEF HeirIsSound, Latest
      <3>7. HeirIsSound(w)'
        BY <1>0, <1>2, <3>2, <3>3, <3>6 DEF HeirIsSound, Present
      <3> QED BY <3>3, <3>4, <3>5, <3>7 DEF Underway
    <2> QED BY <2>2, <2>3
  <1> QED BY <1>1, <1>6, <1>8, <1>9, StepKeepsRoles

LEMMA PromoteKeepsRoles ==
    ASSUME TypeOK, RolesInv, NEW w \in Writers, PromotePrevious(w)
    PROVE  RolesInv'
  <1>0. HeirIsSound(w) /\ stage[w] = "promoting"
    BY DEF RolesInv, Underway, PromotePrevious
  <1>1. \A o \in Writers : o # w => stage[o] = "idle"
    BY <1>0, Alone DEF RolesInv
  <1>2. PICK p \in Plans : p = plan[w]
    BY DEF TypeOK
  <1>3. /\ p.heir \in Versions
        /\ Present(p.heir)
        /\ p.heirEntry.published = (p.heirEntry.status = "published")
        /\ p.heirEntry.published = rows[p.heir].isPublished
        /\ Latest = {}
    BY <1>0, <1>2 DEF HeirIsSound
  <1>4. p.heirEntry \in Data
    BY DEF Plans
  <1> DEFINE row == EntryToRow(p.heirEntry)
  <1>5. row \in Row /\ FlagsOK(row) /\ row.isPublished = rows[p.heir].isPublished
    BY <1>3, <1>4, RowOfEntry DEF EntryToRow, FlagsOK
  <1>6. UpdateRow(p.heir, row) /\ Finish(w)
    BY <1>2 DEF PromotePrevious, Succeed
  <1> HIDE DEF row
  <1>7. /\ RowsAgree'
        /\ \A u \in Versions : u # p.heir => /\ (u \in Latest' <=> u \in Latest)
                                             /\ (u \in Published' <=> u \in Published)
        /\ p.heir \in Published' <=> p.heir \in Published
    BY <1>3, <1>5, <1>6, UpdateKeepsFlags DEF RolesInv, Published
  <1>8. \A u \in Latest' : u = p.heir
    BY <1>3, <1>7 DEF Latest
  <1>9. AtMostOneLatest' /\ AtMostOnePublished'
    BY <1>7, <1>8 DEF RolesInv, AtMostOneLatest, AtMostOnePublished, AtMostOne, Published
  <1> QED BY <1>1, <1>6, <1>7, <1>9, FinishIsSound, StepKeepsRoles

LEMMA PatchKeepsRoles ==
    ASSUME TypeOK, RolesInv, NEW w \in Writers, PatchAll(w)
    PROVE  RolesInv'
  <1>0. /\ FindsAreFresh(w) /\ RevisionIsSound(w) /\ WriteIsSound(w) /\ HeirIsSound(w)
        /\ stage[w] = "patching"
    BY DEF RolesInv, Underway, PatchAll
  <1>1. \A o \in Writers : o # w => stage[o] = "idle"
    BY <1>0, Alone DEF RolesInv
  <1>2. CASE \E v \in Versions : Present(v) /\ found[w][v] = NoRow
    BY <1>1, <1>2, FinishIsSound, SameRowsKeepRoles DEF PatchAll, Fail
  <1>3. CASE ~\E v \in Versions : Present(v) /\ found[w][v] = NoRow
    <2>1. \A v \in Versions : rows'[v] = IF Present(v) THEN PatchedRow(w, v) ELSE NoRow
      BY <1>3 DEF PatchAll
    <2>2. ASSUME NEW v \in Versions, Present(v)
          PROVE  /\ PatchedRow(w, v) \in Row
                 /\ FlagsOK(PatchedRow(w, v))
                 /\ PatchedRow(w, v).isLatest = rows[v].isLatest
                 /\ PatchedRow(w, v).isPublished = rows[v].isPublished
      <3>1. found[w][v] = rows[v] /\ found[w][v] # NoRow
        BY <1>0, <1>3, <2>2 DEF FindsAreFresh
      <3>2. rows[v] \in Row /\ rows[v].data \in Data /\ FlagsOK(rows[v])
        BY <2>2, PresentRow DEF TypeOK, RolesInv, RowsAgree
      <3>3. PatchedRow(w, v) \in Row
        BY <2>2, <3>1, PatchedTypes
      <3> DEFINE k == plan[w].kind
                 d == Patched(k, rows[v].data)
                 b == CASE k = "bin" -> TRUE
                        [] k = "restore" -> FALSE
                        [] OTHER -> rows[v].wbyDeleted
      <3>4. PatchedRow(w, v) = [rows[v] EXCEPT !.wbyDeleted = b, !.data = d]
        BY <3>1, <3>2 DEF PatchedRow, Row
      <3>5. /\ d.latest = rows[v].data.latest /\ d.published = rows[v].data.published
            /\ d.status = rows[v].data.status /\ d.deleted = b
        BY <3>2 DEF Patched, FlagsOK, Data
      <3> HIDE DEF b, d
      <3>6. /\ PatchedRow(w, v).data = d /\ PatchedRow(w, v).wbyDeleted = b
            /\ PatchedRow(w, v).isLatest = rows[v].isLatest
            /\ PatchedRow(w, v).isPublished = rows[v].isPublished
        BY <3>2, <3>4 DEF Row
      <3> QED BY <3>2, <3>3, <3>5, <3>6 DEF FlagsOK
    <2>3. \A v \in Versions : (Present(v)' <=> Present(v))
      BY <2>1, <2>2, NoRowIsNoRow DEF Present
    <2>4. RowsAgree'
      BY <2>1, <2>2, <2>3 DEF RowsAgree
    <2>5. \A v \in Versions : /\ (v \in Latest' <=> v \in Latest)
                              /\ (v \in Published' <=> v \in Published)
                              /\ Present(v) => rows'[v].isPublished = rows[v].isPublished
      BY <2>1, <2>2, <2>3 DEF Latest, Published
    <2>6. AtMostOneLatest' /\ AtMostOnePublished'
      BY <2>5 DEF RolesInv, AtMostOneLatest, AtMostOnePublished, AtMostOne, Latest, Published
    <2>7. OthersWait(w) /\ Underway(w)'
      <3>1. PICK p \in Plans : p = plan[w]
        BY DEF TypeOK
      <3>2. GotoOrSucceed(w, p.heir # 0, "promoting")
        BY <1>3, <3>1 DEF PatchAll
      <3>3. CASE p.heir = 0
        BY <3>2, <3>3, FinishIsSound DEF GotoOrSucceed, Succeed
      <3>4. CASE p.heir # 0
        <4>1. Goto(w, "promoting") /\ found' = [found EXCEPT ![w] = NoRows] /\ "promoting" \in Stages
          BY <3>2, <3>4 DEF GotoOrSucceed, Stages
        <4>2. stage'[w] = "promoting" /\ plan' = plan /\ OthersWait(w) /\ found'[w] = NoRows
          BY <4>1, GotoWaits DEF TypeOK
        <4>3. FindsAreFresh(w)'
          BY <4>2 DEF FindsAreFresh, NoRows
        <4>4. RevisionIsSound(w)' /\ WriteIsSound(w)'
          BY <1>0, <4>2 DEF RevisionIsSound, WriteIsSound
        <4>5. /\ p.heir \in Versions /\ p.heir # p.id /\ Present(p.heir) /\ Latest \subseteq {}
              /\ p.heirEntry.published = (p.heirEntry.status = "published")
              /\ p.heirEntry.published = rows[p.heir].isPublished
          BY <1>0, <3>1, <3>4 DEF HeirIsSound
        <4>6. Latest' = {} /\ Present(p.heir)' /\ rows'[p.heir].isPublished = rows[p.heir].isPublished
          BY <2>3, <2>5, <4>5 DEF Latest
        <4>7. Present(plan[w].heir)'
          BY <3>1, <4>2, <4>6 DEF Present
        <4>8. HeirIsSound(w)'
          BY <3>1, <3>4, <4>2, <4>5, <4>6, <4>7 DEF HeirIsSound
        <4> QED BY <4>2, <4>3, <4>4, <4>8 DEF Underway
      <3> QED BY <3>3, <3>4
    <2> QED BY <1>1, <2>4, <2>6, <2>7, StepKeepsRoles
  <1> QED BY <1>2, <1>3

LEMMA EndKeepsRoles ==
    ASSUME TypeOK, RolesInv, NEW w \in Writers, Empty(w) \/ BreakOff(w)
    PROVE  RolesInv'
  <1>1. stage[w] # "idle" /\ Finish(w)
    BY DEF Empty, BreakOff, Succeed, Fail
  <1>2. \A o \in Writers : o # w => stage[o] = "idle"
    BY <1>1, Alone DEF RolesInv
  <1>3. CASE Empty(w)
    <2>1. \A v \in Versions : ~Present(v)'
      BY <1>3 DEF Empty, NoRows, Present
    <2>2. RowsAgree' /\ AtMostOneLatest' /\ AtMostOnePublished'
      BY <2>1 DEF RowsAgree, AtMostOneLatest, AtMostOnePublished, AtMostOne, Latest, Published
    <2> QED BY <1>1, <1>2, <2>2, FinishIsSound, StepKeepsRoles
  <1>4. CASE BreakOff(w)
    BY <1>1, <1>2, <1>4, FinishIsSound, SameRowsKeepRoles DEF BreakOff
  <1> QED BY <1>3, <1>4

LEMMA StartDeleteRevisionKeepsRoles ==
    ASSUME TypeOK, RolesInv, OneAtATime, NEW w \in Writers, NEW v \in Versions,
           StartDeleteRevision(w, v)
    PROVE  RolesInv'
  <1>1. PICK l \in Latest : \E heir \in Heirs(v, l) :
          LET whole == v = l /\ heir = 0
              gone == rows[v].data
          IN  /\ MayStart(w)
              /\ stage' = [stage EXCEPT ![w] = IF whole THEN "emptying" ELSE "erasing"]
              /\ plan' = [plan EXCEPT ![w] =
                   [kind |-> IF whole THEN "delete" ELSE "deleteRevision",
                    id |-> v, entry |-> gone, heir |-> heir,
                    heirEntry |-> IF heir = 0 THEN Blank
                                  ELSE [rows[heir].data EXCEPT
                                         !.latest = TRUE,
                                         !.live = IF gone.status = "published" THEN 0
                                                  ELSE gone.live]]]
              /\ UNCHANGED <<rows, found, intact, straight>>
    BY DEF StartDeleteRevision
  <1>2. PICK heir \in Heirs(v, l) :
          LET whole == v = l /\ heir = 0
              gone == rows[v].data
          IN  /\ MayStart(w)
              /\ stage' = [stage EXCEPT ![w] = IF whole THEN "emptying" ELSE "erasing"]
              /\ plan' = [plan EXCEPT ![w] =
                   [kind |-> IF whole THEN "delete" ELSE "deleteRevision",
                    id |-> v, entry |-> gone, heir |-> heir,
                    heirEntry |-> IF heir = 0 THEN Blank
                                  ELSE [rows[heir].data EXCEPT
                                         !.latest = TRUE,
                                         !.live = IF gone.status = "published" THEN 0
                                                  ELSE gone.live]]]
              /\ UNCHANGED <<rows, found, intact, straight>>
    BY <1>1
  <1> DEFINE n == IF rows[v].data.status = "published" THEN 0 ELSE rows[v].data.live
             e == IF heir = 0 THEN Blank
                  ELSE [rows[heir].data EXCEPT !.latest = TRUE, !.live = n]
  <1>3. \A o \in Writers : stage[o] = "idle"
    BY <1>2 DEF MayStart, Quiet
  <1>4. /\ stage'[w] \in {"emptying", "erasing"}
        /\ heir # 0 => stage'[w] = "erasing"
        /\ plan'[w].kind \in {"delete", "deleteRevision"}
        /\ plan'[w].id = v /\ plan'[w].heir = heir /\ plan'[w].heirEntry = e
        /\ rows' = rows /\ found' = found
    BY <1>2 DEF TypeOK
  <1> HIDE DEF n
  <1>5. OthersWait(w)
    BY <1>2 DEF TypeOK, OthersWait
  <1>6. found'[w] = NoRows
    BY <1>3, <1>4 DEF RolesInv, Underway, FindsAreFresh
  <1>7. FindsAreFresh(w)'
    BY <1>4, <1>6 DEF FindsAreFresh, NoRows
  <1>8. heir # 0 => v = l /\ heir \in Versions /\ heir < v /\ Present(heir)
    BY HeirIsThere
  <1>9. heir # 0 => /\ e.published = (e.status = "published")
                    /\ e.published = rows[heir].isPublished
    <2>1. heir # 0 => rows[heir].data \in Data /\ FlagsOK(rows[heir])
      BY <1>8, PresentRow DEF TypeOK, RolesInv, RowsAgree
    <2> QED BY <2>1 DEF FlagsOK, Data
  <1>10. heir # 0 => heir # v
    BY <1>8 DEF Versions
  <1>11. heir # 0 => Latest \subseteq {v}
    BY <1>8 DEF RolesInv, AtMostOneLatest, AtMostOne
  <1> HIDE DEF e
  <1>12. Latest' = Latest /\ (heir # 0 => Present(heir)')
    BY <1>4, <1>8 DEF Latest, Present
  <1>13. Present(plan[w].heir)' <=> rows'[heir] # NoRow
    BY <1>4 DEF Present
  <1>14. HeirIsSound(w)'
    BY <1>4, <1>8, <1>9, <1>10, <1>11, <1>12, <1>13 DEF HeirIsSound, Present
  <1>15. RevisionIsSound(w)' /\ WriteIsSound(w)'
    BY <1>4 DEF RevisionIsSound, WriteIsSound
  <1> QED BY <1>3, <1>4, <1>5, <1>7, <1>14, <1>15, SameRowsKeepRoles DEF Underway

LEMMA RolesKept ==
    ASSUME OneAtATime, TypeOK, RolesInv, [Next]_vars
    PROVE  RolesInv'
  <1>1. CASE UNCHANGED vars
    <2>1. AtMostOneLatest' /\ AtMostOnePublished' /\ RowsAgree' /\ Turn'
      BY <1>1 DEF vars, RolesInv, AtMostOneLatest, AtMostOnePublished, RowsAgree, Turn, Latest, Published,
                  Present
    <2>2. ASSUME NEW w \in Writers PROVE Underway(w)'
      BY <1>1 DEF vars, RolesInv, Underway, FindsAreFresh, RevisionIsSound, WriteIsSound, HeirIsSound,
                  Latest, Published, Present
    <2> QED BY <2>1, <2>2 DEF RolesInv
  <1>2. CASE Next
    <2>1. PICK w \in Writers :
        \/ \E s \in Statuses : CreateEntry(w, s)
        \/ \E v \in Versions :
            \/ \E s \in Statuses : StartRevision(w, v, s)
            \/ ClearLatest(w, v)
            \/ RetirePublished(w, v)
            \/ StartUpdate(w, v)
            \/ StartPublish(w, v)
            \/ StartUnpublish(w, v)
            \/ SyncLatest(w, v)
            \/ StartDeleteRevision(w, v)
        \/ FindOldLatest(w)
        \/ FindOldPublished(w)
        \/ InsertRevision(w)
        \/ ReadFlags(w)
        \/ WriteRevision(w)
        \/ FindLatest(w)
        \/ EraseRevision(w)
        \/ PromotePrevious(w)
        \/ StartDelete(w)
        \/ Empty(w)
        \/ StartMoveToBin(w)
        \/ StartRestore(w)
        \/ FindAll(w)
        \/ PatchAll(w)
        \/ BreakOff(w)
      BY <1>2 DEF Next
    <2>2. 1 \in Versions /\ "draft" \in Statuses
      BY DEF Versions, Statuses
    <2> QED BY <2>1, <2>2, StartsKeepRoles, CreateKeepsRoles, FindKeepsRoles, ClearKeepsRoles,
               InsertKeepsRoles, ReadFlagsKeepsRoles, WriteKeepsRoles, SyncKeepsRoles, EraseKeepsRoles,
               PromoteKeepsRoles, PatchKeepsRoles, EndKeepsRoles, StartDeleteRevisionKeepsRoles
  <1> QED BY <1>1, <1>2

LEMMA RolesInitially == Init => RolesInv
  <1> SUFFICES ASSUME Init PROVE RolesInv
    OBVIOUS
  <1>1. \A v \in Versions : ~Present(v)
    BY DEF Init, NoRows, Present
  <1>2. \A w \in Writers : stage[w] = "idle" /\ plan[w] = NoPlan /\ found[w] = NoRows
    BY DEF Init
  <1>3. AtMostOneLatest /\ AtMostOnePublished /\ RowsAgree /\ Turn
    BY <1>1, <1>2 DEF AtMostOneLatest, AtMostOnePublished, AtMostOne, RowsAgree, Turn, Latest, Published
  <1>4. ASSUME NEW w \in Writers PROVE Underway(w)
    BY <1>2 DEF Underway, FindsAreFresh, RevisionIsSound, WriteIsSound, HeirIsSound, NoPlan, NoRows
  <1> QED BY <1>3, <1>4 DEF RolesInv

LEMMA RolesAlways ==
    ASSUME OneAtATime
    PROVE  Spec => [](TypeOK /\ RolesInv)
  <1>1. Init => TypeOK /\ RolesInv
    BY InitialTypes, RolesInitially
  <1>2. TypeOK /\ RolesInv /\ [Next]_vars => (TypeOK /\ RolesInv)'
    BY OneAtATime, TypesKept, RolesKept
  <1> QED BY <1>1, <1>2, PTL DEF Spec

\* As long as one operation follows the other: the flags are exclusive, and in step.
LEMMA RolesInTurn ==
    ASSUME OneAtATime
    PROVE  Spec => [](AtMostOneLatest /\ AtMostOnePublished /\ FlagsAgree)
  <1>1. RolesInv => AtMostOneLatest /\ AtMostOnePublished /\ FlagsAgree
    BY DEF RolesInv, RowsAgree, FlagsOK, FlagsAgree
  <1>2. Spec => [](TypeOK /\ RolesInv)
    BY OneAtATime, RolesAlways
  <1> QED BY <1>1, <1>2, PTL

-----------------------------------------------------------------------------
(* The newest revision.  No row is above the latest one, wherever an       *)
(* operation breaks off; and there is a latest one but while it is being   *)
(* replaced.                                                               *)

SomeIsLatest == (\E v \in Versions : Present(v)) => Latest # {}

\* w has taken the flag from the latest row, and has not given it to the next.
HandsOver(w) ==
    \/ stage[w] = "clearing"
    \/ stage[w] = "retiring" /\ plan[w].kind = "revise"
    \/ stage[w] # "erasing" /\ plan[w].heir # 0

NextIsOnTop(w) ==
    LET p == plan[w]
    IN  /\ stage[w] # "idle" /\ p.kind = "revise" => \A v \in Versions : Present(v) => v < p.id
        /\ p.heir # 0 =>
             /\ p.heirEntry.latest
             /\ \A v \in Versions : Present(v) /\ (stage[w] = "erasing" => v # p.id) => v <= p.heir
        /\ stage[w] = "erasing" /\ p.heir = 0 => p.id \notin Latest

OrderInv ==
    /\ TopIsLatest
    /\ \A w \in Writers : NextIsOnTop(w)
    /\ intact => SomeIsLatest \/ \E w \in Writers : HandsOver(w)

(* The live pointer.                                                       *)

PointerIsTrue == \A l \in Latest : rows[l].data.live \in LiveVersion

\* The published revision and the pointer are not changed by the same statement.
Moves(w) ==
    \/ plan[w].kind = "publish" /\ stage[w] \in {"retiring", "writing", "sync", "syncing"}
    \/ plan[w].kind = "unpublish" /\ stage[w] \in {"sync", "syncing"}
    \/ plan[w].kind = "deleteRevision" /\ stage[w] \in {"patch", "patching"}

\* What w means to write, or has written, of the pointer and the published revision.
RevisePoints(w) ==
    LET p == plan[w]
    IN  stage[w] # "idle" /\ p.kind = "revise" =>
             stage[w] # "retiring" /\ ~p.entry.published /\ p.entry.live \in LiveVersion

WritePoints(w) ==
    LET p == plan[w]
    IN  /\ p.kind = "update" /\ stage[w] \in {"flags", "writing"} =>
             Present(p.id) /\ p.entry.live = rows[p.id].data.live
        /\ p.kind = "publish" /\ stage[w] \in {"oldPublished", "retiring", "writing"} =>
             Present(p.id) /\ p.entry.live = p.id
        /\ p.kind = "unpublish" /\ stage[w] \in {"flags", "writing"} =>
             p.id \in Published /\ p.entry.live = 0

SyncPoints(w) ==
    LET p == plan[w]
    IN  /\ p.kind = "publish" /\ stage[w] \in {"sync", "syncing"} => p.id \in Published
        /\ p.kind = "unpublish" /\ stage[w] \in {"sync", "syncing"} => Published = {}
        /\ stage[w] = "syncing" => \A v \in Versions : found[w][v] # NoRow => v \in Latest

HeirPoints(w) ==
    LET p == plan[w]
    IN  /\ stage[w] = "erasing" =>
             /\ p.kind = "deleteRevision"
             /\ Present(p.id)
             /\ p.entry.status = rows[p.id].data.status
             /\ p.heir # 0 => IF p.entry.status = "published" THEN p.heirEntry.live = 0
                              ELSE p.heirEntry.live \in LiveVersion
        /\ stage[w] \in {"patch", "patching"} => p.kind \in {"bin", "restore", "deleteRevision"}
        /\ stage[w] \in {"patch", "patching"} /\ p.kind = "deleteRevision" => Published = {}
        /\ stage[w] # "erasing" /\ p.heir # 0 => p.heirEntry.live \in LiveVersion

PointsTruly(w) == RevisePoints(w) /\ WritePoints(w) /\ SyncPoints(w) /\ HeirPoints(w)

LiveInv ==
    intact /\ straight =>
        /\ \A w \in Writers : PointsTruly(w)
        /\ PointerIsTrue \/ \E w \in Writers : Moves(w)

-----------------------------------------------------------------------------
(* What each statement does, in terms of the fields of the rows.           *)

\* The step is of w alone, and nobody else is under way.
AloneSteps(w) ==
    /\ OthersWait(w)
    /\ \A o \in Writers : o # w => stage[o] = "idle"

LEMMA WentOrSucceeded ==
    ASSUME TypeOK, NEW w \in Writers, NEW more, NEW g \in Stages, GotoOrSucceed(w, more, g)
    PROVE  /\ OthersWait(w)
           /\ intact' = intact
           /\ more => stage'[w] = g /\ plan' = plan /\ found'[w] = NoRows
           /\ ~more => stage'[w] = "idle"
  <1>1. CASE more
    <2>1. Goto(w, g) /\ found' = [found EXCEPT ![w] = NoRows]
      BY <1>1 DEF GotoOrSucceed
    <2>2. /\ found'[w] = NoRows
          /\ \A o \in Writers : o # w => found'[o] = found[o]
      BY <2>1 DEF TypeOK
    <2> QED BY <1>1, <2>1, <2>2, GotoWaits DEF Goto
  <1>2. CASE ~more
    <2>1. Finish(w) /\ intact' = intact
      BY <1>2 DEF GotoOrSucceed, Succeed
    <2>2. stage'[w] = "idle"
      BY <2>1 DEF Finish, TypeOK
    <2> QED BY <1>2, <2>1, <2>2, FinishIsSound
  <1> QED BY <1>1, <1>2

LEMMA Finished ==
    ASSUME TypeOK, NEW w \in Writers, Finish(w)
    PROVE  OthersWait(w) /\ stage'[w] = "idle"
  <1>1. stage'[w] = "idle"
    BY DEF Finish, TypeOK
  <1> QED BY <1>1, FinishIsSound

LEMMA Started ==
    ASSUME TypeOK, OneAtATime, NEW w \in Writers, NEW k, NEW v, NEW d, NEW g,
           Start(w, k, v, d, g)
    PROVE  /\ AloneSteps(w)
           /\ stage[w] = "idle"
           /\ rows' = rows /\ found' = found /\ intact' = intact
           /\ stage'[w] = g
           /\ plan'[w].kind = k /\ plan'[w].id = v /\ plan'[w].entry = d /\ plan'[w].heir = 0
  BY DEF Start, MayStart, Quiet, TypeOK, AloneSteps, OthersWait

\* The heir u that the deletion of revision v of w has chosen.
Chose(w, v, u) ==
    /\ plan[w].heir = u /\ u # v
    /\ v \in Latest
    /\ Present(u)
    /\ \A t \in Versions : t < v /\ Present(t) => t <= u
    /\ plan[w].heirEntry.latest
    /\ plan[w].heirEntry.deleted = rows[u].data.deleted
    /\ plan[w].heirEntry.live = IF rows[v].data.status = "published" THEN 0 ELSE rows[v].data.live

LEMMA DeletionStarted ==
    ASSUME TypeOK, RolesInv, OneAtATime, NEW w \in Writers, NEW v \in Versions,
           StartDeleteRevision(w, v)
    PROVE  /\ AloneSteps(w)
           /\ stage[w] = "idle"
           /\ rows' = rows /\ found' = found /\ intact' = intact /\ straight' = straight
           /\ Present(v)
           /\ plan'[w].id = v /\ plan'[w].entry = rows[v].data
           /\ \/ stage'[w] = "emptying" /\ plan'[w].kind = "delete" /\ plan'[w].heir = 0
              \/ /\ stage'[w] = "erasing" /\ plan'[w].kind = "deleteRevision"
                 /\ plan'[w].heir = 0 => v \notin Latest
           /\ plan'[w].heir # 0 => \E u \in Versions : Chose(w, v, u)'
  <1>1. PICK l \in Latest : \E heir \in Heirs(v, l) :
          LET whole == v = l /\ heir = 0
              gone == rows[v].data
          IN  /\ MayStart(w)
              /\ Shown(v)
              /\ stage' = [stage EXCEPT ![w] = IF whole THEN "emptying" ELSE "erasing"]
              /\ plan' = [plan EXCEPT ![w] =
                   [kind |-> IF whole THEN "delete" ELSE "deleteRevision",
                    id |-> v, entry |-> gone, heir |-> heir,
                    heirEntry |-> IF heir = 0 THEN Blank
                                  ELSE [rows[heir].data EXCEPT
                                         !.latest = TRUE,
                                         !.live = IF gone.status = "published" THEN 0
                                                  ELSE gone.live]]]
              /\ UNCHANGED <<rows, found, intact, straight>>
    BY DEF StartDeleteRevision
  <1>2. PICK heir \in Heirs(v, l) :
          LET whole == v = l /\ heir = 0
              gone == rows[v].data
          IN  /\ MayStart(w)
              /\ Shown(v)
              /\ stage' = [stage EXCEPT ![w] = IF whole THEN "emptying" ELSE "erasing"]
              /\ plan' = [plan EXCEPT ![w] =
                   [kind |-> IF whole THEN "delete" ELSE "deleteRevision",
                    id |-> v, entry |-> gone, heir |-> heir,
                    heirEntry |-> IF heir = 0 THEN Blank
                                  ELSE [rows[heir].data EXCEPT
                                         !.latest = TRUE,
                                         !.live = IF gone.status = "published" THEN 0
                                                  ELSE gone.live]]]
              /\ UNCHANGED <<rows, found, intact, straight>>
    BY <1>1
  <1> DEFINE n == IF rows[v].data.status = "published" THEN 0 ELSE rows[v].data.live
             e == IF heir = 0 THEN Blank
                  ELSE [rows[heir].data EXCEPT !.latest = TRUE, !.live = n]
  <1>3. Present(v) /\ \A o \in Writers : stage[o] = "idle"
    BY <1>2 DEF MayStart, Quiet, Shown
  <1>4. /\ IF v = l /\ heir = 0 THEN stage'[w] = "emptying" /\ plan'[w].kind = "delete"
           ELSE stage'[w] = "erasing" /\ plan'[w].kind = "deleteRevision"
        /\ plan'[w].id = v /\ plan'[w].entry = rows[v].data
        /\ plan'[w].heir = heir /\ plan'[w].heirEntry = e
        /\ rows' = rows /\ found' = found /\ intact' = intact /\ straight' = straight
    BY <1>2 DEF TypeOK
  <1> HIDE DEF n
  <1>5. AloneSteps(w)
    BY <1>2, <1>3 DEF TypeOK, AloneSteps, OthersWait
  <1>6. heir # 0 => /\ v = l /\ heir \in Versions /\ heir < v /\ Present(heir)
                    /\ \A t \in Versions : t < v /\ Present(t) => t <= heir
    BY HeirIsThere
  <1>7. heir # 0 => heir # v
    BY <1>6 DEF Versions
  <1>8. v # l => v \notin Latest
    BY DEF RolesInv, AtMostOneLatest, AtMostOne
  <1>9. heir # 0 => e.latest = TRUE /\ e.deleted = rows[heir].data.deleted /\ e.live = n
    <2>1. heir # 0 => rows[heir].data \in Data
      BY <1>6, PresentRow DEF TypeOK
    <2> QED BY <2>1 DEF Data
  <1> HIDE DEF e
  <1>10. heir # 0 => Chose(w, v, heir)'
    <2>1. SUFFICES ASSUME heir # 0 PROVE Chose(w, v, heir)'
      OBVIOUS
    <2>2. n = IF rows'[v].data.status = "published" THEN 0 ELSE rows'[v].data.live
      BY <1>4 DEF n
    <2>3. v \in Latest' /\ Present(heir)'
      BY <1>4, <1>6, <2>1 DEF Latest, Present
    <2>4. \A t \in Versions : t < v /\ Present(t)' => t <= heir
      BY <1>4, <1>6, <2>1 DEF Present
    <2> QED BY <1>4, <1>6, <1>7, <1>9, <2>1, <2>2, <2>3, <2>4 DEF Chose
  <1> QED BY <1>3, <1>4, <1>5, <1>6, <1>8, <1>10

LEMMA Created ==
    ASSUME TypeOK, NEW w \in Writers, NEW s \in Statuses, CreateEntry(w, s)
    PROVE  /\ stage' = stage /\ plan' = plan /\ found' = found
           /\ intact' = intact /\ straight' = straight
           /\ \A o \in Writers : stage[o] = "idle"
           /\ 1 \in Versions
           /\ rows'[1] # NoRow
           /\ rows'[1].isLatest = TRUE
           /\ rows'[1].isPublished = (s = "published")
           /\ rows'[1].data.live = IF s = "published" THEN 1 ELSE 0
           /\ \A v \in Versions : v # 1 => rows'[v] = NoRow
  <1> DEFINE d == [latest |-> TRUE, published |-> s = "published", deleted |-> FALSE,
                   status |-> s, locked |-> s # "draft",
                   live |-> IF s = "published" THEN 1 ELSE 0]
  <1>1. d \in Data
    BY DEF Data
  <1>2. EntryToRow(d) \in Row
    BY <1>1, RowOfEntry
  <1>3. /\ EntryToRow(d).isLatest = TRUE
        /\ EntryToRow(d).isPublished = (s = "published")
        /\ EntryToRow(d).data.live = IF s = "published" THEN 1 ELSE 0
    BY DEF EntryToRow
  <1> HIDE DEF d
  <1>4. rows = NoRows /\ rows' = [rows EXCEPT ![1] = EntryToRow(d)]
    BY DEF CreateEntry, d
  <1>5. 1 \in Versions
    BY DEF Versions
  <1>6. rows'[1] = EntryToRow(d) /\ \A v \in Versions : v # 1 => rows'[v] = NoRow
    BY <1>4, <1>5 DEF TypeOK, Table, NoRows
  <1> QED BY <1>2, <1>3, <1>5, <1>6 DEF CreateEntry, Quiet

\* The steps that read only.
LEMMA FoundSome ==
    ASSUME TypeOK, RolesInv, NEW w \in Writers,
           \/ FindOldLatest(w) \/ FindOldPublished(w) \/ FindLatest(w) \/ FindAll(w)
    PROVE  /\ AloneSteps(w)
           /\ rows' = rows /\ intact' = intact /\ straight' = straight
           /\ \/ stage'[w] = "idle" /\ stage[w] \in {"sync", "patch"} /\ plan[w].heir = 0 /\ Latest = {}
              \/ plan' = plan /\ stage[w] = "oldLatest" /\ stage'[w] = "clearing"
              \/ /\ plan' = plan /\ stage'[w] = "retiring"
                 /\ \/ stage[w] = "oldPublished" /\ plan[w].kind = "publish"
                    \/ stage[w] = "clearing" /\ plan[w].kind = "revise" /\ plan[w].entry.published
              \/ /\ plan' = plan /\ stage[w] = "sync" /\ stage'[w] = "syncing"
                 /\ \A v \in Versions : found'[w][v] # NoRow => v \in Latest
              \/ plan' = plan /\ stage[w] = "patch" /\ stage'[w] = "patching"
  <1> USE DEF Stages
  <1>0. /\ RevisionIsSound(w) /\ HeirIsSound(w)
        /\ stage[w] # "idle"
        /\ rows' = rows /\ straight' = straight
    BY DEF RolesInv, Underway, FindOldLatest, FindOldPublished, FindLatest, FindAll
  <1>1. \A o \in Writers : o # w => stage[o] = "idle"
    BY <1>0, Alone DEF RolesInv
  <1>2. ASSUME NEW vs, NEW g \in Stages, Find(w, vs), Goto(w, g)
        PROVE  /\ stage'[w] = g
               /\ plan' = plan /\ intact' = intact
               /\ AloneSteps(w)
               /\ \A v \in Versions : found'[w][v] = IF v \in vs THEN rows[v] ELSE NoRow
    <2>1. /\ \A v \in Versions : found'[w][v] = IF v \in vs THEN rows[v] ELSE NoRow
          /\ \A o \in Writers : o # w => found'[o] = found[o]
      BY <1>2, OldFinds DEF TypeOK
    <2>2. stage'[w] = g /\ plan' = plan /\ OthersWait(w)
      BY <1>2, <2>1, GotoWaits
    <2> QED BY <1>1, <1>2, <2>1, <2>2 DEF AloneSteps, Goto
  <1>3. CASE FindOldLatest(w)
    <2>1. Find(w, Latest) /\ Goto(w, "clearing") /\ stage[w] = "oldLatest"
      BY <1>3 DEF FindOldLatest
    <2>2. stage'[w] = "clearing" /\ plan' = plan /\ intact' = intact /\ AloneSteps(w)
      BY <1>2, <2>1
    <2> QED BY <1>0, <2>1, <2>2
  <1>4. CASE FindOldPublished(w)
    <2>1. Find(w, Published) /\ Goto(w, "retiring")
      BY <1>4 DEF FindOldPublished
    <2>2. stage'[w] = "retiring" /\ plan' = plan /\ intact' = intact /\ AloneSteps(w)
      BY <1>2, <2>1
    <2>3. \/ stage[w] = "oldPublished" /\ plan[w].kind = "publish"
          \/ stage[w] = "clearing" /\ plan[w].kind = "revise" /\ plan[w].entry.published
      BY <1>0, <1>4 DEF FindOldPublished, RevisionIsSound
    <2> QED BY <1>0, <2>2, <2>3
  <1>5. CASE FindLatest(w)
    <2>0. stage[w] = "sync" /\ plan[w].heir = 0
      BY <1>0, <1>5 DEF FindLatest, HeirIsSound
    <2>1. CASE Latest = {}
      <3>1. Finish(w) /\ intact' = intact
        BY <1>5, <2>1 DEF FindLatest, Succeed
      <3> QED BY <1>0, <1>1, <2>0, <2>1, <3>1, Finished DEF AloneSteps
    <2>2. CASE Latest # {}
      <3>1. PICK l \in Latest : Find(w, {l}) /\ Goto(w, "syncing")
        BY <1>5, <2>2 DEF FindLatest
      <3>2. /\ stage'[w] = "syncing" /\ plan' = plan /\ intact' = intact /\ AloneSteps(w)
            /\ \A v \in Versions : found'[w][v] = IF v \in {l} THEN rows[v] ELSE NoRow
        BY <1>2, <3>1
      <3> QED BY <1>0, <2>0, <3>2
    <2> QED BY <2>1, <2>2
  <1>6. CASE FindAll(w)
    <2>1. CASE rows = NoRows
      <3>1. plan[w].heir = 0
        BY <1>0, <2>1 DEF HeirIsSound, Present, NoRows
      <3>2. GotoOrSucceed(w, plan[w].heir # 0, "promoting") /\ stage[w] = "patch"
        BY <1>6, <2>1 DEF FindAll
      <3>3. Latest = {}
        BY <2>1 DEF Latest, Present, NoRows
      <3> QED BY <1>0, <1>1, <3>1, <3>2, <3>3, WentOrSucceeded DEF AloneSteps
    <2>2. CASE rows # NoRows
      <3>1. Find(w, Versions) /\ Goto(w, "patching") /\ stage[w] = "patch"
        BY <1>6, <2>2 DEF FindAll
      <3>2. stage'[w] = "patching" /\ plan' = plan /\ intact' = intact /\ AloneSteps(w)
        BY <1>2, <3>1
      <3> QED BY <1>0, <3>1, <3>2
    <2> QED BY <2>1, <2>2
  <1> QED BY <1>3, <1>4, <1>5, <1>6

LEMMA Cleared ==
    ASSUME TypeOK, RolesInv, NEW w \in Writers, NEW v \in Versions,
           ClearLatest(w, v) \/ RetirePublished(w, v)
    PROVE  /\ AloneSteps(w)
           /\ stage[w] \in {"clearing", "retiring"}
           /\ stage' = stage /\ plan' = plan /\ intact' = intact /\ straight' = straight
           /\ Present(v)
           /\ \A u \in Versions : u # v => rows'[u] = rows[u]
           /\ rows'[v] # NoRow
           /\ rows'[v].isLatest = (stage[w] = "retiring" /\ rows[v].isLatest)
           /\ rows'[v].isPublished = (stage[w] = "clearing" /\ rows[v].isPublished)
           /\ rows'[v].wbyDeleted = rows[v].wbyDeleted
           /\ rows'[v].data.live = rows[v].data.live
  <1>0. FindsAreFresh(w) /\ stage[w] \in {"clearing", "retiring"} /\ found[w][v] # NoRow
    BY DEF RolesInv, Underway, ClearLatest, RetirePublished
  <1>1. \A o \in Writers : o # w => stage[o] = "idle"
    BY <1>0, Alone DEF RolesInv
  <1>2. found[w][v] = rows[v] /\ Present(v)
    BY <1>0 DEF FindsAreFresh, Present
  <1> DEFINE d == found[w][v].data
  <1>3. rows[v] \in Row /\ d \in Data /\ rows[v].data = d /\ "unpublished" \in Statuses
    BY <1>2, PresentRow DEF TypeOK, Statuses
  <1> HIDE DEF d
  <1>4. /\ \A o \in Writers : o # w => found'[o] = found[o]
        /\ stage' = stage /\ plan' = plan /\ intact' = intact /\ straight' = straight
    BY FoundEmptied DEF ClearLatest, RetirePublished
  <1>5. AloneSteps(w)
    BY <1>1, <1>4 DEF AloneSteps, OthersWait
  <1>6. CASE ClearLatest(w, v)
    <2> DEFINE e == [d EXCEPT !.latest = FALSE]
               row == [rows[v] EXCEPT !.isLatest = FALSE, !.data = e]
    <2>1. UpdateRow(v, row) /\ stage[w] = "clearing"
      BY <1>6 DEF ClearLatest, d
    <2>2. e \in Data /\ e.live = d.live
      <3>1. e \in Data
        BY <1>3, DataUpdates
      <3>2. e.live = d.live
        BY <1>3 DEF Data
      <3> QED BY <3>1, <3>2
    <2> HIDE DEF e
    <2>3. /\ row \in Row /\ row.isLatest = FALSE /\ row.isPublished = rows[v].isPublished
          /\ row.wbyDeleted = rows[v].wbyDeleted /\ row.data = e
          /\ rows[v].isPublished \in BOOLEAN
      BY <1>3, <2>2 DEF Row
    <2> HIDE DEF row
    <2>4. rows'[v] = row /\ \A u \in Versions : u # v => rows'[u] = rows[u]
      BY <1>2, <2>1, <2>3, UpdatedTable DEF TypeOK
    <2>5. row # NoRow
      BY <2>3
    <2>6. rows'[v].isPublished = (stage[w] = "clearing" /\ rows[v].isPublished)
      BY <2>1, <2>3, <2>4
    <2>7. rows'[v].isLatest = (stage[w] = "retiring" /\ rows[v].isLatest)
      BY <2>1, <2>3, <2>4
    <2> QED BY <1>0, <1>2, <1>3, <1>4, <1>5, <2>2, <2>3, <2>4, <2>5, <2>6, <2>7
  <1>7. CASE RetirePublished(w, v)
    <2> DEFINE e == [d EXCEPT !.published = FALSE, !.status = "unpublished"]
               row == [rows[v] EXCEPT !.isPublished = FALSE, !.data = e]
    <2>1. UpdateRow(v, row) /\ stage[w] = "retiring"
      BY <1>7 DEF RetirePublished, d
    <2>2. e \in Data /\ e.live = d.live
      <3>1. e \in Data
        BY <1>3, DataUpdates
      <3>2. e.live = d.live
        BY <1>3 DEF Data
      <3> QED BY <3>1, <3>2
    <2> HIDE DEF e
    <2>3. /\ row \in Row /\ row.isPublished = FALSE /\ row.isLatest = rows[v].isLatest
          /\ row.wbyDeleted = rows[v].wbyDeleted /\ row.data = e
          /\ rows[v].isLatest \in BOOLEAN
      BY <1>3, <2>2 DEF Row
    <2> HIDE DEF row
    <2>4. rows'[v] = row /\ \A u \in Versions : u # v => rows'[u] = rows[u]
      BY <1>2, <2>1, <2>3, UpdatedTable DEF TypeOK
    <2>5. row # NoRow
      BY <2>3
    <2>6. rows'[v].isPublished = (stage[w] = "clearing" /\ rows[v].isPublished)
      BY <2>1, <2>3, <2>4
    <2>7. rows'[v].isLatest = (stage[w] = "retiring" /\ rows[v].isLatest)
      BY <2>1, <2>3, <2>4
    <2> QED BY <1>0, <1>2, <1>3, <1>4, <1>5, <2>2, <2>3, <2>4, <2>5, <2>6, <2>7
  <1> QED BY <1>6, <1>7

LEMMA Inserted ==
    ASSUME TypeOK, RolesInv, NEW w \in Writers, InsertRevision(w)
    PROVE  /\ AloneSteps(w)
           /\ stage[w] # "idle" /\ stage'[w] = "idle" /\ straight' = straight
           /\ plan[w].kind = "revise" /\ plan[w].entry.latest
           /\ \/ rows' = rows /\ intact' = FALSE /\ Present(plan[w].id)
              \/ /\ intact' = intact
                 /\ Latest = {} /\ ~Present(plan[w].id)
                 /\ rows'[plan[w].id] # NoRow
                 /\ rows'[plan[w].id].isLatest = plan[w].entry.latest
                 /\ rows'[plan[w].id].isPublished = plan[w].entry.published
                 /\ rows'[plan[w].id].wbyDeleted = plan[w].entry.deleted
                 /\ rows'[plan[w].id].data.live = plan[w].entry.live
                 /\ \A u \in Versions : u # plan[w].id => rows'[u] = rows[u]
  <1>0. /\ FindsAreFresh(w) /\ RevisionIsSound(w)
        /\ stage[w] \in {"clearing", "retiring"}
        /\ plan[w].kind = "revise"
        /\ found[w] = NoRows
        /\ straight' = straight
    BY DEF RolesInv, Underway, InsertRevision, FoundAll
  <1>1. \A o \in Writers : o # w => stage[o] = "idle"
    BY <1>0, Alone DEF RolesInv
  <1>2. AloneSteps(w) /\ stage'[w] = "idle"
    BY <1>1, Finished DEF InsertRevision, Succeed, Fail, AloneSteps
  <1>3. PICK p \in Plans : p = plan[w]
    BY DEF TypeOK
  <1>4. p.id \in Versions /\ p.entry \in Data
    BY DEF Plans
  <1>5. CASE Present(p.id)
    BY <1>0, <1>2, <1>3, <1>5 DEF InsertRevision, Fail, RevisionIsSound
  <1>6. CASE ~Present(p.id)
    <2>1. rows' = [rows EXCEPT ![p.id] = EntryToRow(p.entry)] /\ intact' = intact
      BY <1>3, <1>6 DEF InsertRevision, Succeed
    <2>2. Latest = {}
      BY <1>0 DEF RevisionIsSound, Latest, NoRows
    <2>3. rows'[p.id] = EntryToRow(p.entry) /\ \A u \in Versions : u # p.id => rows'[u] = rows[u]
      BY <1>4, <2>1 DEF TypeOK, Table
    <2>4. EntryToRow(p.entry) \in Row
      BY <1>4, RowOfEntry
    <2>5. /\ EntryToRow(p.entry).isLatest = p.entry.latest
          /\ EntryToRow(p.entry).isPublished = p.entry.published
          /\ EntryToRow(p.entry).wbyDeleted = p.entry.deleted
          /\ EntryToRow(p.entry).data = p.entry
      BY DEF EntryToRow
    <2> QED BY <1>0, <1>2, <1>3, <1>6, <2>1, <2>2, <2>3, <2>4, <2>5 DEF RevisionIsSound
  <1> QED BY <1>5, <1>6

LEMMA FlagsWereRead ==
    ASSUME TypeOK, RolesInv, NEW w \in Writers, ReadFlags(w)
    PROVE  /\ AloneSteps(w)
           /\ rows' = rows /\ found' = found /\ intact' = intact /\ straight' = straight
           /\ stage'[w] = "writing"
           /\ \/ stage[w] = "flags" /\ plan[w].kind \in {"update", "unpublish"}
              \/ stage[w] = "retiring" /\ plan[w].kind = "publish"
           /\ plan'[w].kind = plan[w].kind /\ plan'[w].id = plan[w].id
           /\ plan'[w].heir = 0 /\ plan[w].heir = 0
           /\ plan'[w].entry.deleted = plan[w].entry.deleted
           /\ plan'[w].entry.live = plan[w].entry.live
  <1>0. /\ WriteIsSound(w) /\ HeirIsSound(w)
        /\ stage[w] \in {"flags", "retiring"}
        /\ rows' = rows /\ found' = found /\ intact' = intact /\ straight' = straight
    BY DEF RolesInv, Underway, ReadFlags
  <1>1. \A o \in Writers : o # w => stage[o] = "idle"
    BY <1>0, Alone DEF RolesInv
  <1>2. PICK p \in Plans : p = plan[w]
    BY DEF TypeOK
  <1>3. p.id \in Versions /\ p.entry \in Data
    BY DEF Plans
  <1>4. /\ stage'[w] = "writing"
        /\ plan'[w] = [p EXCEPT !.entry = FlagsRead(p)]
        /\ OthersWait(w)
    BY <1>2 DEF ReadFlags, TypeOK, OthersWait
  <1>5. plan'[w].kind = p.kind /\ plan'[w].id = p.id /\ plan'[w].heir = p.heir
        /\ plan'[w].entry = FlagsRead(p)
    BY <1>4 DEF Plans
  <1>6. FlagsRead(p).deleted = p.entry.deleted /\ FlagsRead(p).live = p.entry.live
    BY <1>3 DEF FlagsRead, Data
  <1>7. p.heir = 0
    BY <1>0, <1>2 DEF HeirIsSound
  <1>8. \/ stage[w] = "flags" /\ p.kind \in {"update", "unpublish"}
        \/ stage[w] = "retiring" /\ p.kind = "publish"
    BY <1>0, <1>2 DEF ReadFlags, WriteIsSound
  <1> QED BY <1>0, <1>1, <1>2, <1>4, <1>5, <1>6, <1>7, <1>8 DEF AloneSteps

LEMMA Written ==
    ASSUME TypeOK, RolesInv, NEW w \in Writers, WriteRevision(w), NEW p \in Plans, p = plan[w]
    PROVE  /\ AloneSteps(w)
           /\ stage[w] = "writing"
           /\ intact' = intact /\ straight' = straight
           /\ p.kind \in {"update", "publish", "unpublish"}
           /\ p.heir = 0
           /\ \/ p.entry.latest /\ stage'[w] = "idle"
              \/ ~p.entry.latest /\ stage'[w] = "sync" /\ plan' = plan /\ found'[w] = NoRows
           /\ p.kind = "publish" => Published = {}
           /\ \A u \in Versions : u # p.id => rows'[u] = rows[u]
           /\ ~Present(p.id) => rows'[p.id] = NoRow
           /\ Present(p.id) =>
                /\ rows'[p.id] # NoRow
                /\ rows'[p.id].isLatest = rows[p.id].isLatest
                /\ p.entry.latest = rows[p.id].isLatest
                /\ rows'[p.id].isPublished = p.entry.published
                /\ p.kind = "publish" => p.entry.published
                /\ p.kind = "unpublish" => ~p.entry.published
                /\ p.kind = "update" => rows'[p.id].isPublished = rows[p.id].isPublished
                /\ rows'[p.id].wbyDeleted = p.entry.deleted
                /\ rows'[p.id].data.live = p.entry.live
  <1>0. WriteIsSound(w) /\ HeirIsSound(w) /\ stage[w] = "writing" /\ straight' = straight
    BY DEF RolesInv, Underway, WriteRevision
  <1>1. \A o \in Writers : o # w => stage[o] = "idle"
    BY <1>0, Alone DEF RolesInv
  <1>2. p.id \in Versions /\ p.entry \in Data /\ p.heir = 0
    BY <1>0 DEF Plans, HeirIsSound
  <1> DEFINE row == [rows[p.id] EXCEPT
                       !.isPublished = IF p.kind = "update" THEN @ ELSE p.entry.published,
                       !.wbyDeleted = p.entry.deleted,
                       !.data = p.entry]
  <1>3. UpdateRow(p.id, row) /\ GotoOrSucceed(w, ~p.entry.latest, "sync") /\ "sync" \in Stages
    BY DEF WriteRevision, Stages
  <1>4. /\ p.kind \in {"update", "publish", "unpublish"}
        /\ p.kind = "publish" => Published = {} /\ p.entry.status = "published"
        /\ p.kind = "unpublish" => p.entry.status # "published"
        /\ Present(p.id) =>
             /\ p.entry.latest = rows[p.id].isLatest
             /\ p.entry.published = (p.entry.status = "published")
             /\ p.kind = "update" => p.entry.published = rows[p.id].isPublished
    BY <1>0 DEF WriteIsSound
  <1>5. Present(p.id) => /\ row \in Row
                         /\ row.isLatest = rows[p.id].isLatest
                         /\ row.isPublished = p.entry.published
                         /\ row.wbyDeleted = p.entry.deleted
                         /\ row.data = p.entry
    <2> DEFINE b == IF p.kind = "update" THEN rows[p.id].isPublished ELSE p.entry.published
    <2>1. Present(p.id) => rows[p.id] \in Row
      BY <1>2, PresentRow DEF TypeOK
    <2>2. Present(p.id) => b = p.entry.published /\ p.entry.published \in BOOLEAN /\ p.entry.deleted \in BOOLEAN
      BY <1>2, <1>4 DEF Data
    <2>3. Present(p.id) =>
            row = [rows[p.id] EXCEPT !.isPublished = b, !.wbyDeleted = p.entry.deleted, !.data = p.entry]
      BY <2>1 DEF Row
    <2> HIDE DEF b, row
    <2> QED BY <1>2, <1>4, <2>1, <2>2, <2>3 DEF Row
  <1> HIDE DEF row
  <1>6. /\ \A u \in Versions : u # p.id => rows'[u] = rows[u]
        /\ Present(p.id) => rows'[p.id] = row
        /\ ~Present(p.id) => rows'[p.id] = NoRow
    BY <1>2, <1>3, <1>5, UpdatedTable DEF TypeOK
  <1>7. /\ AloneSteps(w)
        /\ intact' = intact
        /\ \/ p.entry.latest /\ stage'[w] = "idle"
           \/ ~p.entry.latest /\ stage'[w] = "sync" /\ plan' = plan /\ found'[w] = NoRows
    BY <1>1, <1>3, WentOrSucceeded DEF AloneSteps
  <1>8. Present(p.id) => row # NoRow
    BY <1>5
  <1> QED BY <1>0, <1>2, <1>4, <1>5, <1>6, <1>7, <1>8

LEMMA SyncWritten ==
    ASSUME TypeOK, RolesInv, NEW w \in Writers, NEW v \in Versions, SyncLatest(w, v)
    PROVE  /\ AloneSteps(w)
           /\ stage[w] = "syncing" /\ stage'[w] = "idle"
           /\ intact' = intact /\ straight' = straight
           /\ found[w][v] # NoRow /\ Present(v)
           /\ \A u \in Versions : u # v => rows'[u] = rows[u]
           /\ rows'[v] # NoRow
           /\ rows'[v].isLatest = rows[v].isLatest
           /\ rows'[v].isPublished = rows[v].isPublished
           /\ rows'[v].wbyDeleted = rows[v].wbyDeleted
           /\ rows'[v].data.live = CASE plan[w].kind = "publish" -> plan[w].id
                                     [] plan[w].kind = "unpublish" -> 0
                                     [] OTHER -> rows[v].data.live
  <1>0. FindsAreFresh(w) /\ stage[w] = "syncing" /\ found[w][v] # NoRow /\ straight' = straight
    BY DEF RolesInv, Underway, SyncLatest
  <1>1. \A o \in Writers : o # w => stage[o] = "idle"
    BY <1>0, Alone DEF RolesInv
  <1>2. found[w][v] = rows[v] /\ Present(v)
    BY <1>0 DEF FindsAreFresh, Present
  <1>3. rows[v] \in Row /\ rows[v].data \in Data
    BY <1>2, PresentRow DEF TypeOK
  <1> DEFINE d == Synced(plan[w], rows[v].data)
  <1>4. d \in Data
    BY <1>3, SyncedTypes DEF TypeOK
  <1>5. d.live = CASE plan[w].kind = "publish" -> plan[w].id
                   [] plan[w].kind = "unpublish" -> 0
                   [] OTHER -> rows[v].data.live
    BY <1>3 DEF Synced, Data
  <1>6. UpdateRow(v, [rows[v] EXCEPT !.data = d]) /\ Finish(w) /\ intact' = intact
    BY <1>2 DEF SyncLatest, Succeed
  <1> HIDE DEF d
  <1>7. /\ [rows[v] EXCEPT !.data = d] \in Row
        /\ [rows[v] EXCEPT !.data = d].isLatest = rows[v].isLatest
        /\ [rows[v] EXCEPT !.data = d].isPublished = rows[v].isPublished
        /\ [rows[v] EXCEPT !.data = d].wbyDeleted = rows[v].wbyDeleted
        /\ [rows[v] EXCEPT !.data = d].data = d
    BY <1>3, <1>4 DEF Row
  <1>8. /\ \A u \in Versions : u # v => rows'[u] = rows[u]
        /\ rows'[v] = [rows[v] EXCEPT !.data = d]
    BY <1>2, <1>6, <1>7, UpdatedTable DEF TypeOK
  <1>9. AloneSteps(w) /\ stage'[w] = "idle"
    BY <1>1, <1>6, Finished DEF AloneSteps
  <1>10. rows'[v] # NoRow
    BY <1>7, <1>8
  <1> QED BY <1>0, <1>2, <1>5, <1>6, <1>7, <1>8, <1>9, <1>10

LEMMA Erased ==
    ASSUME TypeOK, RolesInv, NEW w \in Writers, EraseRevision(w), NEW p \in Plans, p = plan[w]
    PROVE  /\ AloneSteps(w)
           /\ stage[w] = "erasing"
           /\ intact' = intact /\ straight' = straight
           /\ \A u \in Versions : rows'[u] = IF u = p.id THEN NoRow ELSE rows[u]
           /\ IF p.entry.status = "published"
              THEN stage'[w] = "patch" /\ plan' = plan
              ELSE IF p.heir # 0 THEN stage'[w] = "promoting" /\ plan' = plan
              ELSE stage'[w] = "idle"
           /\ p.heir # 0 => /\ Latest \subseteq {p.id}
                            /\ p.heir \in Versions /\ p.heir # p.id
  <1>0. HeirIsSound(w) /\ stage[w] = "erasing" /\ straight' = straight
    BY DEF RolesInv, Underway, EraseRevision
  <1>1. \A o \in Writers : o # w => stage[o] = "idle"
    BY <1>0, Alone DEF RolesInv
  <1>2. p.id \in Versions
    BY DEF Plans
  <1>3. \A u \in Versions : rows'[u] = IF u = p.id THEN NoRow ELSE rows[u]
    BY <1>2 DEF EraseRevision, TypeOK, Table
  <1> DEFINE clears == p.entry.status = "published"
             g == IF clears THEN "patch" ELSE "promoting"
  <1>4. GotoOrSucceed(w, clears \/ p.heir # 0, g) /\ g \in Stages
    BY DEF EraseRevision, Stages
  <1>5. /\ AloneSteps(w)
        /\ intact' = intact
        /\ (clears \/ p.heir # 0) => stage'[w] = g /\ plan' = plan
        /\ ~(clears \/ p.heir # 0) => stage'[w] = "idle"
    BY <1>1, <1>4, WentOrSucceeded DEF AloneSteps
  <1>6. p.heir # 0 => /\ Latest \subseteq {p.id}
                      /\ p.heir \in Versions /\ p.heir # p.id
    BY <1>0 DEF HeirIsSound
  <1> QED BY <1>0, <1>3, <1>5, <1>6

LEMMA Promoted ==
    ASSUME TypeOK, RolesInv, NEW w \in Writers, PromotePrevious(w), NEW p \in Plans, p = plan[w]
    PROVE  /\ AloneSteps(w)
           /\ stage[w] = "promoting" /\ stage'[w] = "idle"
           /\ intact' = intact /\ straight' = straight
           /\ Latest = {}
           /\ p.heir # 0 /\ p.heir \in Versions /\ p.heir # p.id /\ Present(p.heir)
           /\ \A u \in Versions : u # p.heir => rows'[u] = rows[u]
           /\ rows'[p.heir] # NoRow
           /\ rows'[p.heir].isLatest = p.heirEntry.latest
           /\ rows'[p.heir].isPublished = rows[p.heir].isPublished
           /\ rows'[p.heir].wbyDeleted = p.heirEntry.deleted
           /\ rows'[p.heir].data.live = p.heirEntry.live
  <1>0. HeirIsSound(w) /\ stage[w] = "promoting" /\ straight' = straight
    BY DEF RolesInv, Underway, PromotePrevious
  <1>1. \A o \in Writers : o # w => stage[o] = "idle"
    BY <1>0, Alone DEF RolesInv
  <1>2. /\ p.heir # 0 /\ p.heir \in Versions /\ p.heir # p.id
        /\ Present(p.heir)
        /\ p.heirEntry.published = rows[p.heir].isPublished
        /\ Latest = {}
    BY <1>0 DEF HeirIsSound
  <1>3. p.heirEntry \in Data
    BY DEF Plans
  <1> DEFINE row == EntryToRow(p.heirEntry)
  <1>4. /\ row \in Row /\ row.isLatest = p.heirEntry.latest /\ row.isPublished = p.heirEntry.published
        /\ row.wbyDeleted = p.heirEntry.deleted /\ row.data = p.heirEntry
    BY <1>3, RowOfEntry DEF EntryToRow
  <1>5. UpdateRow(p.heir, row) /\ Finish(w) /\ intact' = intact
    BY DEF PromotePrevious, Succeed
  <1> HIDE DEF row
  <1>6. rows'[p.heir] = row /\ \A u \in Versions : u # p.heir => rows'[u] = rows[u]
    BY <1>2, <1>4, <1>5, UpdatedTable DEF TypeOK
  <1>7. AloneSteps(w) /\ stage'[w] = "idle"
    BY <1>1, <1>5, Finished DEF AloneSteps
  <1>8. row # NoRow
    BY <1>4
  <1> QED BY <1>0, <1>2, <1>4, <1>5, <1>6, <1>7, <1>8

\* What the UPDATE of w has made of each row.
EveryRowPatched(w) ==
    LET kind == plan[w].kind
    IN  \A v \in Versions :
            /\ ~Present(v) => rows'[v] = NoRow
            /\ Present(v) =>
                 /\ rows'[v] # NoRow
                 /\ rows'[v].isLatest = rows[v].isLatest
                 /\ rows'[v].isPublished = rows[v].isPublished
                 /\ rows'[v].wbyDeleted = CASE kind = "bin" -> TRUE
                                            [] kind = "restore" -> FALSE
                                            [] OTHER -> rows[v].wbyDeleted
                 /\ rows'[v].data.live = IF kind \in {"bin", "restore"} THEN rows[v].data.live ELSE 0

LEMMA AllPatched ==
    ASSUME TypeOK, RolesInv, NEW w \in Writers, PatchAll(w), NEW p \in Plans, p = plan[w]
    PROVE  /\ AloneSteps(w)
           /\ stage[w] = "patching" /\ straight' = straight
           /\ \/ rows' = rows /\ intact' = FALSE /\ stage'[w] = "idle"
              \/ /\ intact' = intact
                 /\ EveryRowPatched(w)
                 /\ IF p.heir # 0 THEN stage'[w] = "promoting" /\ plan' = plan ELSE stage'[w] = "idle"
  <1>0. FindsAreFresh(w) /\ stage[w] = "patching" /\ straight' = straight
    BY DEF RolesInv, Underway, PatchAll
  <1>1. \A o \in Writers : o # w => stage[o] = "idle"
    BY <1>0, Alone DEF RolesInv
  <1>2. CASE \E v \in Versions : Present(v) /\ found[w][v] = NoRow
    <2>1. Finish(w) /\ intact' = FALSE /\ rows' = rows
      BY <1>2 DEF PatchAll, Fail
    <2> QED BY <1>0, <1>1, <2>1, Finished DEF AloneSteps
  <1>3. CASE ~\E v \in Versions : Present(v) /\ found[w][v] = NoRow
    <2>1. \A v \in Versions : rows'[v] = IF Present(v) THEN PatchedRow(w, v) ELSE NoRow
      BY <1>3 DEF PatchAll
    <2>2. ASSUME NEW v \in Versions, Present(v)
          PROVE  /\ PatchedRow(w, v) # NoRow
                 /\ PatchedRow(w, v).isLatest = rows[v].isLatest
                 /\ PatchedRow(w, v).isPublished = rows[v].isPublished
                 /\ PatchedRow(w, v).wbyDeleted = CASE p.kind = "bin" -> TRUE
                                                 [] p.kind = "restore" -> FALSE
                                                 [] OTHER -> rows[v].wbyDeleted
                 /\ PatchedRow(w, v).data.live = IF p.kind \in {"bin", "restore"} THEN rows[v].data.live
                                                 ELSE 0
      <3>1. found[w][v] = rows[v] /\ found[w][v] # NoRow
        BY <1>0, <1>3, <2>2 DEF FindsAreFresh
      <3>2. rows[v] \in Row /\ rows[v].data \in Data
        BY <2>2, PresentRow DEF TypeOK
      <3>3. PatchedRow(w, v) # NoRow
        BY <2>2, <3>1, PatchedTypes
      <3> DEFINE d == Patched(p.kind, rows[v].data)
                 b == CASE p.kind = "bin" -> TRUE
                        [] p.kind = "restore" -> FALSE
                        [] OTHER -> rows[v].wbyDeleted
      <3>4. PatchedRow(w, v) = [rows[v] EXCEPT !.wbyDeleted = b, !.data = d]
        BY <3>1, <3>2 DEF PatchedRow, Row
      <3>5. d.live = IF p.kind \in {"bin", "restore"} THEN rows[v].data.live ELSE 0
        BY <3>2 DEF Patched, Data
      <3> HIDE DEF d
      <3>6. /\ PatchedRow(w, v).data = d /\ PatchedRow(w, v).wbyDeleted = b
            /\ PatchedRow(w, v).isLatest = rows[v].isLatest
            /\ PatchedRow(w, v).isPublished = rows[v].isPublished
        <4> HIDE DEF b
        <4> QED BY <3>2, <3>4 DEF Row
      <3> QED BY <3>3, <3>5, <3>6
    <2>3. GotoOrSucceed(w, p.heir # 0, "promoting") /\ "promoting" \in Stages
      BY <1>3 DEF PatchAll, Stages
    <2>4. /\ AloneSteps(w)
          /\ intact' = intact
          /\ IF p.heir # 0 THEN stage'[w] = "promoting" /\ plan' = plan ELSE stage'[w] = "idle"
      BY <1>1, <2>3, WentOrSucceeded DEF AloneSteps
    <2>5. EveryRowPatched(w)
      BY <2>1, <2>2 DEF EveryRowPatched
    <2> QED BY <1>0, <2>4, <2>5
  <1> QED BY <1>2, <1>3

LEMMA Ended ==
    ASSUME TypeOK, RolesInv, NEW w \in Writers, Empty(w) \/ BreakOff(w)
    PROVE  /\ AloneSteps(w)
           /\ stage[w] # "idle" /\ stage'[w] = "idle" /\ straight' = straight
           /\ \/ rows' = rows /\ intact' = FALSE
              \/ intact' = intact /\ \A v \in Versions : rows'[v] = NoRow
  <1>1. stage[w] # "idle" /\ Finish(w) /\ straight' = straight
    BY DEF Empty, BreakOff, Succeed, Fail
  <1>2. AloneSteps(w) /\ stage'[w] = "idle"
    BY <1>1, Alone, Finished DEF RolesInv, AloneSteps
  <1> QED BY <1>1, <1>2 DEF Empty, BreakOff, Succeed, Fail, NoRows

\* The steps of one request.
NextOf(w) ==
    \/ \E s \in Statuses : CreateEntry(w, s)
    \/ \E v \in Versions :
        \/ \E s \in Statuses : StartRevision(w, v, s)
        \/ ClearLatest(w, v)
        \/ RetirePublished(w, v)
        \/ StartUpdate(w, v)
        \/ StartPublish(w, v)
        \/ StartUnpublish(w, v)
        \/ SyncLatest(w, v)
        \/ StartDeleteRevision(w, v)
    \/ FindOldLatest(w) \/ FindOldPublished(w) \/ FindLatest(w) \/ FindAll(w)
    \/ InsertRevision(w)
    \/ ReadFlags(w)
    \/ WriteRevision(w)
    \/ EraseRevision(w) \/ PromotePrevious(w) \/ Empty(w) \/ PatchAll(w) \/ BreakOff(w)
    \/ StartDelete(w)
    \/ StartMoveToBin(w)
    \/ StartRestore(w)

LEMMA NextIsOfOne ==
    ASSUME Next
    PROVE  \E w \in Writers : NextOf(w)
  BY DEF Next, NextOf

\* What the requests that read first and write later start with.
LEMMA StartsSay ==
    ASSUME TypeOK, NEW w \in Writers, NEW v \in Versions, NEW s \in Statuses,
           \/ StartRevision(w, v, s) \/ StartUpdate(w, v) \/ StartPublish(w, v)
           \/ StartUnpublish(w, v) \/ StartDelete(w) \/ StartMoveToBin(w) \/ StartRestore(w)
    PROVE  \E k \in Kinds, u \in Versions, d \in Data, g \in Stages :
             /\ Start(w, k, u, d, g)
             /\ \/ /\ k = "revise" /\ g = "oldLatest"
                   /\ Shown(v)
                   /\ d.live = rows[v].data.live
                   /\ d.published = (s = "published") /\ d.status = s
                   /\ \E l \in Latest : /\ u = l + 1
                                        /\ straight' = (straight /\ v = l /\ s # "published")
                \/ /\ straight' = straight
                   /\ \/ /\ k = "update" /\ g = "flags" /\ Present(u)
                         /\ d.status = rows[u].data.status /\ d.live = rows[u].data.live
                      \/ /\ k = "publish" /\ g = "oldPublished" /\ Present(u)
                         /\ d.status = "published" /\ d.live = u
                      \/ /\ k = "unpublish" /\ g = "flags" /\ u \in Published
                         /\ d.status # "published" /\ d.live = 0
                      \/ k = "delete" /\ g = "emptying"
                      \/ k \in {"bin", "restore"} /\ g = "patch"
  <1> USE DEF Kinds, Stages
  <1>1. \A u \in Versions : Present(u) => rows[u].data \in Data
    BY PresentRow DEF TypeOK
  <1>2. CASE StartRevision(w, v, s)
    <2> DEFINE d == [rows[v].data EXCEPT !.latest = TRUE, !.published = (s = "published"),
                                         !.status = s, !.locked = (s # "draft")]
    <2>1. PICK l \in ShownLatest : /\ Shown(v)
                                   /\ l < MaxVersion
                                   /\ Start(w, "revise", l + 1, d, "oldLatest")
                                   /\ straight' = (straight /\ v = l /\ s # "published")
      BY <1>2 DEF StartRevision
    <2>2. rows[v].data \in Data
      BY <1>1, <2>1 DEF Shown
    <2>3. /\ d \in Data /\ d.published = (s = "published") /\ d.status = s
          /\ d.live = rows[v].data.live
      BY <2>2 DEF Data
    <2>4. l \in Latest /\ l + 1 \in Versions
      BY <2>1 DEF ShownLatest, Latest, Versions
    <2> HIDE DEF d
    <2>5. \E m \in Latest : l + 1 = m + 1 /\ straight' = (straight /\ v = m /\ s # "published")
      BY <2>1, <2>4
    <2> QED BY <2>1, <2>3, <2>4, <2>5
  <1>3. CASE StartUpdate(w, v)
    <2>1. Present(v) /\ Start(w, "update", v, rows[v].data, "flags") /\ straight' = straight
      BY <1>3 DEF StartUpdate, Shown
    <2>2. rows[v].data \in Data
      BY <1>1, <2>1
    <2> QED BY <2>1, <2>2
  <1>4. CASE StartPublish(w, v)
    <2> DEFINE d == [rows[v].data EXCEPT !.status = "published", !.locked = TRUE, !.live = v]
    <2>1. Present(v) /\ Start(w, "publish", v, d, "oldPublished") /\ straight' = straight
      BY <1>4 DEF StartPublish, Shown
    <2>2. rows[v].data \in Data /\ v \in 0..MaxVersion /\ "published" \in Statuses
      BY <1>1, <2>1 DEF Versions, Statuses
    <2>3. d \in Data
      BY <2>2, DataUpdates
    <2>4. d.status = "published" /\ d.live = v
      BY <2>2 DEF Data
    <2> HIDE DEF d
    <2> QED BY <2>1, <2>3, <2>4
  <1>5. CASE StartUnpublish(w, v)
    <2> DEFINE d == [rows[v].data EXCEPT !.status = "unpublished", !.live = 0]
    <2>1. v \in Published /\ Start(w, "unpublish", v, d, "flags") /\ straight' = straight
      BY <1>5 DEF StartUnpublish
    <2>2. rows[v].data \in Data /\ 0 \in 0..MaxVersion /\ "unpublished" \in Statuses
      BY <1>1, <2>1 DEF Published, Statuses
    <2>3. d \in Data
      BY <2>2, DataUpdates
    <2>4. d.status # "published" /\ d.live = 0
      BY <2>2 DEF Data
    <2> HIDE DEF d
    <2> QED BY <2>1, <2>3, <2>4
  <1>6. \A l \in Latest : l \in Versions /\ rows[l].data \in Data
    BY <1>1 DEF Latest
  <1>7. CASE StartDelete(w)
    BY <1>6, <1>7 DEF StartDelete
  <1>8. CASE StartMoveToBin(w)
    BY <1>6, <1>8 DEF StartMoveToBin, ShownLatest
  <1>9. CASE StartRestore(w)
    BY <1>6, <1>9 DEF StartRestore
  <1> QED BY <1>2, <1>3, <1>4, <1>5, <1>7, <1>8, <1>9

\* A request that is not under way holds nothing back and means to write nothing.
LEMMA IdleHoldsNothing ==
    ASSUME RolesInv, NEW w \in Writers, stage[w] = "idle"
    PROVE  plan[w].heir = 0 /\ ~HandsOver(w) /\ ~Moves(w)
  <1>1. plan[w].heir = 0
    BY DEF RolesInv, Underway, HeirIsSound
  <1> QED BY <1>1 DEF HandsOver, Moves

LEMMA IdleCarriesNothing ==
    ASSUME RolesInv', NEW w \in Writers, stage'[w] = "idle"
    PROVE  NextIsOnTop(w)' /\ PointsTruly(w)'
  <1>1. plan'[w].heir = 0
    BY DEF RolesInv, Underway, HeirIsSound
  <1>2. NextIsOnTop(w)'
    BY <1>1 DEF NextIsOnTop
  <1>3. RevisePoints(w)' /\ WritePoints(w)' /\ SyncPoints(w)' /\ HeirPoints(w)'
    BY <1>1 DEF RevisePoints, WritePoints, SyncPoints, HeirPoints
  <1> QED BY <1>2, <1>3 DEF PointsTruly

LEMMA OthersCarryNothing ==
    ASSUME RolesInv', NEW w \in Writers, AloneSteps(w), NEW o \in Writers, o # w
    PROVE  stage'[o] = "idle" /\ NextIsOnTop(o)' /\ PointsTruly(o)'
  BY IdleCarriesNothing DEF AloneSteps, OthersWait

-----------------------------------------------------------------------------
(* The newest revision.                                                    *)

LEMMA OrderStep ==
    ASSUME OrderInv, RolesInv', NEW w \in Writers, AloneSteps(w),
           TopIsLatest', NextIsOnTop(w)', intact' => SomeIsLatest' \/ HandsOver(w)'
    PROVE  OrderInv'
  BY OthersCarryNothing DEF OrderInv

LEMMA OrderHere ==
    ASSUME OrderInv, RolesInv, NEW w \in Writers, \A o \in Writers : o # w => stage[o] = "idle"
    PROVE  intact => SomeIsLatest \/ HandsOver(w)
  BY IdleHoldsNothing DEF OrderInv

\* No row comes or goes, and the latest row stays it.
LEMMA SameOrder ==
    ASSUME OrderInv, \A v \in Versions : (Present(v)' <=> Present(v)),
           \A v \in Versions : (v \in Latest' <=> v \in Latest)
    PROVE  TopIsLatest' /\ (SomeIsLatest => SomeIsLatest')
  <1>1. \A l \in Latest' : l \in Versions /\ l \in Latest
    BY DEF Latest
  <1>2. \A l \in Latest : l \in Latest'
    BY DEF Latest
  <1> QED BY <1>1, <1>2 DEF OrderInv, TopIsLatest, SomeIsLatest

LEMMA SameRowsOrder ==
    ASSUME OrderInv, rows' = rows
    PROVE  TopIsLatest' /\ (SomeIsLatest => SomeIsLatest')
  BY SameOrder DEF Present, Latest

\* The request goes on with the same plan, and no row has come.
LEMMA StillOnTop ==
    ASSUME NEW w \in Writers, NextIsOnTop(w), plan' = plan, stage[w] # "idle",
           stage[w] # "erasing", stage'[w] # "erasing",
           \A v \in Versions : Present(v)' => Present(v)
    PROVE  NextIsOnTop(w)'
  BY DEF NextIsOnTop

LEMMA StartsKeepOrder ==
    ASSUME TypeOK, RolesInv, RolesInv', OrderInv, OneAtATime,
           NEW w \in Writers, NEW v \in Versions, NEW s \in Statuses,
           \/ StartRevision(w, v, s) \/ StartUpdate(w, v) \/ StartPublish(w, v)
           \/ StartUnpublish(w, v) \/ StartDelete(w) \/ StartMoveToBin(w) \/ StartRestore(w)
    PROVE  OrderInv'
  <1>1. PICK k \in Kinds, u \in Versions, d \in Data, g \in Stages :
             /\ Start(w, k, u, d, g)
             /\ \/ k = "revise" /\ \E l \in Latest : u = l + 1
                \/ k # "revise"
             /\ g # "erasing"
    BY StartsSay
  <1>2. /\ AloneSteps(w)
        /\ stage[w] = "idle"
        /\ rows' = rows /\ intact' = intact
        /\ stage'[w] = g
        /\ plan'[w].kind = k /\ plan'[w].id = u /\ plan'[w].heir = 0
    BY <1>1, Started
  <1>3. k = "revise" => \A t \in Versions : Present(t) => t < u
    BY <1>1 DEF OrderInv, TopIsLatest, Latest, Versions
  <1>4. NextIsOnTop(w)'
    BY <1>1, <1>2, <1>3 DEF NextIsOnTop, Present
  <1>5. intact' => SomeIsLatest'
    BY <1>2, OrderHere, IdleHoldsNothing, SameRowsOrder DEF AloneSteps
  <1> QED BY <1>2, <1>4, <1>5, SameRowsOrder, OrderStep

LEMMA DeletionKeepsOrder ==
    ASSUME TypeOK, RolesInv, RolesInv', OrderInv, OneAtATime, NEW w \in Writers, NEW v \in Versions,
           StartDeleteRevision(w, v)
    PROVE  OrderInv'
  <1>1. /\ AloneSteps(w)
        /\ stage[w] = "idle"
        /\ rows' = rows /\ intact' = intact
        /\ plan'[w].id = v
        /\ plan'[w].kind # "revise"
        /\ stage'[w] = "erasing" /\ plan'[w].heir = 0 => v \notin Latest
        /\ plan'[w].heir # 0 => stage'[w] = "erasing"
    BY DeletionStarted
  <1>2. plan'[w].heir # 0 => /\ plan'[w].heirEntry.latest
                             /\ \A t \in Versions : Present(t)' /\ t # v => t <= plan'[w].heir
    <2>1. SUFFICES ASSUME plan'[w].heir # 0
                   PROVE  /\ plan'[w].heirEntry.latest
                          /\ \A t \in Versions : Present(t)' /\ t # v => t <= plan'[w].heir
      OBVIOUS
    <2>2. PICK u \in Versions : Chose(w, v, u)'
      BY <2>1, DeletionStarted
    <2>3. /\ plan'[w].heir = u /\ plan'[w].heirEntry.latest
          /\ v \in Latest'
          /\ \A t \in Versions : t < v /\ Present(t)' => t <= u
      BY <2>2 DEF Chose
    <2>4. \A t \in Versions : Present(t)' => t <= v
      BY <2>3, SameRowsOrder, <1>1 DEF TopIsLatest
    <2> QED BY <2>3, <2>4 DEF Versions
  <1>3. v \notin Latest => v \notin Latest'
    BY <1>1 DEF Latest, Present
  <1>4. NextIsOnTop(w)'
    BY <1>1, <1>2, <1>3 DEF NextIsOnTop
  <1>5. intact' => SomeIsLatest'
    BY <1>1, OrderHere, IdleHoldsNothing, SameRowsOrder DEF AloneSteps
  <1> QED BY <1>1, <1>4, <1>5, SameRowsOrder, OrderStep

LEMMA CreateKeepsOrder ==
    ASSUME TypeOK, RolesInv, RolesInv', OrderInv, NEW w \in Writers, NEW s \in Statuses,
           CreateEntry(w, s)
    PROVE  OrderInv'
  <1>1. /\ \A v \in Versions : v # 1 => rows'[v] = NoRow
        /\ rows'[1] # NoRow /\ rows'[1].isLatest /\ 1 \in Versions
        /\ stage' = stage /\ \A o \in Writers : stage[o] = "idle"
    BY Created
  <1>2. \A v \in Versions : Present(v)' => v = 1
    BY <1>1 DEF Present
  <1>3. 1 \in Latest'
    BY <1>1 DEF Latest, Present
  <1>4. TopIsLatest' /\ SomeIsLatest'
    BY <1>2, <1>3 DEF TopIsLatest, SomeIsLatest, Latest, Versions
  <1> QED BY <1>1, <1>4, IdleCarriesNothing DEF OrderInv

LEMMA FindKeepsOrder ==
    ASSUME TypeOK, RolesInv, RolesInv', OrderInv, NEW w \in Writers,
           \/ FindOldLatest(w) \/ FindOldPublished(w) \/ FindLatest(w) \/ FindAll(w)
    PROVE  OrderInv'
  <1>1. /\ AloneSteps(w)
        /\ rows' = rows /\ intact' = intact
        /\ \/ stage'[w] = "idle" /\ stage[w] \in {"sync", "patch"} /\ plan[w].heir = 0
           \/ plan' = plan /\ stage[w] = "oldLatest" /\ stage'[w] = "clearing"
           \/ /\ plan' = plan /\ stage'[w] = "retiring"
              /\ \/ stage[w] = "oldPublished" /\ plan[w].kind = "publish"
                 \/ stage[w] = "clearing" /\ plan[w].kind = "revise"
           \/ plan' = plan /\ stage[w] = "sync" /\ stage'[w] = "syncing"
           \/ plan' = plan /\ stage[w] = "patch" /\ stage'[w] = "patching"
    BY FoundSome
  <1>2. HandsOver(w) => HandsOver(w)'
    <2>1. stage[w] = "oldPublished" => plan[w].heir = 0
      BY DEF RolesInv, Underway, HeirIsSound
    <2> QED BY <1>1, <2>1 DEF HandsOver
  <1>3. intact' => SomeIsLatest' \/ HandsOver(w)'
    BY <1>1, <1>2, OrderHere, SameRowsOrder DEF AloneSteps
  <1>4. NextIsOnTop(w)'
    <2>1. CASE stage'[w] = "idle"
      BY <2>1, IdleCarriesNothing
    <2>2. CASE stage'[w] # "idle"
      <3>1. NextIsOnTop(w) /\ \A v \in Versions : Present(v)' => Present(v)
        BY <1>1 DEF OrderInv, Present
      <3> QED BY <1>1, <2>2, <3>1, StillOnTop
    <2> QED BY <2>1, <2>2
  <1> QED BY <1>1, <1>3, <1>4, SameRowsOrder, OrderStep

LEMMA ClearKeepsOrder ==
    ASSUME TypeOK, RolesInv, RolesInv', OrderInv, NEW w \in Writers, NEW v \in Versions,
           ClearLatest(w, v) \/ RetirePublished(w, v)
    PROVE  OrderInv'
  <1>1. /\ AloneSteps(w)
        /\ stage[w] \in {"clearing", "retiring"}
        /\ stage' = stage /\ plan' = plan /\ intact' = intact
        /\ Present(v) /\ rows'[v] # NoRow
        /\ \A u \in Versions : u # v => rows'[u] = rows[u]
        /\ rows'[v].isLatest = (stage[w] = "retiring" /\ rows[v].isLatest)
    BY Cleared
  <1>2. \A u \in Versions : (Present(u)' <=> Present(u))
    BY <1>1 DEF Present
  <1>3. \A u \in Latest' : u \in Latest
    BY <1>1, <1>2 DEF Latest
  <1>4. TopIsLatest'
    BY <1>2, <1>3 DEF OrderInv, TopIsLatest
  <1>5. NextIsOnTop(w)'
    BY <1>1, <1>2, StillOnTop DEF OrderInv
  <1>6. intact' => SomeIsLatest' \/ HandsOver(w)'
    <2>1. CASE stage[w] = "clearing"
      BY <1>1, <2>1 DEF HandsOver
    <2>2. CASE stage[w] = "retiring"
      <3>1. \A u \in Versions : (u \in Latest' <=> u \in Latest)
        <4>1. rows[v].isLatest \in BOOLEAN
          BY <1>1, PresentRow DEF TypeOK, Row
        <4> QED BY <1>1, <1>2, <2>2, <4>1 DEF Latest
      <3>2. SomeIsLatest => SomeIsLatest'
        BY <1>2, <3>1, SameOrder
      <3>3. HandsOver(w) => HandsOver(w)'
        BY <1>1 DEF HandsOver
      <3> QED BY <1>1, <3>2, <3>3, OrderHere DEF AloneSteps
    <2> QED BY <1>1, <2>1, <2>2
  <1> QED BY <1>1, <1>4, <1>5, <1>6, OrderStep

LEMMA InsertKeepsOrder ==
    ASSUME TypeOK, RolesInv, RolesInv', OrderInv, NEW w \in Writers, InsertRevision(w)
    PROVE  OrderInv'
  <1>1. PICK p \in Plans : p = plan[w]
    BY DEF TypeOK
  <1>2. /\ AloneSteps(w)
        /\ stage[w] # "idle" /\ stage'[w] = "idle" /\ p.kind = "revise" /\ p.entry.latest
        /\ \/ rows' = rows /\ intact' = FALSE
           \/ /\ Latest = {}
              /\ rows'[p.id] # NoRow
              /\ rows'[p.id].isLatest = p.entry.latest
              /\ \A u \in Versions : u # p.id => rows'[u] = rows[u]
    BY <1>1, Inserted
  <1>3. NextIsOnTop(w)'
    BY <1>2, IdleCarriesNothing
  <1>4. CASE rows' = rows /\ intact' = FALSE
    BY <1>2, <1>3, <1>4, SameRowsOrder, OrderStep
  <1>5. CASE /\ Latest = {}
             /\ rows'[p.id] # NoRow
             /\ rows'[p.id].isLatest = p.entry.latest
             /\ \A u \in Versions : u # p.id => rows'[u] = rows[u]
    <2>1. p.id \in Versions /\ \A u \in Versions : Present(u) => u < p.id
      BY <1>1, <1>2 DEF OrderInv, NextIsOnTop, Plans
    <2>2. p.id \in Latest'
      BY <1>2, <1>5, <2>1 DEF Latest, Present
    <2>3. \A u \in Latest' : u = p.id
      BY <1>5 DEF Latest, Present
    <2>4. \A u \in Versions : Present(u)' => u <= p.id
      BY <1>5, <2>1 DEF Present, Versions
    <2>5. TopIsLatest' /\ SomeIsLatest'
      BY <2>2, <2>3, <2>4 DEF TopIsLatest, SomeIsLatest
    <2> QED BY <1>2, <1>3, <2>5, OrderStep
  <1> QED BY <1>2, <1>4, <1>5

LEMMA WriteKeepsOrder ==
    ASSUME TypeOK, RolesInv, RolesInv', OrderInv, NEW w \in Writers, NEW v \in Versions,
           ReadFlags(w) \/ WriteRevision(w) \/ SyncLatest(w, v)
    PROVE  OrderInv'
  <1>1. PICK p \in Plans : p = plan[w]
    BY DEF TypeOK
  <1>2. /\ AloneSteps(w)
        /\ intact' = intact
        /\ ~HandsOver(w)
    <2>1. HeirIsSound(w)
      BY DEF RolesInv, Underway
    <2>2. CASE ReadFlags(w)
      BY <2>2, FlagsWereRead DEF HandsOver
    <2>3. CASE WriteRevision(w)
      BY <1>1, <2>3, Written DEF HandsOver
    <2>4. CASE SyncLatest(w, v)
      <3>1. AloneSteps(w) /\ intact' = intact /\ stage[w] = "syncing"
        BY <2>4, SyncWritten
      <3> QED BY <2>1, <3>1 DEF HandsOver, HeirIsSound
    <2> QED BY <2>2, <2>3, <2>4
  <1>3. intact => SomeIsLatest
    BY <1>2, OrderHere DEF AloneSteps
  <1>4. /\ \A u \in Versions : (Present(u)' <=> Present(u))
        /\ \A u \in Versions : (u \in Latest' <=> u \in Latest)
    <2>1. CASE ReadFlags(w)
      <3>1. rows' = rows
        BY <2>1, FlagsWereRead
      <3> QED BY <3>1 DEF Present, Latest
    <2>2. CASE WriteRevision(w)
      <3>1. /\ \A u \in Versions : u # p.id => rows'[u] = rows[u]
            /\ ~Present(p.id) => rows'[p.id] = NoRow
            /\ Present(p.id) => rows'[p.id] # NoRow /\ rows'[p.id].isLatest = rows[p.id].isLatest
        BY <1>1, <2>2, Written
      <3> QED BY <3>1 DEF Present, Latest
    <2>3. CASE SyncLatest(w, v)
      <3>1. /\ Present(v) /\ rows'[v] # NoRow /\ rows'[v].isLatest = rows[v].isLatest
            /\ \A u \in Versions : u # v => rows'[u] = rows[u]
        BY <2>3, SyncWritten
      <3> QED BY <3>1 DEF Present, Latest
    <2> QED BY <2>1, <2>2, <2>3
  <1>5. TopIsLatest' /\ (SomeIsLatest => SomeIsLatest')
    BY <1>4, SameOrder
  <1>6. NextIsOnTop(w)'
    <2>1. CASE ReadFlags(w)
      <3>1. stage'[w] = "writing" /\ plan'[w].kind # "revise" /\ plan'[w].heir = 0
        BY <2>1, FlagsWereRead
      <3> QED BY <3>1 DEF NextIsOnTop
    <2>2. CASE WriteRevision(w)
      <3>1. stage[w] = "writing" /\ (stage'[w] = "idle" \/ (plan' = plan /\ stage'[w] = "sync"))
        BY <1>1, <2>2, Written
      <3> QED BY <1>4, <3>1, IdleCarriesNothing, StillOnTop DEF OrderInv
    <2>3. CASE SyncLatest(w, v)
      BY <2>3, SyncWritten, IdleCarriesNothing
    <2> QED BY <2>1, <2>2, <2>3
  <1> QED BY <1>2, <1>3, <1>5, <1>6, OrderStep

LEMMA EraseKeepsOrder ==
    ASSUME TypeOK, RolesInv, RolesInv', OrderInv, NEW w \in Writers, EraseRevision(w)
    PROVE  OrderInv'
  <1>1. PICK p \in Plans : p = plan[w]
    BY DEF TypeOK
  <1>2. /\ AloneSteps(w)
        /\ stage[w] = "erasing" /\ intact' = intact
        /\ \A u \in Versions : rows'[u] = IF u = p.id THEN NoRow ELSE rows[u]
        /\ \/ stage'[w] = "idle" /\ p.heir = 0
           \/ plan' = plan /\ stage'[w] \in {"patch", "promoting"}
        /\ p.heir # 0 => Latest \subseteq {p.id} /\ plan' = plan
    BY <1>1, Erased
  <1>3. p.id \in Versions /\ NextIsOnTop(w)
    BY DEF Plans, OrderInv
  <1>4. \A u \in Versions : (Present(u)' <=> Present(u) /\ u # p.id)
    BY <1>2 DEF Present
  <1>5. \A u \in Versions : (u \in Latest' <=> u \in Latest /\ u # p.id)
    BY <1>2, <1>4 DEF Latest
  <1>6. Latest' \subseteq Versions
    BY DEF Latest
  <1>7. TopIsLatest'
    BY <1>4, <1>5, <1>6 DEF OrderInv, TopIsLatest
  <1>8. NextIsOnTop(w)'
    <2>1. CASE stage'[w] = "idle"
      BY <2>1, IdleCarriesNothing
    <2>2. CASE plan' = plan /\ stage'[w] \in {"patch", "promoting"}
      <3>1. p.kind = "revise" => \A v \in Versions : Present(v)' => v < p.id
        BY <1>1, <1>2, <1>3, <1>4 DEF NextIsOnTop
      <3>2. p.heir # 0 => p.heirEntry.latest /\ \A v \in Versions : Present(v)' => v <= p.heir
        BY <1>1, <1>2, <1>3, <1>4 DEF NextIsOnTop
      <3> QED BY <1>1, <2>2, <3>1, <3>2 DEF NextIsOnTop
    <2> QED BY <1>2, <2>1, <2>2
  <1>9. intact' => SomeIsLatest' \/ HandsOver(w)'
    <2>1. CASE p.heir # 0
      <3>1. plan' = plan /\ stage'[w] # "erasing"
        BY <1>2, <2>1
      <3> QED BY <1>1, <2>1, <3>1 DEF HandsOver
    <2>2. CASE p.heir = 0
      <3>1. p.id \notin Latest
        BY <1>1, <1>2, <1>3, <2>2 DEF NextIsOnTop
      <3>2. ~HandsOver(w)
        BY <1>1, <1>2, <2>2 DEF HandsOver
      <3>3. intact => SomeIsLatest
        BY <1>2, <3>2, OrderHere DEF AloneSteps
      <3>4. \A l \in Latest : l \in Versions
        BY DEF Latest
      <3> QED BY <1>2, <1>4, <1>5, <3>1, <3>3, <3>4 DEF SomeIsLatest
    <2> QED BY <2>1, <2>2
  <1> QED BY <1>2, <1>7, <1>8, <1>9, OrderStep

LEMMA PromoteKeepsOrder ==
    ASSUME TypeOK, RolesInv, RolesInv', OrderInv, NEW w \in Writers, PromotePrevious(w)
    PROVE  OrderInv'
  <1>1. PICK p \in Plans : p = plan[w]
    BY DEF TypeOK
  <1>2. /\ AloneSteps(w)
        /\ stage[w] = "promoting" /\ stage'[w] = "idle"
        /\ Latest = {}
        /\ p.heir # 0 /\ p.heir \in Versions /\ Present(p.heir)
        /\ \A u \in Versions : u # p.heir => rows'[u] = rows[u]
        /\ rows'[p.heir] # NoRow
        /\ rows'[p.heir].isLatest = p.heirEntry.latest
    BY <1>1, Promoted
  <1>3. p.heirEntry.latest /\ \A v \in Versions : Present(v) => v <= p.heir
    BY <1>1, <1>2 DEF OrderInv, NextIsOnTop
  <1>4. \A v \in Versions : Present(v)' => v <= p.heir
    BY <1>2, <1>3 DEF Present
  <1>5. p.heir \in Latest' /\ \A u \in Latest' : u = p.heir
    BY <1>2, <1>3 DEF Latest, Present
  <1>6. TopIsLatest' /\ SomeIsLatest'
    BY <1>4, <1>5 DEF TopIsLatest, SomeIsLatest
  <1> QED BY <1>2, <1>6, IdleCarriesNothing, OrderStep

LEMMA PatchKeepsOrder ==
    ASSUME TypeOK, RolesInv, RolesInv', OrderInv, NEW w \in Writers, PatchAll(w)
    PROVE  OrderInv'
  <1>1. PICK p \in Plans : p = plan[w]
    BY DEF TypeOK
  <1>2. /\ AloneSteps(w)
        /\ stage[w] = "patching"
        /\ \/ rows' = rows /\ intact' = FALSE /\ stage'[w] = "idle"
           \/ /\ intact' = intact
              /\ IF p.heir # 0 THEN stage'[w] = "promoting" /\ plan' = plan ELSE stage'[w] = "idle"
              /\ EveryRowPatched(w)
    BY <1>1, AllPatched
  <1>3. CASE rows' = rows /\ intact' = FALSE /\ stage'[w] = "idle"
    BY <1>2, <1>3, IdleCarriesNothing, SameRowsOrder, OrderStep
  <1>4. CASE /\ intact' = intact
             /\ IF p.heir # 0 THEN stage'[w] = "promoting" /\ plan' = plan ELSE stage'[w] = "idle"
             /\ EveryRowPatched(w)
    <2>1. \A v \in Versions : (Present(v)' <=> Present(v))
      BY <1>4 DEF EveryRowPatched, Present
    <2>2. \A v \in Versions : (v \in Latest' <=> v \in Latest)
      BY <1>4, <2>1 DEF EveryRowPatched, Latest, Present
    <2>3. TopIsLatest' /\ (SomeIsLatest => SomeIsLatest')
      BY <2>1, <2>2, SameOrder
    <2>4. NextIsOnTop(w)'
      <3>1. NextIsOnTop(w)
        BY DEF OrderInv
      <3> QED BY <1>1, <1>2, <1>4, <2>1, <3>1, IdleCarriesNothing, StillOnTop
    <2>5. HandsOver(w) => HandsOver(w)'
      BY <1>1, <1>2, <1>4 DEF HandsOver
    <2>6. intact => SomeIsLatest \/ HandsOver(w)
      BY <1>2, OrderHere DEF AloneSteps
    <2> QED BY <1>2, <1>4, <2>3, <2>4, <2>5, <2>6, OrderStep
  <1> QED BY <1>2, <1>3, <1>4

LEMMA EndKeepsOrder ==
    ASSUME TypeOK, RolesInv, RolesInv', OrderInv, NEW w \in Writers, Empty(w) \/ BreakOff(w)
    PROVE  OrderInv'
  <1>1. /\ AloneSteps(w)
        /\ stage'[w] = "idle"
        /\ \/ rows' = rows /\ intact' = FALSE
           \/ \A v \in Versions : rows'[v] = NoRow
    BY Ended
  <1>2. NextIsOnTop(w)'
    BY <1>1, IdleCarriesNothing
  <1>3. CASE rows' = rows /\ intact' = FALSE
    BY <1>1, <1>2, <1>3, SameRowsOrder, OrderStep
  <1>4. CASE \A v \in Versions : rows'[v] = NoRow
    <2>1. TopIsLatest' /\ SomeIsLatest'
      BY <1>4 DEF TopIsLatest, SomeIsLatest, Latest, Present
    <2> QED BY <1>1, <1>2, <2>1, OrderStep
  <1> QED BY <1>1, <1>3, <1>4

LEMMA OrderKeptByAll ==
    ASSUME OneAtATime, TypeOK, RolesInv, OrderInv, [Next]_vars
    PROVE  OrderInv'
  <1>0. RolesInv'
    BY RolesKept
  <1>1. CASE UNCHANGED vars
    <2>1. rows' = rows /\ stage' = stage /\ plan' = plan /\ intact' = intact
      BY <1>1 DEF vars
    <2>2. TopIsLatest' /\ (SomeIsLatest => SomeIsLatest')
      BY <2>1, SameRowsOrder
    <2>3. \A w \in Writers : NextIsOnTop(w)' /\ (HandsOver(w) => HandsOver(w)')
      BY <2>1 DEF OrderInv, NextIsOnTop, HandsOver, Latest, Present
    <2> QED BY <2>1, <2>2, <2>3 DEF OrderInv
  <1>2. CASE Next
    <2>1. PICK w \in Writers : NextOf(w)
      BY <1>2, NextIsOfOne
    <2>2. 1 \in Versions /\ "draft" \in Statuses
      BY DEF Versions, Statuses
    <2> QED BY <1>0, <2>1, <2>2, StartsKeepOrder, DeletionKeepsOrder, CreateKeepsOrder,
               FindKeepsOrder, ClearKeepsOrder, InsertKeepsOrder, WriteKeepsOrder, EraseKeepsOrder,
               PromoteKeepsOrder, PatchKeepsOrder, EndKeepsOrder DEF NextOf
  <1> QED BY <1>1, <1>2

\* Between operations nobody hands the flag over.
LEMMA OrderTells ==
    ASSUME RolesInv, OrderInv
    PROVE  NewestIsLatest
  <1>1. SUFFICES ASSUME Quiet, intact, NEW v \in Versions, Present(v),
                        \A u \in Versions : Present(u) => u <= v
                 PROVE  v \in Latest
    BY DEF NewestIsLatest
  <1>2. SomeIsLatest
    BY <1>1, IdleHoldsNothing DEF OrderInv, Quiet
  <1>3. PICK l \in Latest : l \in Versions /\ Present(l)
    BY <1>1, <1>2 DEF SomeIsLatest, Latest
  <1>4. l <= v /\ v <= l
    BY <1>1, <1>3 DEF OrderInv, TopIsLatest
  <1> QED BY <1>3, <1>4 DEF Versions

-----------------------------------------------------------------------------
(* The live pointer.                                                       *)

LEMMA LiveStep ==
    ASSUME RolesInv', NEW w \in Writers, AloneSteps(w),
           intact' /\ straight' => PointsTruly(w)' /\ (PointerIsTrue' \/ Moves(w)')
    PROVE  LiveInv'
  BY OthersCarryNothing DEF LiveInv

LEMMA LiveHere ==
    ASSUME LiveInv, RolesInv, intact, straight, NEW w \in Writers,
           \A o \in Writers : o # w => stage[o] = "idle"
    PROVE  PointsTruly(w) /\ (PointerIsTrue \/ Moves(w))
  BY IdleHoldsNothing DEF LiveInv

LEMMA SamePublished ==
    ASSUME \A v \in Versions : (v \in Published' <=> v \in Published)
    PROVE  Published' = Published /\ LiveVersion' = LiveVersion
  <1>1. Published' = Published
    BY DEF Published
  <1> QED BY <1>1 DEF LiveVersion

LEMMA SamePointer ==
    ASSUME PointerIsTrue, LiveVersion' = LiveVersion,
           \A l \in Versions : l \in Latest' => l \in Latest /\ rows'[l].data.live = rows[l].data.live
    PROVE  PointerIsTrue'
  <1>1. \A l \in Latest' : l \in Versions
    BY DEF Latest
  <1> QED BY <1>1 DEF PointerIsTrue

LEMMA SameRowsPoint ==
    ASSUME rows' = rows
    PROVE  /\ Latest' = Latest /\ Published' = Published /\ LiveVersion' = LiveVersion
           /\ PointerIsTrue => PointerIsTrue'
  <1>1. Latest' = Latest /\ Published' = Published
    BY DEF Latest, Published, Present
  <1> QED BY <1>1 DEF LiveVersion, PointerIsTrue

LEMMA NoLatestIsTrue ==
    ASSUME Latest' = {}
    PROVE  PointerIsTrue'
  BY DEF PointerIsTrue

LEMMA StartsKeepLive ==
    ASSUME TypeOK, RolesInv, RolesInv', LiveInv, OneAtATime,
           NEW w \in Writers, NEW v \in Versions, NEW s \in Statuses,
           \/ StartRevision(w, v, s) \/ StartUpdate(w, v) \/ StartPublish(w, v)
           \/ StartUnpublish(w, v) \/ StartDelete(w) \/ StartMoveToBin(w) \/ StartRestore(w)
    PROVE  LiveInv'
  <1>1. PICK k \in Kinds, u \in Versions, d \in Data, g \in Stages :
             /\ Start(w, k, u, d, g)
             /\ \/ /\ k = "revise" /\ g = "oldLatest"
                   /\ d.live = rows[v].data.live
                   /\ d.published = (s = "published")
                   /\ \E l \in Latest : straight' = (straight /\ v = l /\ s # "published")
                \/ /\ straight' = straight
                   /\ \/ /\ k = "update" /\ g = "flags" /\ Present(u)
                         /\ d.live = rows[u].data.live
                      \/ k = "publish" /\ g = "oldPublished" /\ Present(u) /\ d.live = u
                      \/ k = "unpublish" /\ g = "flags" /\ u \in Published /\ d.live = 0
                      \/ k = "delete" /\ g = "emptying"
                      \/ k \in {"bin", "restore"} /\ g = "patch"
    BY StartsSay
  <1>2. /\ AloneSteps(w)
        /\ stage[w] = "idle"
        /\ rows' = rows /\ intact' = intact
        /\ stage'[w] = g
        /\ plan'[w].kind = k /\ plan'[w].id = u /\ plan'[w].entry = d /\ plan'[w].heir = 0
    BY <1>1, Started
  <1>3. SUFFICES ASSUME intact', straight' PROVE PointsTruly(w)' /\ (PointerIsTrue' \/ Moves(w)')
    BY <1>2, LiveStep
  <1>4. intact /\ straight
    BY <1>1, <1>2, <1>3 DEF TypeOK
  <1>5. PointerIsTrue
    BY <1>2, <1>4, LiveHere, IdleHoldsNothing DEF AloneSteps
  <1>6. PointerIsTrue' /\ LiveVersion' = LiveVersion /\ Published' = Published
    BY <1>2, <1>5, SameRowsPoint
  <1>7. RevisePoints(w)'
    <2>1. k = "revise" => ~d.published /\ d.live \in LiveVersion
      BY <1>1, <1>3, <1>5 DEF PointerIsTrue
    <2>2. k = "revise" => g = "oldLatest"
      BY <1>1
    <2> QED BY <1>2, <1>6, <2>1, <2>2 DEF RevisePoints
  <1>8. WritePoints(w)'
    BY <1>1, <1>2, <1>6 DEF WritePoints, Present
  <1>9. SyncPoints(w)'
    BY <1>1, <1>2 DEF SyncPoints
  <1>10. HeirPoints(w)'
    BY <1>1, <1>2 DEF HeirPoints
  <1> QED BY <1>6, <1>7, <1>8, <1>9, <1>10 DEF PointsTruly

LEMMA DeletionKeepsLive ==
    ASSUME TypeOK, RolesInv, RolesInv', LiveInv, OneAtATime, NEW w \in Writers, NEW v \in Versions,
           StartDeleteRevision(w, v)
    PROVE  LiveInv'
  <1>1. /\ AloneSteps(w)
        /\ stage[w] = "idle"
        /\ rows' = rows /\ intact' = intact /\ straight' = straight
        /\ Present(v)
        /\ plan'[w].id = v /\ plan'[w].entry = rows[v].data
        /\ \/ stage'[w] = "emptying" /\ plan'[w].kind = "delete" /\ plan'[w].heir = 0
           \/ stage'[w] = "erasing" /\ plan'[w].kind = "deleteRevision"
    BY DeletionStarted
  <1>2. SUFFICES ASSUME intact', straight' PROVE PointsTruly(w)' /\ (PointerIsTrue' \/ Moves(w)')
    BY <1>1, LiveStep
  <1>3. PointerIsTrue
    BY <1>1, <1>2, LiveHere, IdleHoldsNothing DEF AloneSteps
  <1>4. PointerIsTrue' /\ LiveVersion' = LiveVersion
    BY <1>1, <1>3, SameRowsPoint
  <1>5. plan'[w].heir # 0 => IF plan'[w].entry.status = "published" THEN plan'[w].heirEntry.live = 0
                             ELSE plan'[w].heirEntry.live \in LiveVersion'
    <2>1. SUFFICES ASSUME plan'[w].heir # 0
                   PROVE  IF plan'[w].entry.status = "published" THEN plan'[w].heirEntry.live = 0
                          ELSE plan'[w].heirEntry.live \in LiveVersion'
      OBVIOUS
    <2>2. PICK u \in Versions : Chose(w, v, u)'
      BY <2>1, DeletionStarted
    <2>3. /\ v \in Latest'
          /\ plan'[w].heirEntry.live = IF rows'[v].data.status = "published" THEN 0
                                       ELSE rows'[v].data.live
      BY <2>2 DEF Chose
    <2> QED BY <1>1, <1>4, <2>3 DEF PointerIsTrue
  <1>6. RevisePoints(w)' /\ WritePoints(w)' /\ SyncPoints(w)'
    BY <1>1 DEF RevisePoints, WritePoints, SyncPoints
  <1>7. HeirPoints(w)'
    BY <1>1, <1>5 DEF HeirPoints, Present
  <1> QED BY <1>4, <1>6, <1>7 DEF PointsTruly

LEMMA CreateKeepsLive ==
    ASSUME TypeOK, RolesInv, RolesInv', LiveInv, NEW w \in Writers, NEW s \in Statuses,
           CreateEntry(w, s)
    PROVE  LiveInv'
  <1>1. /\ \A v \in Versions : v # 1 => rows'[v] = NoRow
        /\ rows'[1] # NoRow /\ 1 \in Versions
        /\ rows'[1].isPublished = (s = "published")
        /\ rows'[1].data.live = IF s = "published" THEN 1 ELSE 0
        /\ stage' = stage /\ \A o \in Writers : stage[o] = "idle"
    BY Created
  <1>2. Latest' \subseteq {1}
    BY <1>1 DEF Latest, Present
  <1>3. Published' = IF s = "published" THEN {1} ELSE {}
    BY <1>1 DEF Published, Present
  <1>4. PointerIsTrue'
    BY <1>1, <1>2, <1>3 DEF PointerIsTrue, LiveVersion
  <1> QED BY <1>1, <1>4, IdleCarriesNothing DEF LiveInv

LEMMA FindKeepsLive ==
    ASSUME TypeOK, RolesInv, RolesInv', LiveInv, NEW w \in Writers,
           \/ FindOldLatest(w) \/ FindOldPublished(w) \/ FindLatest(w) \/ FindAll(w)
    PROVE  LiveInv'
  <1>1. /\ AloneSteps(w)
        /\ rows' = rows /\ intact' = intact /\ straight' = straight
        /\ \/ stage'[w] = "idle" /\ Latest = {}
           \/ plan' = plan /\ stage[w] = "oldLatest" /\ stage'[w] = "clearing"
           \/ /\ plan' = plan /\ stage'[w] = "retiring"
              /\ \/ stage[w] = "oldPublished" /\ plan[w].kind = "publish"
                 \/ stage[w] = "clearing" /\ plan[w].kind = "revise" /\ plan[w].entry.published
           \/ /\ plan' = plan /\ stage[w] = "sync" /\ stage'[w] = "syncing"
              /\ \A v \in Versions : found'[w][v] # NoRow => v \in Latest
           \/ plan' = plan /\ stage[w] = "patch" /\ stage'[w] = "patching"
    BY FoundSome
  <1>2. SUFFICES ASSUME intact', straight' PROVE PointsTruly(w)' /\ (PointerIsTrue' \/ Moves(w)')
    BY <1>1, LiveStep
  <1>3. PointsTruly(w) /\ (PointerIsTrue \/ Moves(w))
    BY <1>1, <1>2, LiveHere DEF AloneSteps
  <1>4. /\ Latest' = Latest /\ Published' = Published /\ LiveVersion' = LiveVersion
        /\ PointerIsTrue => PointerIsTrue'
    BY <1>1, SameRowsPoint
  <1>5. HeirIsSound(w) /\ RevisionIsSound(w)
    BY DEF RolesInv, Underway
  <1>6. CASE stage'[w] = "idle" /\ Latest = {}
    BY <1>4, <1>6, IdleCarriesNothing, NoLatestIsTrue
  <1>7. CASE plan' = plan /\ stage[w] = "oldLatest" /\ stage'[w] = "clearing"
    <2>1. plan[w].kind = "revise" /\ plan[w].heir = 0 /\ RevisePoints(w)'
      BY <1>3, <1>4, <1>5, <1>7 DEF RevisionIsSound, HeirIsSound, PointsTruly, RevisePoints
    <2>2. WritePoints(w)' /\ SyncPoints(w)' /\ HeirPoints(w)'
      BY <1>7, <2>1 DEF WritePoints, SyncPoints, HeirPoints
    <2> QED BY <1>3, <1>4, <1>7, <2>1, <2>2 DEF PointsTruly, Moves
  <1>8. CASE /\ plan' = plan /\ stage'[w] = "retiring"
             /\ \/ stage[w] = "oldPublished" /\ plan[w].kind = "publish"
                \/ stage[w] = "clearing" /\ plan[w].kind = "revise" /\ plan[w].entry.published
    <2>1. stage[w] = "oldPublished" /\ plan[w].kind = "publish" /\ plan[w].heir = 0
      BY <1>3, <1>5, <1>8 DEF PointsTruly, RevisePoints, HeirIsSound
    <2>2. WritePoints(w)'
      BY <1>1, <1>3, <1>8, <2>1 DEF PointsTruly, WritePoints, Present
    <2>3. RevisePoints(w)' /\ SyncPoints(w)' /\ HeirPoints(w)'
      BY <1>8, <2>1 DEF RevisePoints, SyncPoints, HeirPoints
    <2> QED BY <1>8, <2>1, <2>2, <2>3 DEF PointsTruly, Moves
  <1>9. CASE /\ plan' = plan /\ stage[w] = "sync" /\ stage'[w] = "syncing"
             /\ \A v \in Versions : found'[w][v] # NoRow => v \in Latest
    <2>1. plan[w].heir = 0
      BY <1>5, <1>9 DEF HeirIsSound
    <2>2. SyncPoints(w)' /\ (Moves(w) => Moves(w)')
      BY <1>3, <1>4, <1>9 DEF PointsTruly, SyncPoints, Moves
    <2>3. RevisePoints(w)'
      BY <1>3, <1>4, <1>9 DEF PointsTruly, RevisePoints
    <2>4. WritePoints(w)' /\ HeirPoints(w)'
      BY <1>9, <2>1 DEF WritePoints, HeirPoints
    <2> QED BY <1>3, <1>4, <2>2, <2>3, <2>4 DEF PointsTruly
  <1>10. CASE plan' = plan /\ stage[w] = "patch" /\ stage'[w] = "patching"
    <2>1. HeirPoints(w)' /\ (Moves(w) => Moves(w)')
      BY <1>3, <1>4, <1>10 DEF PointsTruly, HeirPoints, Moves
    <2>2. plan[w].kind \in {"bin", "restore", "deleteRevision"}
      BY <1>3, <1>10 DEF PointsTruly, HeirPoints
    <2>3. RevisePoints(w)' /\ WritePoints(w)' /\ SyncPoints(w)'
      BY <1>10, <2>2 DEF RevisePoints, WritePoints, SyncPoints
    <2> QED BY <1>3, <1>4, <2>1, <2>3 DEF PointsTruly
  <1> QED BY <1>1, <1>6, <1>7, <1>8, <1>9, <1>10

LEMMA ClearKeepsLive ==
    ASSUME TypeOK, RolesInv, RolesInv', LiveInv, NEW w \in Writers, NEW v \in Versions,
           ClearLatest(w, v) \/ RetirePublished(w, v)
    PROVE  LiveInv'
  <1>1. /\ AloneSteps(w)
        /\ stage[w] \in {"clearing", "retiring"}
        /\ stage' = stage /\ plan' = plan /\ intact' = intact /\ straight' = straight
        /\ Present(v)
        /\ \A u \in Versions : u # v => rows'[u] = rows[u]
        /\ rows'[v] # NoRow
        /\ rows'[v].isLatest = (stage[w] = "retiring" /\ rows[v].isLatest)
        /\ rows'[v].isPublished = (stage[w] = "clearing" /\ rows[v].isPublished)
        /\ rows'[v].data.live = rows[v].data.live
    BY Cleared
  <1>2. SUFFICES ASSUME intact', straight' PROVE PointsTruly(w)' /\ (PointerIsTrue' \/ Moves(w)')
    BY <1>1, LiveStep
  <1>3. PointsTruly(w) /\ (PointerIsTrue \/ Moves(w))
    BY <1>1, <1>2, LiveHere DEF AloneSteps
  <1>4. plan[w].heir = 0 /\ RevisionIsSound(w)
    BY <1>1 DEF RolesInv, Underway, HeirIsSound
  <1>5. CASE stage[w] = "clearing"
    <2>1. \A u \in Versions : (u \in Published' <=> u \in Published)
      <3>1. rows[v].isPublished \in BOOLEAN
        BY <1>1, PresentRow DEF TypeOK, Row
      <3> QED BY <1>1, <1>5, <3>1 DEF Published, Present
    <2>2. LiveVersion' = LiveVersion
      BY <2>1, SamePublished
    <2>3. \A l \in Versions : l \in Latest' => l \in Latest /\ rows'[l].data.live = rows[l].data.live
      BY <1>1, <1>5 DEF Latest, Present
    <2>4. PointerIsTrue
      BY <1>3, <1>5 DEF Moves
    <2>5. PointerIsTrue'
      BY <2>2, <2>3, <2>4, SamePointer
    <2>6. RevisePoints(w)'
      BY <1>1, <1>3, <2>2 DEF PointsTruly, RevisePoints
    <2>7. WritePoints(w)' /\ SyncPoints(w)' /\ HeirPoints(w)'
      BY <1>1, <1>4, <1>5 DEF WritePoints, SyncPoints, HeirPoints
    <2> QED BY <2>5, <2>6, <2>7 DEF PointsTruly
  <1>6. CASE stage[w] = "retiring"
    <2>1. plan[w].kind = "publish"
      BY <1>3, <1>4, <1>6 DEF RevisionIsSound, PointsTruly, RevisePoints
    <2>2. \A u \in Versions : Present(u) => Present(u)'
      BY <1>1 DEF Present
    <2>3. WritePoints(w)'
      <3>1. plan[w].id \in Versions
        BY DEF TypeOK, Plans
      <3> QED BY <1>1, <1>3, <1>6, <2>1, <2>2, <3>1 DEF PointsTruly, WritePoints
    <2>4. RevisePoints(w)' /\ SyncPoints(w)' /\ HeirPoints(w)'
      BY <1>1, <1>4, <1>6, <2>1 DEF RevisePoints, SyncPoints, HeirPoints
    <2>5. Moves(w)'
      BY <1>1, <1>6, <2>1 DEF Moves
    <2> QED BY <2>3, <2>4, <2>5 DEF PointsTruly
  <1> QED BY <1>1, <1>5, <1>6

LEMMA InsertKeepsLive ==
    ASSUME TypeOK, RolesInv, RolesInv', LiveInv, NEW w \in Writers, InsertRevision(w)
    PROVE  LiveInv'
  <1>1. PICK p \in Plans : p = plan[w]
    BY DEF TypeOK
  <1>2. /\ AloneSteps(w)
        /\ stage[w] # "idle" /\ stage'[w] = "idle" /\ straight' = straight
        /\ p.kind = "revise"
        /\ \/ intact' = FALSE
           \/ /\ intact' = intact
              /\ Latest = {} /\ ~Present(p.id)
              /\ rows'[p.id].isPublished = p.entry.published
              /\ rows'[p.id].data.live = p.entry.live
              /\ \A u \in Versions : u # p.id => rows'[u] = rows[u]
    BY <1>1, Inserted
  <1>3. SUFFICES ASSUME intact', straight' PROVE PointsTruly(w)' /\ (PointerIsTrue' \/ Moves(w)')
    BY <1>2, LiveStep
  <1>4. /\ intact
        /\ Latest = {} /\ ~Present(p.id)
        /\ rows'[p.id].isPublished = p.entry.published
        /\ rows'[p.id].data.live = p.entry.live
        /\ \A u \in Versions : u # p.id => rows'[u] = rows[u]
    BY <1>2, <1>3
  <1>5. ~p.entry.published /\ p.entry.live \in LiveVersion
    BY <1>1, <1>2, <1>3, <1>4, LiveHere DEF AloneSteps, PointsTruly, RevisePoints
  <1>6. \A u \in Versions : (u \in Published' <=> u \in Published)
    BY <1>4, <1>5 DEF Published, Present
  <1>7. LiveVersion' = LiveVersion
    BY <1>6, SamePublished
  <1>8. \A l \in Latest' : l = p.id
    BY <1>4 DEF Latest, Present
  <1>9. PointerIsTrue'
    BY <1>4, <1>5, <1>7, <1>8 DEF PointerIsTrue
  <1> QED BY <1>2, <1>9, IdleCarriesNothing

LEMMA ReadKeepsLive ==
    ASSUME TypeOK, RolesInv, RolesInv', LiveInv, NEW w \in Writers, ReadFlags(w)
    PROVE  LiveInv'
  <1>1. PICK p \in Plans : p = plan[w]
    BY DEF TypeOK
  <1>2. /\ AloneSteps(w)
        /\ rows' = rows /\ intact' = intact /\ straight' = straight
        /\ stage'[w] = "writing"
        /\ \/ stage[w] = "flags" /\ p.kind \in {"update", "unpublish"}
           \/ stage[w] = "retiring" /\ p.kind = "publish"
        /\ plan'[w].kind = p.kind /\ plan'[w].id = p.id
        /\ plan'[w].heir = 0
        /\ plan'[w].entry.live = p.entry.live
    BY <1>1, FlagsWereRead
  <1>3. SUFFICES ASSUME intact', straight' PROVE PointsTruly(w)' /\ (PointerIsTrue' \/ Moves(w)')
    BY <1>2, LiveStep
  <1>4. PointsTruly(w) /\ (PointerIsTrue \/ Moves(w))
    BY <1>2, <1>3, LiveHere DEF AloneSteps
  <1>5. Published' = Published /\ (PointerIsTrue => PointerIsTrue')
    BY <1>2, SameRowsPoint
  <1>6. WritePoints(w)'
    BY <1>1, <1>2, <1>4, <1>5 DEF PointsTruly, WritePoints, Present
  <1>7. RevisePoints(w)' /\ SyncPoints(w)' /\ HeirPoints(w)'
    BY <1>2 DEF RevisePoints, SyncPoints, HeirPoints
  <1>8. Moves(w) => Moves(w)'
    BY <1>1, <1>2 DEF Moves
  <1> QED BY <1>4, <1>5, <1>6, <1>7, <1>8 DEF PointsTruly

\* There is one latest row at most, and one published.
LEMMA OnlyOnes ==
    ASSUME RolesInv
    PROVE  /\ \A u, v \in Latest : u = v
           /\ \A u, v \in Published : u = v
  BY DEF RolesInv, AtMostOneLatest, AtMostOnePublished, AtMostOne

LEMMA WriteKeepsLive ==
    ASSUME TypeOK, RolesInv, RolesInv', LiveInv, NEW w \in Writers, WriteRevision(w)
    PROVE  LiveInv'
  <1>1. PICK p \in Plans : p = plan[w]
    BY DEF TypeOK
  <1>2. /\ AloneSteps(w)
        /\ stage[w] = "writing"
        /\ intact' = intact /\ straight' = straight
        /\ p.kind \in {"update", "publish", "unpublish"}
        /\ p.heir = 0
        /\ \/ p.entry.latest /\ stage'[w] = "idle"
           \/ ~p.entry.latest /\ stage'[w] = "sync" /\ plan' = plan /\ found'[w] = NoRows
        /\ p.kind = "publish" => Published = {}
        /\ \A u \in Versions : u # p.id => rows'[u] = rows[u]
        /\ Present(p.id) =>
             /\ rows'[p.id] # NoRow
             /\ rows'[p.id].isLatest = rows[p.id].isLatest
             /\ p.entry.latest = rows[p.id].isLatest
             /\ rows'[p.id].isPublished = p.entry.published
             /\ p.kind = "publish" => p.entry.published
             /\ p.kind = "unpublish" => ~p.entry.published
             /\ p.kind = "update" => rows'[p.id].isPublished = rows[p.id].isPublished
             /\ rows'[p.id].data.live = p.entry.live
    BY <1>1, Written
  <1>3. p.id \in Versions
    BY DEF Plans
  <1>4. SUFFICES ASSUME intact', straight' PROVE PointsTruly(w)' /\ (PointerIsTrue' \/ Moves(w)')
    BY <1>2, LiveStep
  <1>5. PointsTruly(w) /\ (PointerIsTrue \/ Moves(w))
    BY <1>2, <1>4, LiveHere DEF AloneSteps
  <1>6. Present(p.id)
    BY <1>1, <1>2, <1>5 DEF PointsTruly, WritePoints, Published
  <1>7. \A l \in Versions : (l \in Latest' <=> l \in Latest)
    BY <1>2, <1>6 DEF Latest, Present
  <1>8. ASSUME p.kind = "publish" => p.id \in Published',
               p.kind = "unpublish" => Published' = {}
        PROVE  PointsTruly(w)'
    <2>1. CASE stage'[w] = "idle"
      BY <2>1, IdleCarriesNothing
    <2>2. CASE stage'[w] = "sync" /\ plan' = plan
      <3>1. SyncPoints(w)'
        BY <1>1, <1>8, <2>2 DEF SyncPoints
      <3>2. RevisePoints(w)' /\ WritePoints(w)' /\ HeirPoints(w)'
        BY <1>1, <1>2, <2>2 DEF RevisePoints, WritePoints, HeirPoints
      <3> QED BY <3>1, <3>2 DEF PointsTruly
    <2> QED BY <1>2, <2>1, <2>2
  <1>9. CASE p.kind = "update"
    <2>1. p.entry.live = rows[p.id].data.live
      BY <1>1, <1>2, <1>5, <1>9 DEF PointsTruly, WritePoints
    <2>2. \A u \in Versions : (u \in Published' <=> u \in Published)
      BY <1>2, <1>6, <1>9 DEF Published, Present
    <2>3. LiveVersion' = LiveVersion
      BY <2>2, SamePublished
    <2>4. PointerIsTrue
      BY <1>1, <1>5, <1>9 DEF Moves
    <2>5. \A l \in Versions : l \in Latest' => l \in Latest /\ rows'[l].data.live = rows[l].data.live
      BY <1>2, <1>6, <1>7, <2>1
    <2>6. PointerIsTrue'
      BY <2>3, <2>4, <2>5, SamePointer
    <2> QED BY <1>8, <1>9, <2>6
  <1>10. CASE p.kind = "publish"
    <2>1. p.entry.live = p.id
      BY <1>1, <1>2, <1>5, <1>10 DEF PointsTruly, WritePoints
    <2>2. p.id \in Published'
      BY <1>2, <1>3, <1>6, <1>10 DEF Published, Present
    <2>3. CASE p.entry.latest
      <3>1. \A l \in Latest' : l = p.id
        BY <1>2, <1>3, <1>6, <1>7, <2>3, OnlyOnes DEF Latest
      <3>2. PointerIsTrue'
        BY <1>2, <1>6, <2>1, <2>2, <3>1 DEF PointerIsTrue, LiveVersion
      <3> QED BY <1>8, <1>10, <2>2, <3>2
    <2>4. CASE ~p.entry.latest
      <3>1. Moves(w)'
        BY <1>1, <1>2, <1>10, <2>4 DEF Moves
      <3> QED BY <1>8, <1>10, <2>2, <3>1
    <2> QED BY <2>3, <2>4
  <1>11. CASE p.kind = "unpublish"
    <2>1. p.id \in Published /\ p.entry.live = 0
      BY <1>1, <1>2, <1>5, <1>11 DEF PointsTruly, WritePoints
    <2>2. Published' = {}
      <3>1. \A u \in Versions : u # p.id => u \notin Published
        BY <2>1, OnlyOnes
      <3> QED BY <1>2, <1>3, <1>6, <1>11, <3>1 DEF Published, Present
    <2>3. CASE p.entry.latest
      <3>1. \A l \in Latest' : l = p.id
        BY <1>2, <1>3, <1>6, <1>7, <2>3, OnlyOnes DEF Latest
      <3>2. PointerIsTrue'
        BY <1>2, <1>6, <2>1, <2>2, <3>1 DEF PointerIsTrue, LiveVersion
      <3> QED BY <1>8, <1>11, <2>2, <3>2
    <2>4. CASE ~p.entry.latest
      <3>1. Moves(w)'
        BY <1>1, <1>2, <1>11, <2>4 DEF Moves
      <3> QED BY <1>8, <1>11, <2>2, <3>1
    <2> QED BY <2>3, <2>4
  <1> QED BY <1>2, <1>9, <1>10, <1>11

LEMMA SyncKeepsLive ==
    ASSUME TypeOK, RolesInv, RolesInv', LiveInv, NEW w \in Writers, NEW v \in Versions,
           SyncLatest(w, v)
    PROVE  LiveInv'
  <1>1. PICK p \in Plans : p = plan[w]
    BY DEF TypeOK
  <1>2. /\ AloneSteps(w)
        /\ stage[w] = "syncing" /\ stage'[w] = "idle"
        /\ intact' = intact /\ straight' = straight
        /\ found[w][v] # NoRow /\ Present(v)
        /\ \A u \in Versions : u # v => rows'[u] = rows[u]
        /\ rows'[v] # NoRow
        /\ rows'[v].isLatest = rows[v].isLatest
        /\ rows'[v].isPublished = rows[v].isPublished
        /\ rows'[v].data.live = CASE p.kind = "publish" -> p.id
                                  [] p.kind = "unpublish" -> 0
                                  [] OTHER -> rows[v].data.live
    BY <1>1, SyncWritten
  <1>3. SUFFICES ASSUME intact', straight' PROVE PointsTruly(w)' /\ (PointerIsTrue' \/ Moves(w)')
    BY <1>2, LiveStep
  <1>4. PointsTruly(w) /\ (PointerIsTrue \/ Moves(w))
    BY <1>2, <1>3, LiveHere DEF AloneSteps
  <1>5. \A l \in Versions : (l \in Latest' <=> l \in Latest)
    BY <1>2 DEF Latest, Present
  <1>6. \A u \in Versions : (u \in Published' <=> u \in Published)
    BY <1>2 DEF Published, Present
  <1>7. LiveVersion' = LiveVersion /\ Published' = Published
    BY <1>6, SamePublished
  <1>8. v \in Latest
    BY <1>2, <1>4 DEF PointsTruly, SyncPoints
  <1>9. \A l \in Latest' : l = v
    <2>1. \A l \in Latest' : l \in Versions
      BY DEF Latest
    <2> QED BY <1>5, <1>8, <2>1, OnlyOnes
  <1>10. PointerIsTrue'
    <2>1. CASE p.kind = "publish"
      <3>1. p.id \in Published
        BY <1>1, <1>2, <1>4, <2>1 DEF PointsTruly, SyncPoints
      <3> QED BY <1>2, <1>7, <1>9, <2>1, <3>1 DEF PointerIsTrue, LiveVersion
    <2>2. CASE p.kind = "unpublish"
      <3>1. Published = {}
        BY <1>1, <1>2, <1>4, <2>2 DEF PointsTruly, SyncPoints
      <3> QED BY <1>2, <1>7, <1>9, <2>2, <3>1 DEF PointerIsTrue, LiveVersion
    <2>3. CASE p.kind \notin {"publish", "unpublish"}
      <3>1. PointerIsTrue
        BY <1>1, <1>2, <1>4, <2>3 DEF Moves
      <3>2. \A l \in Versions : l \in Latest' => l \in Latest /\ rows'[l].data.live = rows[l].data.live
        BY <1>2, <1>5, <2>3
      <3> QED BY <1>7, <3>1, <3>2, SamePointer
    <2> QED BY <2>1, <2>2, <2>3
  <1> QED BY <1>2, <1>10, IdleCarriesNothing

LEMMA EraseKeepsLive ==
    ASSUME TypeOK, RolesInv, RolesInv', LiveInv, NEW w \in Writers, EraseRevision(w)
    PROVE  LiveInv'
  <1>1. PICK p \in Plans : p = plan[w]
    BY DEF TypeOK
  <1>2. /\ AloneSteps(w)
        /\ stage[w] = "erasing"
        /\ intact' = intact /\ straight' = straight
        /\ \A u \in Versions : rows'[u] = IF u = p.id THEN NoRow ELSE rows[u]
        /\ IF p.entry.status = "published"
           THEN stage'[w] = "patch" /\ plan' = plan
           ELSE IF p.heir # 0 THEN stage'[w] = "promoting" /\ plan' = plan
           ELSE stage'[w] = "idle"
        /\ p.heir # 0 => Latest \subseteq {p.id}
    BY <1>1, Erased
  <1>3. p.id \in Versions
    BY DEF Plans
  <1>4. SUFFICES ASSUME intact', straight' PROVE PointsTruly(w)' /\ (PointerIsTrue' \/ Moves(w)')
    BY <1>2, LiveStep
  <1>5. PointsTruly(w) /\ (PointerIsTrue \/ Moves(w))
    BY <1>2, <1>4, LiveHere DEF AloneSteps
  <1>6. /\ p.kind = "deleteRevision"
        /\ Present(p.id)
        /\ p.entry.status = rows[p.id].data.status
        /\ p.heir # 0 => IF p.entry.status = "published" THEN p.heirEntry.live = 0
                         ELSE p.heirEntry.live \in LiveVersion
    BY <1>1, <1>2, <1>5 DEF PointsTruly, HeirPoints
  <1>7. PointerIsTrue
    BY <1>1, <1>2, <1>5, <1>6 DEF Moves
  <1>8. p.id \in Published <=> p.entry.status = "published"
    BY <1>3, <1>6 DEF RolesInv, RowsAgree, FlagsOK, Published
  <1>9. \A u \in Versions : /\ u \in Latest' <=> u \in Latest /\ u # p.id
                            /\ u \in Published' <=> u \in Published /\ u # p.id
    BY <1>2 DEF Latest, Published, Present
  <1>10. CASE p.entry.status = "published"
    <2>1. Published' = {}
      <3>1. \A u \in Versions : u # p.id => u \notin Published
        BY <1>8, <1>10, OnlyOnes
      <3>2. \A u \in Published' : u \in Versions
        BY DEF Published
      <3> QED BY <1>9, <3>1, <3>2
    <2>2. LiveVersion' = {0}
      BY <2>1 DEF LiveVersion
    <2>3. stage'[w] = "patch" /\ plan' = plan
      BY <1>2, <1>10
    <2>4. HeirPoints(w)'
      BY <1>1, <1>6, <1>10, <2>1, <2>2, <2>3 DEF HeirPoints
    <2>5. RevisePoints(w)' /\ WritePoints(w)' /\ SyncPoints(w)' /\ Moves(w)'
      BY <1>1, <1>6, <2>3 DEF RevisePoints, WritePoints, SyncPoints, Moves
    <2> QED BY <2>4, <2>5 DEF PointsTruly
  <1>11. CASE p.entry.status # "published"
    <2>1. LiveVersion' = LiveVersion
      BY <1>8, <1>9, <1>11, SamePublished
    <2>2. \A l \in Versions : l \in Latest' => l \in Latest /\ rows'[l].data.live = rows[l].data.live
      BY <1>2, <1>9
    <2>3. PointerIsTrue'
      BY <1>7, <2>1, <2>2, SamePointer
    <2>4. CASE p.heir = 0
      BY <1>2, <1>11, <2>3, <2>4, IdleCarriesNothing
    <2>5. CASE p.heir # 0
      <3>1. stage'[w] = "promoting" /\ plan' = plan
        BY <1>2, <1>11, <2>5
      <3>2. HeirPoints(w)'
        BY <1>1, <1>6, <1>11, <2>1, <3>1 DEF HeirPoints
      <3>3. RevisePoints(w)' /\ WritePoints(w)' /\ SyncPoints(w)'
        BY <1>1, <1>6, <3>1 DEF RevisePoints, WritePoints, SyncPoints
      <3> QED BY <2>3, <3>2, <3>3 DEF PointsTruly
    <2> QED BY <2>4, <2>5
  <1> QED BY <1>10, <1>11

LEMMA PromoteKeepsLive ==
    ASSUME TypeOK, RolesInv, RolesInv', LiveInv, NEW w \in Writers, PromotePrevious(w)
    PROVE  LiveInv'
  <1>1. PICK p \in Plans : p = plan[w]
    BY DEF TypeOK
  <1>2. /\ AloneSteps(w)
        /\ stage[w] = "promoting" /\ stage'[w] = "idle"
        /\ intact' = intact /\ straight' = straight
        /\ Latest = {}
        /\ p.heir # 0 /\ p.heir \in Versions /\ Present(p.heir)
        /\ \A u \in Versions : u # p.heir => rows'[u] = rows[u]
        /\ rows'[p.heir] # NoRow
        /\ rows'[p.heir].isPublished = rows[p.heir].isPublished
        /\ rows'[p.heir].data.live = p.heirEntry.live
    BY <1>1, Promoted
  <1>3. SUFFICES ASSUME intact', straight' PROVE PointsTruly(w)' /\ (PointerIsTrue' \/ Moves(w)')
    BY <1>2, LiveStep
  <1>4. p.heirEntry.live \in LiveVersion
    BY <1>1, <1>2, <1>3, LiveHere DEF AloneSteps, PointsTruly, HeirPoints
  <1>5. \A u \in Versions : (u \in Published' <=> u \in Published)
    BY <1>2 DEF Published, Present
  <1>6. LiveVersion' = LiveVersion
    BY <1>5, SamePublished
  <1>7. \A l \in Latest' : l = p.heir
    BY <1>2 DEF Latest, Present
  <1>8. PointerIsTrue'
    BY <1>2, <1>4, <1>6, <1>7 DEF PointerIsTrue
  <1> QED BY <1>2, <1>8, IdleCarriesNothing

LEMMA PatchKeepsLive ==
    ASSUME TypeOK, RolesInv, RolesInv', LiveInv, NEW w \in Writers, PatchAll(w)
    PROVE  LiveInv'
  <1>1. PICK p \in Plans : p = plan[w]
    BY DEF TypeOK
  <1>2. /\ AloneSteps(w)
        /\ stage[w] = "patching" /\ straight' = straight
        /\ \/ intact' = FALSE
           \/ /\ intact' = intact
              /\ IF p.heir # 0 THEN stage'[w] = "promoting" /\ plan' = plan ELSE stage'[w] = "idle"
              /\ EveryRowPatched(w)
    BY <1>1, AllPatched
  <1>3. SUFFICES ASSUME intact', straight' PROVE PointsTruly(w)' /\ (PointerIsTrue' \/ Moves(w)')
    BY <1>2, LiveStep
  <1>4. PointsTruly(w) /\ (PointerIsTrue \/ Moves(w))
    BY <1>2, <1>3, LiveHere DEF AloneSteps
  <1>5. /\ p.kind \in {"bin", "restore", "deleteRevision"}
        /\ p.kind = "deleteRevision" => Published = {}
        /\ p.heir # 0 => p.heirEntry.live \in LiveVersion
    BY <1>1, <1>2, <1>4 DEF PointsTruly, HeirPoints
  <1>6. \A u \in Versions : (u \in Published' <=> u \in Published)
    BY <1>2, <1>3 DEF EveryRowPatched, Published, Present
  <1>7. LiveVersion' = LiveVersion /\ Published' = Published
    BY <1>6, SamePublished
  <1>8. PointerIsTrue'
    <2>1. \A l \in Versions : l \in Latest' => Present(l) /\ l \in Latest
      BY <1>2, <1>3 DEF EveryRowPatched, Latest, Present
    <2>2. CASE p.kind = "deleteRevision"
      <3>1. \A l \in Latest' : l \in Versions
        BY DEF Latest
      <3>2. \A l \in Latest' : rows'[l].data.live = 0
        BY <1>1, <1>2, <1>3, <2>1, <2>2, <3>1 DEF EveryRowPatched
      <3> QED BY <1>5, <1>7, <2>2, <3>2 DEF PointerIsTrue, LiveVersion
    <2>3. CASE p.kind \in {"bin", "restore"}
      <3>1. PointerIsTrue
        BY <1>1, <1>4, <2>3 DEF Moves
      <3>2. \A l \in Versions : l \in Latest' => l \in Latest /\ rows'[l].data.live = rows[l].data.live
        BY <1>1, <1>2, <1>3, <2>1, <2>3 DEF EveryRowPatched
      <3> QED BY <1>7, <3>1, <3>2, SamePointer
    <2> QED BY <1>5, <2>2, <2>3
  <1>9. CASE p.heir = 0
    BY <1>2, <1>3, <1>8, <1>9, IdleCarriesNothing
  <1>10. CASE p.heir # 0
    <2>1. stage'[w] = "promoting" /\ plan' = plan
      BY <1>2, <1>3, <1>10
    <2>2. HeirPoints(w)'
      BY <1>1, <1>5, <1>7, <2>1 DEF HeirPoints
    <2>3. RevisePoints(w)' /\ WritePoints(w)' /\ SyncPoints(w)'
      BY <1>1, <1>5, <2>1 DEF RevisePoints, WritePoints, SyncPoints
    <2> QED BY <1>8, <2>2, <2>3 DEF PointsTruly
  <1> QED BY <1>9, <1>10

LEMMA EndKeepsLive ==
    ASSUME TypeOK, RolesInv, RolesInv', LiveInv, NEW w \in Writers, Empty(w) \/ BreakOff(w)
    PROVE  LiveInv'
  <1>1. /\ AloneSteps(w)
        /\ stage'[w] = "idle"
        /\ intact' = FALSE \/ \A v \in Versions : rows'[v] = NoRow
    BY Ended
  <1>2. intact' => PointerIsTrue'
    BY <1>1, NoLatestIsTrue DEF Latest, Present
  <1> QED BY <1>1, <1>2, IdleCarriesNothing, LiveStep

LEMMA LiveKeptByAll ==
    ASSUME OneAtATime, TypeOK, RolesInv, LiveInv, [Next]_vars
    PROVE  LiveInv'
  <1>0. RolesInv'
    BY RolesKept
  <1>1. CASE UNCHANGED vars
    <2>1. /\ rows' = rows /\ stage' = stage /\ plan' = plan /\ found' = found
          /\ intact' = intact /\ straight' = straight
      BY <1>1 DEF vars
    <2>2. /\ Latest' = Latest /\ Published' = Published /\ LiveVersion' = LiveVersion
          /\ PointerIsTrue => PointerIsTrue'
      BY <2>1, SameRowsPoint
    <2>3. ASSUME NEW w \in Writers, PointsTruly(w)
          PROVE  PointsTruly(w)'
      <3>1. RevisePoints(w)' /\ WritePoints(w)'
        BY <2>1, <2>2, <2>3 DEF PointsTruly, RevisePoints, WritePoints, Present
      <3>2. SyncPoints(w)' /\ HeirPoints(w)'
        BY <2>1, <2>2, <2>3 DEF PointsTruly, SyncPoints, HeirPoints, Present
      <3> QED BY <3>1, <3>2 DEF PointsTruly
    <2>4. \A w \in Writers : Moves(w) => Moves(w)'
      BY <2>1 DEF Moves
    <2> QED BY <2>1, <2>2, <2>3, <2>4 DEF LiveInv
  <1>2. CASE Next
    <2>1. PICK w \in Writers : NextOf(w)
      BY <1>2, NextIsOfOne
    <2>2. 1 \in Versions /\ "draft" \in Statuses
      BY DEF Versions, Statuses
    <2> QED BY <1>0, <2>1, <2>2, StartsKeepLive, DeletionKeepsLive, CreateKeepsLive,
               FindKeepsLive, ClearKeepsLive, InsertKeepsLive, ReadKeepsLive, WriteKeepsLive,
               SyncKeepsLive, EraseKeepsLive, PromoteKeepsLive, PatchKeepsLive, EndKeepsLive DEF NextOf
  <1> QED BY <1>1, <1>2

\* Between operations nobody moves the pointer.
LEMMA LiveTells ==
    ASSUME RolesInv, LiveInv
    PROVE  LiveIsKeptUp
  <1>1. SUFFICES ASSUME Quiet, intact, straight PROVE PointerIsTrue
    BY DEF LiveIsKeptUp, PointerIsTrue
  <1> QED BY <1>1, IdleHoldsNothing DEF LiveInv, Quiet

-----------------------------------------------------------------------------
LEMMA EntryInitially == Init => OrderInv /\ LiveInv
  <1>1. SUFFICES ASSUME Init PROVE OrderInv /\ LiveInv
    OBVIOUS
  <1>2. \A v \in Versions : ~Present(v)
    BY <1>1 DEF Init, Present, NoRows
  <1>3. Latest = {} /\ Published = {}
    BY <1>2 DEF Latest, Published
  <1>4. \A w \in Writers : stage[w] = "idle" /\ plan[w].heir = 0
    BY <1>1 DEF Init, NoPlan
  <1>6. OrderInv
    BY <1>2, <1>3, <1>4 DEF OrderInv, TopIsLatest, NextIsOnTop, SomeIsLatest
  <1>7. PointerIsTrue
    BY <1>3 DEF PointerIsTrue
  <1>8. \A w \in Writers : PointsTruly(w)
    BY <1>4 DEF PointsTruly, RevisePoints, WritePoints, SyncPoints, HeirPoints
  <1> QED BY <1>6, <1>7, <1>8 DEF LiveInv

LEMMA EntryAlways ==
    ASSUME OneAtATime
    PROVE  Spec => [](TypeOK /\ RolesInv /\ OrderInv /\ LiveInv)
  <1>1. Init => TypeOK /\ RolesInv /\ OrderInv /\ LiveInv
    BY InitialTypes, RolesInitially, EntryInitially
  <1>2. TypeOK /\ RolesInv /\ OrderInv /\ LiveInv /\ [Next]_vars
          => (TypeOK /\ RolesInv /\ OrderInv /\ LiveInv)'
    BY OneAtATime, TypesKept, RolesKept, OrderKeptByAll, LiveKeptByAll
  <1> QED BY <1>1, <1>2, PTL DEF Spec

(* As long as one operation follows the other: once an operation has       *)
(* ended, and none before it broke off, the newest revision of an entry is *)
(* the latest one: create revision takes the flag from the old latest row  *)
(* statements before the new row has it, and delete revision gives it to   *)
(* the row that was chosen before the latest one went.                     *)
THEOREM NewestStaysLatest ==
    ASSUME OneAtATime
    PROVE  Spec => []NewestIsLatest
  <1>1. RolesInv /\ OrderInv => NewestIsLatest
    BY OrderTells
  <1>2. Spec => [](TypeOK /\ RolesInv /\ OrderInv /\ LiveInv)
    BY OneAtATime, EntryAlways
  <1> QED BY <1>1, <1>2, PTL

(* From the same assumption: once an operation has ended, none before it   *)
(* broke off and every revision was made of the latest one as a draft, the *)
(* live pointer of the latest revision names the published one, or none.   *)
(* Publish, unpublish and delete revision change the published row and the *)
(* pointer in different statements, create revision and delete revision    *)
(* hand the pointer to another row.                                        *)
THEOREM LivePointerIsTrue ==
    ASSUME OneAtATime
    PROVE  Spec => []LiveIsKeptUp
  <1>1. RolesInv /\ LiveInv => LiveIsKeptUp
    BY LiveTells
  <1>2. Spec => [](TypeOK /\ RolesInv /\ OrderInv /\ LiveInv)
    BY OneAtATime, EntryAlways
  <1> QED BY <1>1, <1>2, PTL

\* The number of a revision under way, which nothing but the primary key guards.
NumberIsFree == \A w \in Writers : stage[w] # "idle" /\ plan[w].kind = "revise" => ~Present(plan[w].id)

(* From the same assumption: no revision is numbered above the latest one, *)
(* and a revision that is being created has a number that no row has; so   *)
(* the primary key refuses none, whatever broke off and was deleted before *)
(* (StartRevision counts on from the latest one, InsertRevision relies on  *)
(* the key).                                                               *)
THEOREM NumbersAreFree ==
    ASSUME OneAtATime
    PROVE  Spec => [](TopIsLatest /\ NumberIsFree)
  <1>1. TypeOK /\ OrderInv => TopIsLatest /\ NumberIsFree
    <2>1. SUFFICES ASSUME TypeOK, OrderInv, NEW w \in Writers, stage[w] # "idle",
                          plan[w].kind = "revise", Present(plan[w].id)
                   PROVE  FALSE
      BY DEF OrderInv, NumberIsFree
    <2>2. plan[w].id \in Versions
      BY <2>1 DEF TypeOK, Plans
    <2>3. plan[w].id < plan[w].id
      BY <2>1, <2>2 DEF OrderInv, NextIsOnTop
    <2> QED BY <2>2, <2>3 DEF Versions
  <1>2. Spec => [](TypeOK /\ RolesInv /\ OrderInv /\ LiveInv)
    BY OneAtATime, EntryAlways
  <1> QED BY <1>1, <1>2, PTL
-----------------------------------------------------------------------------
(* Requests that overlap.  A row that w is not behind on is as it was when *)
(* w read it; as long as no change is lost, w writes such rows only, or    *)
(* leaves the row as it is.                                                *)

\* What w does next fits what it was asked for.
PlanHolds(w) ==
    LET p == plan[w]
    IN  /\ stage[w] = "idle" => found[w] = NoRows
        /\ stage[w] \in {"oldLatest", "clearing"} => p.kind = "revise"
        /\ stage[w] = "oldPublished" => p.kind = "publish"
        /\ stage[w] = "retiring" => Publishes(p)
        /\ stage[w] = "flags" => p.kind \in {"update", "unpublish"}
        /\ stage[w] = "writing" => /\ p.kind \in {"update", "publish", "unpublish"}
                                   /\ p.kind = "publish" => p.entry.published
                                   /\ p.kind = "unpublish" => ~p.entry.published
        /\ p.kind = "revise" => p.entry.published = (p.entry.status = "published")
        /\ p.kind = "publish" => p.entry.status = "published"
        /\ p.kind = "unpublish" => p.entry.status # "published"
        /\ stage[w] = "promoting" => p.heir # 0
        /\ p.heir # 0 => /\ stage[w] \in {"erasing", "patch", "patching", "promoting"}
                         /\ p.heirEntry.published = (p.heirEntry.status = "published")

\* What w has read of the row v is still true.
KnownRow(w, v) ==
    LET p == plan[w]
    IN  /\ found[w][v] # NoRow => found[w][v] = rows[v]
        /\ v = p.id /\ Present(v) =>
             /\ p.kind = "update" /\ stage[w] \in {"flags", "writing"} =>
                  p.entry.status = rows[v].data.status
             /\ p.kind = "update" /\ stage[w] = "writing" =>
                  p.entry.published = rows[v].isPublished
             /\ stage[w] = "writing" => p.entry.latest = rows[v].isLatest
        /\ v = p.heir /\ Present(v) => p.heirEntry.published = rows[v].isPublished

\* A request that publishes has found every published row, and writes when none is left.
AllRetired(w) ==
    /\ stage[w] = "retiring" => \A v \in Published : found[w][v] # NoRow
    /\ stage[w] = "writing" /\ plan[w].kind = "publish" => Published = {}

WritesAreKnown ==
    /\ RowsAgree
    /\ \A w \in Writers : PlanHolds(w) /\ \A v \in Versions : v \notin behind[w] => KnownRow(w, v)

OverlapInv ==
    /\ raced \/ ~TwoPublish
    /\ ~lost => WritesAreKnown
    /\ ~lost /\ ~raced => AtMostOnePublished /\ \A w \in Writers : AllRetired(w)

\* The step of w loses no change.
Careful(w) == \A v \in Versions : rows'[v] = rows[v] \/ v \notin behind[w]

LEMMA NothingIsLost ==
    ASSUME History, ~lost', NEW w \in Writers, Moved(w)
    PROVE  ~lost /\ Careful(w)
  BY DEF History, Changed, Careful

\* What a step of w does to the published rows, when no two requests publish.
PublishesAlone(w) ==
    /\ AtMostOnePublished'
    /\ AllRetired(w)'
    /\ Published' \subseteq Published \/ Publishes(plan[w])

LEMMA OthersStillKnow ==
    ASSUME History, OverlapInv, ~lost, NEW o \in Writers,
           stage'[o] = stage[o], plan'[o] = plan[o], found'[o] = found[o]
    PROVE  PlanHolds(o)' /\ \A v \in Versions : v \notin behind'[o] => KnownRow(o, v)'
  <1>0. PlanHolds(o) /\ \A v \in Versions : v \notin behind[o] => KnownRow(o, v)
    BY DEF OverlapInv, WritesAreKnown
  <1>1. PlanHolds(o)'
    BY <1>0 DEF PlanHolds, Publishes
  <1>2. ASSUME NEW v \in Versions, v \notin behind'[o] PROVE KnownRow(o, v)'
    <2>1. CASE stage[o] = "idle"
      <3>1. found[o] = NoRows /\ plan[o].heir = 0
        BY <1>0, <2>1 DEF PlanHolds
      <3> QED BY <2>1, <3>1 DEF KnownRow, NoRows, Versions
    <2>2. CASE stage[o] # "idle"
      <3>1. behind'[o] = behind[o] \cup Changed
        BY <2>2 DEF History, Moved
      <3>2. KnownRow(o, v) /\ rows'[v] = rows[v]
        BY <1>0, <1>2, <3>1 DEF Changed
      <3> QED BY <3>2 DEF KnownRow, Present
    <2> QED BY <2>1, <2>2
  <1> QED BY <1>1, <1>2

\* A step of w, as to what it writes and what the others know.
LEMMA OverlapStep ==
    ASSUME History, OverlapInv, ~lost, NEW w \in Writers, OthersWait(w),
           RowsAgree', PlanHolds(w)',
           \A v \in Versions : v \notin behind'[w] => KnownRow(w, v)',
           ~raced => PublishesAlone(w)
    PROVE  OverlapInv'
  <1>1. raced' \/ ~TwoPublish'
    BY DEF History
  <1>2. WritesAreKnown'
    <2>1. ASSUME NEW o \in Writers, o # w
          PROVE  PlanHolds(o)' /\ \A v \in Versions : v \notin behind'[o] => KnownRow(o, v)'
      BY <2>1, OthersStillKnow DEF OthersWait
    <2> QED BY <2>1 DEF WritesAreKnown
  <1>3. ASSUME ~raced' PROVE AtMostOnePublished' /\ \A o \in Writers : AllRetired(o)'
    <2>1. ~raced /\ ~TwoPublish
      BY <1>3 DEF History, OverlapInv
    <2>2. ASSUME NEW o \in Writers, o # w PROVE AllRetired(o)'
      <3>1. stage'[o] = stage[o] /\ plan'[o] = plan[o] /\ found'[o] = found[o]
        BY <2>2 DEF OthersWait
      <3>2. AllRetired(o) /\ PlanHolds(o)
        BY <2>1 DEF OverlapInv, WritesAreKnown
      <3>3. CASE Published' \subseteq Published
        BY <3>1, <3>2, <3>3 DEF AllRetired
      <3>4. CASE Publishes(plan[w])
        <4>1. ~Publishes(plan[o])
          BY <2>1, <2>2, <3>4 DEF TwoPublish
        <4> QED BY <3>1, <3>2, <4>1 DEF AllRetired, PlanHolds, Publishes
      <3> QED BY <2>1, <3>3, <3>4 DEF PublishesAlone
    <2> QED BY <2>1, <2>2 DEF PublishesAlone
  <1> QED BY <1>1, <1>2, <1>3 DEF OverlapInv

LEMMA EndKnowsNothing ==
    ASSUME TypeOK, NEW w \in Writers, Finish(w)
    PROVE  /\ OthersWait(w)
           /\ PlanHolds(w)' /\ AllRetired(w)'
           /\ \A v \in Versions : KnownRow(w, v)'
  <1>1. stage'[w] = "idle" /\ plan'[w] = NoPlan /\ found'[w] = NoRows
    BY DEF Finish, TypeOK
  <1>2. OthersWait(w)
    BY FinishIsSound
  <1>3. PlanHolds(w)' /\ AllRetired(w)'
    BY <1>1 DEF PlanHolds, AllRetired, NoPlan
  <1>4. ASSUME NEW v \in Versions PROVE KnownRow(w, v)'
    BY <1>1 DEF KnownRow, NoPlan, NoRows, Versions
  <1> QED BY <1>2, <1>3, <1>4

\* The operation of w ends with a statement, or without one.
LEMMA EndOverlaps ==
    ASSUME TypeOK, History, OverlapInv, ~lost, NEW w \in Writers, Finish(w), RowsAgree',
           ~raced => AtMostOnePublished' /\ (Published' \subseteq Published \/ Publishes(plan[w]))
    PROVE  OverlapInv'
  BY EndKnowsNothing, OverlapStep DEF PublishesAlone

\* w goes on, with what it knew of the rows or with what it reads now.
LEMMA StepOverlaps ==
    ASSUME History, OverlapInv, ~lost, NEW w \in Writers, OthersWait(w), Moved(w),
           stage'[w] # "idle", RowsAgree', PlanHolds(w)',
           \A v \in Versions : v \notin behind[w] => KnownRow(w, v)',
           ~raced => PublishesAlone(w)
    PROVE  OverlapInv'
  <1>1. behind'[w] = behind[w]
    BY DEF History
  <1> QED BY <1>1, OverlapStep

LEMMA SameRowsOverlap ==
    ASSUME OverlapInv, ~lost, rows' = rows
    PROVE  /\ RowsAgree' /\ Latest' = Latest /\ Published' = Published
           /\ ~raced => AtMostOnePublished'
  BY DEF OverlapInv, WritesAreKnown, RowsAgree, Latest, Published, Present, AtMostOnePublished

LEMMA UpdateOverlaps ==
    ASSUME TypeOK, RowsAgree, NEW w \in Writers, NEW v \in Versions, NEW row, UpdateRow(v, row),
           Careful(w), Present(v) => row \in Row,
           Present(v) /\ v \notin behind[w] => FlagsOK(row)
    PROVE  /\ RowsAgree'
           /\ \A u \in Versions : (Present(u)' <=> Present(u))
           /\ \A u \in Versions : u # v => rows'[u] = rows[u]
           /\ Present(v) => rows'[v] = row
           /\ \A u \in Versions : u # v => (u \in Published' <=> u \in Published)
           /\ v \in Published' <=> Present(v) /\ row.isPublished
  <1>1. /\ \A u \in Versions : u # v => rows'[u] = rows[u]
        /\ Present(v) => rows'[v] = row
        /\ ~Present(v) => rows'[v] = NoRow
    BY UpdatedTable DEF TypeOK
  <1>2. Present(v)' <=> Present(v)
    BY <1>1, NoRowIsNoRow DEF Present
  <1>3. \A u \in Versions : (Present(u)' <=> Present(u))
    BY <1>1, <1>2 DEF Present
  <1>4. Present(v) => FlagsOK(row)
    BY <1>1 DEF Careful, RowsAgree
  <1>5. RowsAgree'
    BY <1>1, <1>3, <1>4 DEF RowsAgree
  <1> QED BY <1>1, <1>2, <1>3, <1>5 DEF Published

LEMMA StartOverlaps ==
    ASSUME TypeOK, History, OverlapInv, ~lost', NEW w \in Writers, NEW k \in Kinds, NEW v \in Versions,
           NEW d \in Data, NEW g \in Stages, Start(w, k, v, d, g),
           \/ k = "revise" /\ g = "oldLatest" /\ d.published = (d.status = "published")
           \/ k = "update" /\ g = "flags" /\ d.status = rows[v].data.status
           \/ k = "publish" /\ g = "oldPublished" /\ d.status = "published"
           \/ k = "unpublish" /\ g = "flags" /\ d.status # "published"
           \/ k = "delete" /\ g = "emptying"
           \/ k \in {"bin", "restore"} /\ g = "patch"
    PROVE  OverlapInv'
  <1>1. /\ stage[w] = "idle" /\ stage'[w] = g /\ plan'[w].kind = k /\ plan'[w].id = v /\ plan'[w].entry = d
        /\ plan'[w].heir = 0 /\ found' = found /\ g # "idle"
    BY DEF Start, MayStart, TypeOK
  <1>2. OthersWait(w) /\ rows' = rows /\ Moved(w)
    BY <1>1 DEF Start, TypeOK, OthersWait, Moved
  <1>3. ~lost
    BY <1>2, NothingIsLost
  <1>4. found'[w] = NoRows
    BY <1>1, <1>3 DEF OverlapInv, WritesAreKnown, PlanHolds
  <1>5. PlanHolds(w)'
    BY <1>1 DEF PlanHolds
  <1>6. ASSUME NEW u \in Versions PROVE KnownRow(w, u)'
    BY <1>1, <1>2, <1>4 DEF KnownRow, NoRows, Versions, Present
  <1>7. AllRetired(w)'
    BY <1>1 DEF AllRetired
  <1>8. ~raced => PublishesAlone(w)
    BY <1>2, <1>3, <1>7, SameRowsOverlap DEF PublishesAlone
  <1> QED BY <1>1, <1>2, <1>3, <1>5, <1>6, <1>8, SameRowsOverlap, StepOverlaps

LEMMA StartsOverlap ==
    ASSUME TypeOK, History, OverlapInv, ~lost', NEW w \in Writers, NEW v \in Versions, NEW s \in Statuses,
           \/ StartRevision(w, v, s) \/ StartUpdate(w, v) \/ StartPublish(w, v)
           \/ StartUnpublish(w, v) \/ StartDelete(w) \/ StartMoveToBin(w) \/ StartRestore(w)
    PROVE  OverlapInv'
  <1>1. PICK k \in Kinds, u \in Versions, d \in Data, g \in Stages :
          /\ Start(w, k, u, d, g)
          /\ \/ /\ k = "revise" /\ g = "oldLatest"
                /\ d.published = (s = "published") /\ d.status = s
             \/ k = "update" /\ g = "flags" /\ d.status = rows[u].data.status
             \/ k = "publish" /\ g = "oldPublished" /\ d.status = "published"
             \/ k = "unpublish" /\ g = "flags" /\ d.status # "published"
             \/ k = "delete" /\ g = "emptying"
             \/ k \in {"bin", "restore"} /\ g = "patch"
    BY StartsSay
  <1> QED BY <1>1, StartOverlaps

LEMMA DeletionOverlaps ==
    ASSUME TypeOK, History, OverlapInv, ~lost', NEW w \in Writers, NEW v \in Versions,
           StartDeleteRevision(w, v)
    PROVE  OverlapInv'
  <1>1. PICK l \in Latest : \E heir \in Heirs(v, l) :
          LET whole == v = l /\ heir = 0
              gone == rows[v].data
          IN  /\ MayStart(w)
              /\ stage' = [stage EXCEPT ![w] = IF whole THEN "emptying" ELSE "erasing"]
              /\ plan' = [plan EXCEPT ![w] =
                   [kind |-> IF whole THEN "delete" ELSE "deleteRevision",
                    id |-> v, entry |-> gone, heir |-> heir,
                    heirEntry |-> IF heir = 0 THEN Blank
                                  ELSE [rows[heir].data EXCEPT
                                         !.latest = TRUE,
                                         !.live = IF gone.status = "published" THEN 0
                                                  ELSE gone.live]]]
              /\ UNCHANGED <<rows, found, intact, straight>>
    BY DEF StartDeleteRevision
  <1>2. PICK heir \in Heirs(v, l) :
          LET whole == v = l /\ heir = 0
              gone == rows[v].data
          IN  /\ MayStart(w)
              /\ stage' = [stage EXCEPT ![w] = IF whole THEN "emptying" ELSE "erasing"]
              /\ plan' = [plan EXCEPT ![w] =
                   [kind |-> IF whole THEN "delete" ELSE "deleteRevision",
                    id |-> v, entry |-> gone, heir |-> heir,
                    heirEntry |-> IF heir = 0 THEN Blank
                                  ELSE [rows[heir].data EXCEPT
                                         !.latest = TRUE,
                                         !.live = IF gone.status = "published" THEN 0
                                                  ELSE gone.live]]]
              /\ UNCHANGED <<rows, found, intact, straight>>
    BY <1>1
  <1> DEFINE n == IF rows[v].data.status = "published" THEN 0 ELSE rows[v].data.live
             e == IF heir = 0 THEN Blank
                  ELSE [rows[heir].data EXCEPT !.latest = TRUE, !.live = n]
  <1>3. /\ stage[w] = "idle"
        /\ stage'[w] \in {"emptying", "erasing"}
        /\ heir # 0 => stage'[w] = "erasing"
        /\ plan'[w].kind \in {"delete", "deleteRevision"}
        /\ plan'[w].heir = heir /\ plan'[w].heirEntry = e
        /\ rows' = rows /\ found' = found
        /\ OthersWait(w)
    BY <1>2 DEF TypeOK, MayStart, OthersWait
  <1>4. Moved(w)
    BY <1>3 DEF Moved
  <1>5. ~lost
    BY <1>4, NothingIsLost
  <1>6. found'[w] = NoRows
    BY <1>3, <1>5 DEF OverlapInv, WritesAreKnown, PlanHolds
  <1>7. heir # 0 => heir \in Versions /\ Present(heir)
    BY HeirIsThere
  <1>8. heir # 0 => /\ e.published = (e.status = "published")
                    /\ e.published = rows[heir].isPublished
    <2>1. heir # 0 => rows[heir].data \in Data /\ FlagsOK(rows[heir])
      BY <1>5, <1>7, PresentRow DEF TypeOK, OverlapInv, WritesAreKnown, RowsAgree
    <2> HIDE DEF n
    <2> QED BY <2>1 DEF FlagsOK, Data
  <1> HIDE DEF e
  <1>9. PlanHolds(w)'
    BY <1>3, <1>8 DEF PlanHolds
  <1>10. ASSUME NEW u \in Versions PROVE KnownRow(w, u)'
    <2>1. u = plan'[w].heir => heir # 0 /\ plan'[w].heirEntry.published = rows'[u].isPublished
      BY <1>3, <1>8 DEF Versions
    <2> QED BY <1>3, <1>6, <2>1 DEF KnownRow, NoRows
  <1>11. AllRetired(w)'
    BY <1>3 DEF AllRetired
  <1>12. ~raced => PublishesAlone(w)
    BY <1>3, <1>5, <1>11, SameRowsOverlap DEF PublishesAlone
  <1> QED BY <1>3, <1>4, <1>5, <1>9, <1>10, <1>12, SameRowsOverlap, StepOverlaps

LEMMA CreateOverlaps ==
    ASSUME TypeOK, History, OverlapInv, ~lost', NEW w \in Writers, NEW s \in Statuses, CreateEntry(w, s)
    PROVE  OverlapInv'
  <1>0. ~lost
    BY DEF History
  <1> DEFINE d == [latest |-> TRUE, published |-> s = "published", deleted |-> FALSE,
                   status |-> s, locked |-> s # "draft",
                   live |-> IF s = "published" THEN 1 ELSE 0]
  <1>1. /\ rows = NoRows
        /\ rows' = [rows EXCEPT ![1] = EntryToRow(d)]
        /\ Quiet
        /\ UNCHANGED <<stage, plan, found>>
    BY DEF CreateEntry
  <1>2. FlagsOK(EntryToRow(d))
    BY DEF FlagsOK, EntryToRow
  <1> HIDE DEF d
  <1>3. \A v \in Versions : Present(v)' => v = 1 /\ rows'[v] = EntryToRow(d)
    BY <1>1 DEF Present, NoRows
  <1>4. RowsAgree' /\ AtMostOnePublished'
    BY <1>2, <1>3 DEF RowsAgree, AtMostOnePublished, AtMostOne, Published
  <1>5. ASSUME NEW o \in Writers
        PROVE  /\ PlanHolds(o)' /\ AllRetired(o)'
               /\ \A v \in Versions : v \notin behind'[o] => KnownRow(o, v)'
    <2>1. AllRetired(o)'
      BY <1>1 DEF Quiet, AllRetired
    <2> QED BY <1>0, <1>1, <2>1, OthersStillKnow
  <1>6. raced' \/ ~TwoPublish'
    BY DEF History
  <1> QED BY <1>4, <1>5, <1>6 DEF OverlapInv, WritesAreKnown

LEMMA FindOverlaps ==
    ASSUME TypeOK, History, OverlapInv, ~lost', NEW w \in Writers,
           \/ FindOldLatest(w) \/ FindOldPublished(w) \/ FindLatest(w) \/ FindAll(w)
    PROVE  OverlapInv'
  <1> USE DEF Stages
  <1>0. rows' = rows /\ stage[w] # "idle"
    BY DEF FindOldLatest, FindOldPublished, FindLatest, FindAll
  <1>1. ASSUME NEW vs, NEW g \in {"clearing", "retiring", "syncing", "patching"},
               Find(w, vs), Goto(w, g), stage[w] # g,
               g = "clearing" => plan[w].kind = "revise",
               g = "retiring" => Publishes(plan[w]) /\ vs = Published,
               plan[w].heir # 0 => g = "patching"
        PROVE  OverlapInv'
    <2>1. /\ \A v \in Versions : found'[w][v] = IF v \in vs THEN rows[v] ELSE NoRow
          /\ \A o \in Writers : o # w => found'[o] = found[o]
      BY <1>1, OldFinds DEF TypeOK
    <2>2. stage'[w] = g /\ plan' = plan /\ OthersWait(w)
      BY <1>1, <2>1, GotoWaits
    <2>3. Moved(w)
      BY <1>1, <2>2 DEF Moved
    <2>4. ~lost
      BY <2>3, NothingIsLost
    <2>5. PlanHolds(w) /\ \A v \in Versions : v \notin behind[w] => KnownRow(w, v)
      BY <2>4 DEF OverlapInv, WritesAreKnown
    <2>6. PlanHolds(w)'
      BY <1>1, <2>2, <2>5 DEF PlanHolds, Publishes
    <2>7. ASSUME NEW v \in Versions, v \notin behind[w] PROVE KnownRow(w, v)'
      <3>1. KnownRow(w, v)
        BY <2>5, <2>7
      <3> QED BY <1>0, <2>1, <2>2, <3>1 DEF KnownRow, Present
    <2>8. RowsAgree' /\ Published' = Published /\ (~raced => AtMostOnePublished')
      BY <1>0, <2>4, SameRowsOverlap
    <2>9. AllRetired(w)'
      BY <1>1, <2>1, <2>2, <2>8 DEF AllRetired, Published, Present
    <2> QED BY <2>2, <2>3, <2>4, <2>6, <2>7, <2>8, <2>9, StepOverlaps DEF PublishesAlone
  <1>2. ASSUME Finish(w) PROVE OverlapInv'
    <2>1. Moved(w)
      BY <1>0, <1>2 DEF Finish, TypeOK, Moved
    <2>2. ~lost
      BY <2>1, NothingIsLost
    <2> QED BY <1>0, <1>2, <2>2, SameRowsOverlap, EndOverlaps
  <1>3. stage'[w] # stage[w] => ~lost /\ PlanHolds(w)
    BY NothingIsLost DEF Moved, OverlapInv, WritesAreKnown
  <1>4. CASE FindOldLatest(w)
    <2>1. Find(w, Latest) /\ Goto(w, "clearing") /\ stage[w] = "oldLatest"
      BY <1>4 DEF FindOldLatest
    <2>2. stage'[w] = "clearing"
      BY <2>1, GotoWaits
    <2>3. PlanHolds(w)
      BY <1>3, <2>1, <2>2
    <2>4. plan[w].kind = "revise" /\ plan[w].heir = 0
      BY <2>1, <2>3 DEF PlanHolds
    <2> QED BY <1>1, <2>1, <2>4
  <1>5. CASE FindOldPublished(w)
    <2>1. Find(w, Published) /\ Goto(w, "retiring") /\ stage[w] \in {"oldPublished", "clearing"}
      BY <1>5 DEF FindOldPublished
    <2>2. stage'[w] = "retiring"
      BY <2>1, GotoWaits
    <2>3. PlanHolds(w)
      BY <1>3, <2>1, <2>2
    <2>4. Publishes(plan[w]) /\ plan[w].heir = 0
      BY <1>5, <2>1, <2>3 DEF PlanHolds, Publishes, FindOldPublished
    <2> QED BY <1>1, <2>1, <2>4
  <1>6. CASE FindLatest(w)
    <2>1. CASE Latest = {}
      BY <1>2, <1>6, <2>1 DEF FindLatest, Succeed
    <2>2. CASE Latest # {}
      <3>1. PICK l \in Latest : Find(w, {l}) /\ Goto(w, "syncing") /\ stage[w] = "sync"
        BY <1>6, <2>2 DEF FindLatest
      <3>2. stage'[w] = "syncing"
        BY <3>1, GotoWaits
      <3>3. PlanHolds(w)
        BY <1>3, <3>1, <3>2
      <3>4. plan[w].heir = 0
        BY <3>1, <3>3 DEF PlanHolds
      <3> QED BY <1>1, <3>1, <3>4
    <2> QED BY <2>1, <2>2
  <1>7. CASE FindAll(w)
    <2>0. stage[w] = "patch"
      BY <1>7 DEF FindAll
    <2>1. CASE rows # NoRows
      BY <1>1, <1>7, <2>0, <2>1 DEF FindAll
    <2>2. CASE rows = NoRows
      <3>1. GotoOrSucceed(w, plan[w].heir # 0, "promoting")
        BY <1>7, <2>2 DEF FindAll
      <3>2. CASE plan[w].heir = 0
        BY <1>2, <3>1, <3>2 DEF GotoOrSucceed, Succeed
      <3>3. CASE plan[w].heir # 0
        <4>1. stage'[w] = "promoting" /\ plan' = plan /\ found'[w] = NoRows /\ OthersWait(w)
          BY <3>1, <3>3, WentOrSucceeded
        <4>2. Moved(w)
          BY <2>0, <4>1 DEF Moved
        <4>3. ~lost
          BY <4>2, NothingIsLost
        <4>4. PlanHolds(w)
          BY <4>3 DEF OverlapInv, WritesAreKnown
        <4>5. PlanHolds(w)' /\ AllRetired(w)'
          BY <2>0, <3>3, <4>1, <4>4 DEF PlanHolds, AllRetired, Publishes
        <4>6. ASSUME NEW v \in Versions PROVE KnownRow(w, v)'
          BY <1>0, <2>2, <4>1 DEF KnownRow, NoRows, Present
        <4>7. ~raced => PublishesAlone(w)
          BY <1>0, <4>3, <4>5, SameRowsOverlap DEF PublishesAlone
        <4> QED BY <1>0, <4>1, <4>2, <4>3, <4>5, <4>6, <4>7, SameRowsOverlap, StepOverlaps
      <3> QED BY <3>2, <3>3
    <2> QED BY <2>1, <2>2
  <1> QED BY <1>4, <1>5, <1>6, <1>7

LEMMA ClearOverlaps ==
    ASSUME TypeOK, History, OverlapInv, ~lost', NEW w \in Writers, NEW v \in Versions,
           ClearLatest(w, v) \/ RetirePublished(w, v)
    PROVE  OverlapInv'
  <1>0. stage[w] \in {"clearing", "retiring"} /\ found[w][v] # NoRow
    BY DEF ClearLatest, RetirePublished
  <1>1. /\ \A u \in Versions : found'[w][u] = IF u = v THEN NoRow ELSE found[w][u]
        /\ \A o \in Writers : o # w => found'[o] = found[o]
        /\ stage' = stage
        /\ plan' = plan
    BY FoundEmptied DEF ClearLatest, RetirePublished
  <1>2. OthersWait(w) /\ Moved(w)
    BY <1>0, <1>1 DEF OthersWait, Moved
  <1>3. ~lost /\ Careful(w)
    BY <1>2, NothingIsLost
  <1>4. /\ RowsAgree /\ PlanHolds(w)
        /\ \A u \in Versions : u \notin behind[w] => KnownRow(w, u)
        /\ ~raced => AtMostOnePublished /\ AllRetired(w)
    BY <1>3 DEF OverlapInv, WritesAreKnown
  <1>5. plan[w].kind \in {"revise", "publish"} /\ plan[w].heir = 0
    BY <1>0, <1>4 DEF PlanHolds, Publishes
  <1>6. v \notin behind[w] => found[w][v] = rows[v]
    BY <1>0, <1>4 DEF KnownRow
  <1>7. PICK d \in Data : d = found[w][v].data
    BY <1>0, FoundRow DEF TypeOK
  <1>8. Present(v) => rows[v] \in Row /\ FlagsOK(rows[v])
    BY <1>4, PresentRow DEF TypeOK, RowsAgree
  <1>9. PlanHolds(w)'
    BY <1>0, <1>1, <1>4, <1>5 DEF PlanHolds, Publishes
  <1>10. ASSUME \A u \in Versions : u # v => rows'[u] = rows[u], NEW u \in Versions, u \notin behind[w]
         PROVE  KnownRow(w, u)'
    <2>1. KnownRow(w, u)
      BY <1>4, <1>10
    <2>2. found'[w][u] # NoRow => found'[w][u] = rows'[u]
      BY <1>1, <1>10, <2>1 DEF KnownRow
    <2> QED BY <1>0, <1>1, <1>5, <2>2 DEF KnownRow, Versions
  <1>11. CASE ClearLatest(w, v)
    <2> DEFINE row == [rows[v] EXCEPT !.isLatest = FALSE, !.data = [d EXCEPT !.latest = FALSE]]
    <2>1. UpdateRow(v, row) /\ stage[w] = "clearing"
      BY <1>7, <1>11 DEF ClearLatest
    <2>2. [d EXCEPT !.latest = FALSE] \in Data
      BY DataUpdates
    <2>3. Present(v) => row \in Row /\ row.isPublished = rows[v].isPublished
      BY <1>8, <2>2 DEF Row
    <2>4. Present(v) /\ v \notin behind[w] => FlagsOK(row)
      <3>1. v \notin behind[w] => rows[v].data = d
        BY <1>6, <1>7
      <3> QED BY <1>8, <2>2, <3>1 DEF FlagsOK, Row, Data
    <2> HIDE DEF row
    <2>5. /\ RowsAgree'
          /\ \A u \in Versions : u # v => rows'[u] = rows[u]
          /\ \A u \in Versions : u # v => (u \in Published' <=> u \in Published)
          /\ v \in Published' <=> Present(v) /\ row.isPublished
      BY <1>3, <1>4, <2>1, <2>3, <2>4, UpdateOverlaps
    <2>6. Published' \subseteq Published
      BY <2>3, <2>5 DEF Published
    <2>7. AllRetired(w)'
      BY <1>1, <2>1 DEF AllRetired
    <2>8. ~raced => PublishesAlone(w)
      BY <1>4, <2>6, <2>7 DEF PublishesAlone, AtMostOnePublished, AtMostOne
    <2> QED BY <1>0, <1>1, <1>2, <1>3, <1>9, <1>10, <2>5, <2>8, StepOverlaps
  <1>12. CASE RetirePublished(w, v)
    <2> DEFINE e == [d EXCEPT !.published = FALSE, !.status = "unpublished"]
               row == [rows[v] EXCEPT !.isPublished = FALSE, !.data = e]
    <2>1. UpdateRow(v, row) /\ stage[w] = "retiring"
      BY <1>7, <1>12 DEF RetirePublished
    <2>2. e \in Data
      BY DataUpdates DEF Statuses
    <2>3. e.latest = d.latest /\ e.published = FALSE /\ e.deleted = d.deleted /\ e.status = "unpublished"
      BY DEF Data
    <2> HIDE DEF e
    <2>4. Present(v) => row \in Row /\ row.isPublished = FALSE
      BY <1>8, <2>2 DEF Row
    <2>5. Present(v) /\ v \notin behind[w] => FlagsOK(row)
      <3>1. v \notin behind[w] => rows[v].data = d
        BY <1>6, <1>7
      <3> QED BY <1>8, <2>2, <2>3, <3>1 DEF FlagsOK, Row
    <2> HIDE DEF row
    <2>6. /\ RowsAgree'
          /\ \A u \in Versions : u # v => rows'[u] = rows[u]
          /\ \A u \in Versions : u # v => (u \in Published' <=> u \in Published)
          /\ v \in Published' <=> Present(v) /\ row.isPublished
      BY <1>3, <1>4, <2>1, <2>4, <2>5, UpdateOverlaps
    <2>7. \A u \in Published' : u \in Published /\ u # v
      BY <2>4, <2>6 DEF Published
    <2>8. ~raced => AllRetired(w)'
      <3>1. \A u \in Published' : u \in Versions
        BY DEF Published
      <3> QED BY <1>1, <1>4, <2>1, <2>7, <3>1 DEF AllRetired
    <2>9. ~raced => PublishesAlone(w)
      BY <1>4, <2>7, <2>8 DEF PublishesAlone, AtMostOnePublished, AtMostOne
    <2> QED BY <1>0, <1>1, <1>2, <1>3, <1>9, <1>10, <2>6, <2>9, StepOverlaps
  <1> QED BY <1>11, <1>12

LEMMA InsertOverlaps ==
    ASSUME TypeOK, History, OverlapInv, ~lost', NEW w \in Writers, InsertRevision(w)
    PROVE  OverlapInv'
  <1>0. /\ stage[w] \in {"clearing", "retiring"}
        /\ plan[w].kind = "revise"
        /\ found[w] = NoRows
        /\ Finish(w)
    BY DEF InsertRevision, FoundAll, Succeed, Fail
  <1>1. Moved(w)
    BY <1>0 DEF Finish, TypeOK, Moved
  <1>2. ~lost
    BY <1>1, NothingIsLost
  <1>3. PICK i \in Versions, d \in Data : i = plan[w].id /\ d = plan[w].entry
    BY DEF TypeOK, Plans
  <1>4. CASE Present(i)
    BY <1>0, <1>2, <1>3, <1>4, SameRowsOverlap, EndOverlaps DEF InsertRevision
  <1>5. CASE ~Present(i)
    <2>1. rows' = [rows EXCEPT ![i] = EntryToRow(d)]
      BY <1>3, <1>5 DEF InsertRevision
    <2>2. \A u \in Versions : rows'[u] = IF u = i THEN EntryToRow(d) ELSE rows[u]
      BY <2>1 DEF TypeOK, Table
    <2>3. RowsAgree /\ PlanHolds(w) /\ (~raced => AtMostOnePublished /\ AllRetired(w))
      BY <1>2 DEF OverlapInv, WritesAreKnown
    <2>4. FlagsOK(EntryToRow(d)) /\ EntryToRow(d).isPublished = d.published
      BY <1>0, <1>3, <2>3 DEF FlagsOK, EntryToRow, PlanHolds
    <2>5. RowsAgree'
      BY <2>2, <2>3, <2>4 DEF RowsAgree, Present
    <2>6. ~d.published => Published' \subseteq Published
      BY <2>2, <2>4 DEF Published, Present
    <2>7. d.published /\ ~raced => Published = {}
      <3>1. d.published => stage[w] = "retiring"
        BY <1>3 DEF InsertRevision
      <3>2. \A v \in Published : v \in Versions /\ found[w][v] = NoRow
        BY <1>0 DEF NoRows, Published
      <3> QED BY <2>3, <3>1, <3>2 DEF AllRetired
    <2>8. d.published /\ ~raced => \A u \in Published' : u = i
      BY <2>2, <2>7 DEF Published, Present
    <2>9. d.published => Publishes(plan[w])
      BY <1>0, <1>3 DEF Publishes
    <2>10. ~raced => AtMostOnePublished' /\ (Published' \subseteq Published \/ Publishes(plan[w]))
      BY <2>3, <2>6, <2>8, <2>9 DEF AtMostOnePublished, AtMostOne
    <2> QED BY <1>0, <1>2, <2>5, <2>10, EndOverlaps
  <1> QED BY <1>4, <1>5

LEMMA ReadOverlaps ==
    ASSUME TypeOK, History, OverlapInv, ~lost', NEW w \in Writers, ReadFlags(w)
    PROVE  OverlapInv'
  <1>1. PICK p \in Plans : p = plan[w]
    BY DEF TypeOK
  <1>2. p.id \in Versions /\ p.entry \in Data
    BY DEF Plans
  <1>3. /\ stage[w] \in {"flags", "retiring"}
        /\ rows' = rows /\ found' = found
        /\ stage'[w] = "writing"
        /\ plan'[w] = [p EXCEPT !.entry = FlagsRead(p)]
        /\ OthersWait(w)
    BY <1>1 DEF ReadFlags, TypeOK, OthersWait
  <1>4. plan'[w].kind = p.kind /\ plan'[w].id = p.id /\ plan'[w].heir = p.heir
        /\ plan'[w].heirEntry = p.heirEntry /\ plan'[w].entry = FlagsRead(p)
    BY <1>3 DEF Plans
  <1>5. Moved(w)
    BY <1>3 DEF Moved
  <1>6. ~lost
    BY <1>5, NothingIsLost
  <1>7. /\ PlanHolds(w) /\ \A v \in Versions : v \notin behind[w] => KnownRow(w, v)
        /\ ~raced => AllRetired(w)
    BY <1>6 DEF OverlapInv, WritesAreKnown
  <1>8. /\ FlagsRead(p).status = p.entry.status
        /\ Present(p.id) => FlagsRead(p).latest = rows[p.id].isLatest
        /\ p.kind = "publish" => FlagsRead(p).published = TRUE
        /\ p.kind = "unpublish" => FlagsRead(p).published = FALSE
        /\ p.kind = "update" /\ Present(p.id) => FlagsRead(p).published = rows[p.id].isPublished
    BY <1>2 DEF FlagsRead, Data
  <1>9. \/ stage[w] = "flags" /\ p.kind \in {"update", "unpublish"}
        \/ stage[w] = "retiring" /\ p.kind = "publish" /\ found[w] = NoRows
    BY <1>1, <1>7 DEF ReadFlags, PlanHolds, FoundAll
  <1>10. PICK e \in Data : e = FlagsRead(p)
    BY FlagsReadTypes
  <1>11. p.heir = 0
    BY <1>1, <1>3, <1>7 DEF PlanHolds
  <1>12. /\ p.kind = "publish" => e.published /\ e.status = "published"
         /\ p.kind = "unpublish" => ~e.published /\ e.status # "published"
    BY <1>1, <1>7, <1>8, <1>10 DEF PlanHolds
  <1>13. PlanHolds(w)'
    BY <1>3, <1>4, <1>9, <1>10, <1>11, <1>12 DEF PlanHolds
  <1>14. ASSUME NEW v \in Versions, v \notin behind[w] PROVE KnownRow(w, v)'
    <2>1. KnownRow(w, v)
      BY <1>7, <1>14
    <2>2. found'[w][v] # NoRow => found'[w][v] = rows'[v]
      BY <1>3, <2>1 DEF KnownRow
    <2>3. v = p.id /\ rows'[v] # NoRow =>
            /\ p.kind = "update" => e.status = rows'[v].data.status
            /\ p.kind = "update" => e.published = rows'[v].isPublished
            /\ e.latest = rows'[v].isLatest
      BY <1>1, <1>3, <1>8, <1>9, <1>10, <2>1 DEF KnownRow, Present
    <2>4. v # plan'[w].heir
      BY <1>4, <1>11 DEF Versions
    <2> QED BY <1>3, <1>4, <1>10, <2>2, <2>3, <2>4 DEF KnownRow, Present
  <1>15. /\ RowsAgree' /\ Published' = Published
         /\ ~raced => AtMostOnePublished'
    BY <1>3, <1>6, SameRowsOverlap
  <1>16. ~raced => AllRetired(w)'
    <2>1. \A v \in Published : v \in Versions /\ NoRows[v] = NoRow
      BY DEF Published, NoRows
    <2> QED BY <1>3, <1>4, <1>7, <1>9, <1>15, <2>1 DEF AllRetired
  <1>17. ~raced => PublishesAlone(w)
    BY <1>15, <1>16 DEF PublishesAlone
  <1> QED BY <1>3, <1>5, <1>6, <1>13, <1>14, <1>15, <1>17, StepOverlaps

LEMMA WriteOverlaps ==
    ASSUME TypeOK, History, OverlapInv, ~lost', NEW w \in Writers, WriteRevision(w)
    PROVE  OverlapInv'
  <1>1. PICK p \in Plans : p = plan[w]
    BY DEF TypeOK
  <1>2. p.id \in Versions /\ p.entry \in Data
    BY DEF Plans
  <1> DEFINE row == [rows[p.id] EXCEPT
                       !.isPublished = IF p.kind = "update" THEN @ ELSE p.entry.published,
                       !.wbyDeleted = p.entry.deleted,
                       !.data = p.entry]
  <1>3. UpdateRow(p.id, row) /\ GotoOrSucceed(w, ~p.entry.latest, "sync") /\ stage[w] = "writing"
    BY <1>1 DEF WriteRevision
  <1>4. /\ OthersWait(w)
        /\ ~p.entry.latest => stage'[w] = "sync" /\ plan' = plan /\ found'[w] = NoRows
        /\ p.entry.latest => Finish(w) /\ stage'[w] = "idle"
    BY <1>3, WentOrSucceeded DEF GotoOrSucceed, Succeed, Stages
  <1>5. Moved(w)
    BY <1>3, <1>4 DEF Moved
  <1>6. ~lost /\ Careful(w)
    BY <1>5, NothingIsLost
  <1>7. /\ RowsAgree /\ PlanHolds(w)
        /\ \A v \in Versions : v \notin behind[w] => KnownRow(w, v)
        /\ ~raced => AtMostOnePublished /\ AllRetired(w)
    BY <1>6 DEF OverlapInv, WritesAreKnown
  <1>8. /\ p.kind \in {"update", "publish", "unpublish"} /\ p.heir = 0
        /\ p.kind = "publish" => p.entry.published /\ p.entry.status = "published"
        /\ p.kind = "unpublish" => ~p.entry.published /\ p.entry.status # "published"
    BY <1>1, <1>3, <1>7 DEF PlanHolds
  <1>9. Present(p.id) => rows[p.id] \in Row /\ FlagsOK(rows[p.id])
    BY <1>2, <1>7, PresentRow DEF TypeOK, RowsAgree
  <1>10. Present(p.id) /\ p.id \notin behind[w] =>
          /\ p.entry.latest = rows[p.id].isLatest
          /\ p.kind = "update" => /\ p.entry.status = rows[p.id].data.status
                                  /\ p.entry.published = rows[p.id].isPublished
    <2>1. p.id \notin behind[w] => KnownRow(w, p.id)
      BY <1>2, <1>7
    <2> QED BY <1>1, <1>3, <2>1 DEF KnownRow
  <1>11. Present(p.id) => /\ row \in Row
                          /\ row.isLatest = rows[p.id].isLatest
                          /\ row.isPublished = IF p.kind = "update" THEN rows[p.id].isPublished
                                               ELSE p.entry.published
                          /\ row.wbyDeleted = p.entry.deleted
                          /\ row.data = p.entry
    BY <1>2, <1>9 DEF Row, Data
  <1> HIDE DEF row
  <1>12. Present(p.id) /\ p.id \notin behind[w] => FlagsOK(row)
    <2>1. CASE p.kind = "update"
      BY <1>9, <1>10, <1>11, <2>1 DEF FlagsOK
    <2>2. CASE p.kind = "publish"
      BY <1>8, <1>9, <1>10, <1>11, <2>2 DEF FlagsOK
    <2>3. CASE p.kind = "unpublish"
      <3>1. p.entry.published = FALSE
        BY <1>2, <1>8, <2>3 DEF Data
      <3> QED BY <1>8, <1>9, <1>10, <1>11, <2>3, <3>1 DEF FlagsOK
    <2> QED BY <1>8, <2>1, <2>2, <2>3
  <1>13. /\ RowsAgree'
         /\ \A u \in Versions : u # p.id => rows'[u] = rows[u]
         /\ \A u \in Versions : u # p.id => (u \in Published' <=> u \in Published)
         /\ p.id \in Published' <=> Present(p.id) /\ row.isPublished
    BY <1>2, <1>3, <1>6, <1>7, <1>11, <1>12, UpdateOverlaps
  <1>14. p.kind # "publish" => Published' \subseteq Published
    BY <1>8, <1>11, <1>13 DEF Published
  <1>15. p.kind = "publish" /\ ~raced => Published = {} /\ Publishes(plan[w])
    BY <1>1, <1>3, <1>7 DEF AllRetired, Publishes
  <1>16. p.kind = "publish" /\ ~raced => \A u \in Published' : u = p.id
    BY <1>13, <1>15 DEF Published
  <1>17. ~raced => AtMostOnePublished' /\ (Published' \subseteq Published \/ Publishes(plan[w]))
    BY <1>7, <1>14, <1>15, <1>16 DEF AtMostOnePublished, AtMostOne
  <1>18. CASE p.entry.latest
    BY <1>4, <1>6, <1>13, <1>17, <1>18, EndOverlaps
  <1>19. CASE ~p.entry.latest
    <2>1. PlanHolds(w)'
      BY <1>3, <1>4, <1>7, <1>8, <1>1, <1>19 DEF PlanHolds, Publishes
    <2>2. ASSUME NEW v \in Versions PROVE KnownRow(w, v)'
      BY <1>1, <1>4, <1>8, <1>19 DEF KnownRow, NoRows, Versions
    <2>3. AllRetired(w)'
      BY <1>4, <1>19 DEF AllRetired
    <2>4. ~raced => PublishesAlone(w)
      BY <1>17, <2>3 DEF PublishesAlone
    <2> QED BY <1>4, <1>5, <1>6, <1>13, <1>19, <2>1, <2>2, <2>4, StepOverlaps
  <1> QED BY <1>18, <1>19

LEMMA SyncOverlaps ==
    ASSUME TypeOK, History, OverlapInv, ~lost', NEW w \in Writers, NEW v \in Versions, SyncLatest(w, v)
    PROVE  OverlapInv'
  <1>0. stage[w] = "syncing" /\ found[w][v] # NoRow /\ Finish(w)
    BY DEF SyncLatest, Succeed
  <1>1. Moved(w)
    BY <1>0 DEF Finish, TypeOK, Moved
  <1>2. ~lost /\ Careful(w)
    BY <1>1, NothingIsLost
  <1>3. RowsAgree /\ (v \notin behind[w] => KnownRow(w, v)) /\ (~raced => AtMostOnePublished)
    BY <1>2 DEF OverlapInv, WritesAreKnown
  <1>4. PICK c \in Data : c = found[w][v].data
    BY <1>0, FoundRow DEF TypeOK
  <1> DEFINE d == Synced(plan[w], c)
             row == [rows[v] EXCEPT !.data = d]
  <1>5. d \in Data
    BY SyncedTypes DEF TypeOK
  <1>6. /\ d.latest = c.latest /\ d.published = c.published
        /\ d.deleted = c.deleted /\ d.status = c.status
    BY DEF Synced, Data
  <1>7. UpdateRow(v, row)
    BY <1>4 DEF SyncLatest
  <1> HIDE DEF d
  <1>8. Present(v) => rows[v] \in Row /\ FlagsOK(rows[v])
    BY <1>3, PresentRow DEF TypeOK, RowsAgree
  <1>9. Present(v) => row \in Row /\ row.isPublished = rows[v].isPublished
    BY <1>5, <1>8 DEF Row
  <1>10. Present(v) /\ v \notin behind[w] => FlagsOK(row)
    <2>1. v \notin behind[w] => rows[v].data = c
      BY <1>0, <1>3, <1>4 DEF KnownRow
    <2> QED BY <1>5, <1>6, <1>8, <2>1 DEF FlagsOK, Row
  <1> HIDE DEF row
  <1>11. /\ RowsAgree'
         /\ \A u \in Versions : u # v => (u \in Published' <=> u \in Published)
         /\ v \in Published' <=> Present(v) /\ row.isPublished
    BY <1>2, <1>3, <1>7, <1>9, <1>10, UpdateOverlaps
  <1>12. Published' \subseteq Published
    BY <1>9, <1>11 DEF Published
  <1>13. ~raced => AtMostOnePublished'
    BY <1>3, <1>12 DEF AtMostOnePublished, AtMostOne
  <1> QED BY <1>0, <1>2, <1>11, <1>12, <1>13, EndOverlaps

LEMMA EraseOverlaps ==
    ASSUME TypeOK, History, OverlapInv, ~lost', NEW w \in Writers, EraseRevision(w)
    PROVE  OverlapInv'
  <1>1. PICK p \in Plans : p = plan[w]
    BY DEF TypeOK
  <1>2. p.id \in Versions
    BY DEF Plans
  <1> DEFINE clears == p.entry.status = "published"
             g == IF clears THEN "patch" ELSE "promoting"
  <1>3. /\ rows' = [rows EXCEPT ![p.id] = NoRow]
        /\ GotoOrSucceed(w, clears \/ p.heir # 0, g)
        /\ stage[w] = "erasing"
    BY <1>1 DEF EraseRevision
  <1>4. g \in {"patch", "promoting"} /\ g \in Stages /\ (g = "promoting" /\ (clears \/ p.heir # 0) => p.heir # 0)
    BY DEF Stages
  <1> HIDE DEF g
  <1>5. /\ OthersWait(w)
        /\ (clears \/ p.heir # 0) => stage'[w] = g /\ plan' = plan /\ found'[w] = NoRows
        /\ ~(clears \/ p.heir # 0) => Finish(w) /\ stage'[w] = "idle"
    BY <1>3, <1>4, WentOrSucceeded DEF GotoOrSucceed, Succeed
  <1>6. Moved(w)
    BY <1>3, <1>4, <1>5 DEF Moved
  <1>7. ~lost
    BY <1>6, NothingIsLost
  <1>8. /\ RowsAgree /\ PlanHolds(w)
        /\ \A v \in Versions : v \notin behind[w] => KnownRow(w, v)
        /\ ~raced => AtMostOnePublished
    BY <1>7 DEF OverlapInv, WritesAreKnown
  <1>9. \A u \in Versions : rows'[u] = IF u = p.id THEN NoRow ELSE rows[u]
    BY <1>2, <1>3 DEF TypeOK, Table
  <1>10. RowsAgree' /\ Published' \subseteq Published
    BY <1>8, <1>9 DEF RowsAgree, Present, Published
  <1>11. ~raced => AtMostOnePublished'
    BY <1>8, <1>10 DEF AtMostOnePublished, AtMostOne
  <1>12. CASE ~(clears \/ p.heir # 0)
    BY <1>5, <1>7, <1>10, <1>11, <1>12, EndOverlaps
  <1>13. CASE clears \/ p.heir # 0
    <2>1. PlanHolds(w)'
      BY <1>1, <1>3, <1>4, <1>5, <1>8, <1>13 DEF PlanHolds, Publishes
    <2>2. ASSUME NEW v \in Versions, v \notin behind[w] PROVE KnownRow(w, v)'
      <3>1. KnownRow(w, v) /\ (Present(v)' => rows'[v] = rows[v])
        BY <1>8, <1>9, <2>2 DEF Present
      <3>2. stage'[w] \notin {"flags", "writing"} /\ found'[w][v] = NoRow /\ plan'[w] = plan[w]
        BY <1>4, <1>5, <1>13 DEF NoRows
      <3>3. v = plan[w].heir /\ Present(v)' => plan[w].heirEntry.published = rows'[v].isPublished
        BY <3>1 DEF KnownRow, Present
      <3> QED BY <3>2, <3>3 DEF KnownRow
    <2>3. AllRetired(w)'
      BY <1>4, <1>5, <1>13 DEF AllRetired
    <2>4. ~raced => PublishesAlone(w)
      BY <1>10, <1>11, <2>3 DEF PublishesAlone
    <2> QED BY <1>4, <1>5, <1>6, <1>7, <1>10, <1>13, <2>1, <2>2, <2>4, StepOverlaps
  <1> QED BY <1>12, <1>13

LEMMA PromoteOverlaps ==
    ASSUME TypeOK, History, OverlapInv, ~lost', NEW w \in Writers, PromotePrevious(w)
    PROVE  OverlapInv'
  <1>0. stage[w] = "promoting" /\ Finish(w)
    BY DEF PromotePrevious, Succeed
  <1>1. Moved(w)
    BY <1>0 DEF Finish, TypeOK, Moved
  <1>2. ~lost /\ Careful(w)
    BY <1>1, NothingIsLost
  <1>3. /\ RowsAgree /\ PlanHolds(w) /\ (~raced => AtMostOnePublished)
        /\ \A v \in Versions : v \notin behind[w] => KnownRow(w, v)
    BY <1>2 DEF OverlapInv, WritesAreKnown
  <1>4. PICK p \in Plans : p = plan[w]
    BY DEF TypeOK
  <1>5. p.heir \in Versions /\ p.heirEntry \in Data /\ p.heirEntry.published = (p.heirEntry.status = "published")
    BY <1>0, <1>3, <1>4 DEF PlanHolds, Plans, Versions
  <1> DEFINE row == EntryToRow(p.heirEntry)
  <1>6. row \in Row /\ FlagsOK(row) /\ row.isPublished = p.heirEntry.published
    BY <1>5, RowOfEntry DEF EntryToRow, FlagsOK
  <1>7. UpdateRow(p.heir, row)
    BY <1>4 DEF PromotePrevious
  <1> HIDE DEF row
  <1>8. /\ RowsAgree'
        /\ Present(p.heir) => rows'[p.heir] = row
        /\ \A u \in Versions : u # p.heir => (u \in Published' <=> u \in Published)
        /\ p.heir \in Published' <=> Present(p.heir) /\ row.isPublished
    BY <1>2, <1>3, <1>5, <1>6, <1>7, UpdateOverlaps
  <1>9. Present(p.heir) => row.isPublished = rows[p.heir].isPublished
    <2>1. p.heir \notin behind[w] => KnownRow(w, p.heir)
      BY <1>3, <1>5
    <2>2. p.heir \notin behind[w] /\ Present(p.heir) => row.isPublished = rows[p.heir].isPublished
      BY <1>4, <1>6, <2>1 DEF KnownRow
    <2> QED BY <1>2, <1>5, <1>8, <2>2 DEF Careful
  <1>10. Published' \subseteq Published
    BY <1>8, <1>9 DEF Published
  <1>11. ~raced => AtMostOnePublished'
    BY <1>3, <1>10 DEF AtMostOnePublished, AtMostOne
  <1> QED BY <1>0, <1>2, <1>8, <1>10, <1>11, EndOverlaps

LEMMA PatchOverlaps ==
    ASSUME TypeOK, History, OverlapInv, ~lost', NEW w \in Writers, PatchAll(w)
    PROVE  OverlapInv'
  <1>0. stage[w] = "patching"
    BY DEF PatchAll
  <1>1. CASE \E v \in Versions : Present(v) /\ found[w][v] = NoRow
    <2>1. Finish(w) /\ rows' = rows
      BY <1>1 DEF PatchAll, Fail
    <2>2. Moved(w)
      BY <1>0, <2>1 DEF Finish, TypeOK, Moved
    <2>3. ~lost
      BY <2>2, NothingIsLost
    <2> QED BY <2>1, <2>3, SameRowsOverlap, EndOverlaps
  <1>2. CASE ~\E v \in Versions : Present(v) /\ found[w][v] = NoRow
    <2>1. PICK p \in Plans : p = plan[w]
      BY DEF TypeOK
    <2>2. /\ \A v \in Versions : rows'[v] = IF Present(v) THEN PatchedRow(w, v) ELSE NoRow
          /\ GotoOrSucceed(w, p.heir # 0, "promoting")
      BY <1>2, <2>1 DEF PatchAll
    <2>3. /\ OthersWait(w)
          /\ p.heir # 0 => stage'[w] = "promoting" /\ plan' = plan /\ found'[w] = NoRows
          /\ p.heir = 0 => Finish(w) /\ stage'[w] = "idle"
      BY <2>2, WentOrSucceeded DEF GotoOrSucceed, Succeed, Stages
    <2>4. Moved(w)
      BY <1>0, <2>3 DEF Moved
    <2>5. ~lost /\ Careful(w)
      BY <2>4, NothingIsLost
    <2>6. /\ RowsAgree /\ PlanHolds(w) /\ (~raced => AtMostOnePublished)
          /\ \A v \in Versions : v \notin behind[w] => KnownRow(w, v)
      BY <2>5 DEF OverlapInv, WritesAreKnown
    <2>7. ASSUME NEW v \in Versions, Present(v)
          PROVE  /\ PatchedRow(w, v) \in Row
                 /\ PatchedRow(w, v).isPublished = rows[v].isPublished
                 /\ FlagsOK(PatchedRow(w, v))
      <3>1. found[w][v] # NoRow /\ rows[v] \in Row /\ FlagsOK(rows[v])
        BY <1>2, <2>6, <2>7, PresentRow DEF TypeOK, RowsAgree
      <3>2. PICK c \in Data : c = found[w][v].data
        BY <3>1, FoundRow DEF TypeOK
      <3>3. PatchedRow(w, v) \in Row
        BY <2>7, <3>1, PatchedTypes
      <3> DEFINE k == plan[w].kind
                 d == Patched(k, c)
                 b == CASE k = "bin" -> TRUE
                        [] k = "restore" -> FALSE
                        [] OTHER -> rows[v].wbyDeleted
      <3>4. PatchedRow(w, v) = [rows[v] EXCEPT !.wbyDeleted = b, !.data = d]
        BY <3>1, <3>2 DEF PatchedRow, Row
      <3>5. /\ d.latest = c.latest /\ d.published = c.published /\ d.status = c.status
            /\ c.deleted = rows[v].wbyDeleted => d.deleted = b
        BY <3>2 DEF Patched, Data
      <3> HIDE DEF b, d
      <3>6. /\ PatchedRow(w, v).data = d /\ PatchedRow(w, v).wbyDeleted = b
            /\ PatchedRow(w, v).isLatest = rows[v].isLatest
            /\ PatchedRow(w, v).isPublished = rows[v].isPublished
        BY <3>1, <3>4 DEF Row
      <3>7. CASE v \notin behind[w]
        <4>1. rows[v].data = c
          BY <2>6, <3>1, <3>2, <3>7 DEF KnownRow
        <4>2. FlagsOK(PatchedRow(w, v))
          BY <3>1, <3>5, <3>6, <4>1 DEF FlagsOK
        <4> QED BY <3>3, <3>6, <4>2
      <3>8. CASE v \in behind[w]
        BY <2>2, <2>5, <2>7, <3>1, <3>3, <3>6, <3>8 DEF Careful
      <3> QED BY <3>7, <3>8
    <2>8. \A v \in Versions : (Present(v)' <=> Present(v))
      BY <2>2, <2>7, NoRowIsNoRow DEF Present
    <2>9. RowsAgree'
      BY <2>2, <2>7, <2>8 DEF RowsAgree
    <2>10. \A v \in Versions : Present(v) => rows'[v].isPublished = rows[v].isPublished
      BY <2>2, <2>7
    <2>11. Published' \subseteq Published
      BY <2>8, <2>10 DEF Published
    <2>12. ~raced => AtMostOnePublished'
      BY <2>6, <2>11 DEF AtMostOnePublished, AtMostOne
    <2>13. CASE p.heir = 0
      BY <2>3, <2>5, <2>9, <2>11, <2>12, <2>13, EndOverlaps
    <2>14. CASE p.heir # 0
      <3>1. PlanHolds(w)'
        BY <1>0, <2>1, <2>3, <2>6, <2>14 DEF PlanHolds, Publishes
      <3>2. ASSUME NEW v \in Versions, v \notin behind[w] PROVE KnownRow(w, v)'
        <4>1. KnownRow(w, v) /\ (Present(v)' <=> Present(v))
          BY <2>6, <2>8, <3>2
        <4>2. v = plan[w].heir /\ Present(v)' => plan[w].heirEntry.published = rows'[v].isPublished
          BY <2>10, <4>1 DEF KnownRow
        <4> QED BY <2>3, <2>14, <4>2 DEF KnownRow, NoRows
      <3>3. AllRetired(w)'
        BY <2>3, <2>14 DEF AllRetired
      <3>4. ~raced => PublishesAlone(w)
        BY <2>11, <2>12, <3>3 DEF PublishesAlone
      <3> QED BY <2>3, <2>4, <2>5, <2>9, <2>14, <3>1, <3>2, <3>4, StepOverlaps
    <2> QED BY <2>13, <2>14
  <1> QED BY <1>1, <1>2

LEMMA EndsOverlap ==
    ASSUME TypeOK, History, OverlapInv, ~lost', NEW w \in Writers, Empty(w) \/ BreakOff(w)
    PROVE  OverlapInv'
  <1>1. stage[w] # "idle" /\ Finish(w)
    BY DEF Empty, BreakOff, Succeed, Fail
  <1>2. Moved(w)
    BY <1>1 DEF Finish, TypeOK, Moved
  <1>3. ~lost
    BY <1>2, NothingIsLost
  <1>4. CASE Empty(w)
    <2>1. \A v \in Versions : ~Present(v)'
      BY <1>4 DEF Empty, NoRows, Present
    <2>2. RowsAgree' /\ Published' = {} /\ AtMostOnePublished'
      BY <2>1 DEF RowsAgree, AtMostOnePublished, AtMostOne, Published
    <2> QED BY <1>1, <1>3, <2>2, EndOverlaps
  <1>5. CASE BreakOff(w)
    BY <1>1, <1>3, <1>5, SameRowsOverlap, EndOverlaps DEF BreakOff
  <1> QED BY <1>4, <1>5

LEMMA OverlapsKept ==
    ASSUME TypeOK, OverlapInv, [Next /\ History]_hvars
    PROVE  OverlapInv'
  <1>1. CASE UNCHANGED hvars
    <2>1. /\ UNCHANGED <<rows, stage, plan, found, behind, lost, raced>>
      BY <1>1 DEF hvars, vars
    <2>2. Present(0)' = Present(0) /\ Latest' = Latest /\ Published' = Published
      BY <2>1 DEF Present, Latest, Published
    <2>3. (raced \/ ~TwoPublish)'
      BY <2>1 DEF OverlapInv, TwoPublish
    <2>4. (~lost => WritesAreKnown)'
      BY <2>1 DEF OverlapInv, WritesAreKnown, RowsAgree, PlanHolds, KnownRow, Present
    <2>5. (~lost /\ ~raced => AtMostOnePublished /\ \A w \in Writers : AllRetired(w))'
      BY <2>1, <2>2 DEF OverlapInv, AtMostOnePublished, AllRetired
    <2> QED BY <2>3, <2>4, <2>5 DEF OverlapInv
  <1>2. CASE Next /\ History /\ lost'
    <2>1. raced' \/ ~TwoPublish'
      BY <1>2 DEF History
    <2> QED BY <1>2, <2>1 DEF OverlapInv
  <1>3. CASE Next /\ History /\ ~lost'
    <2>1. PICK w \in Writers : NextOf(w)
      BY <1>3, NextIsOfOne
    <2>2. 1 \in Versions /\ "draft" \in Statuses
      BY DEF Versions, Statuses
    <2> QED BY <1>3, <2>1, <2>2, StartsOverlap, DeletionOverlaps, CreateOverlaps, FindOverlaps,
               ClearOverlaps, InsertOverlaps, ReadOverlaps, WriteOverlaps, SyncOverlaps,
               EraseOverlaps, PromoteOverlaps, PatchOverlaps, EndsOverlap DEF NextOf
  <1> QED BY <1>1, <1>2, <1>3

LEMMA OverlapsAlways == OverlapSpec => [](TypeOK /\ OverlapInv)
  <1>1. Init /\ HistoryInit => TypeOK /\ OverlapInv
    <2>1. SUFFICES ASSUME Init, HistoryInit PROVE OverlapInv
      BY InitialTypes
    <2>2. \A v \in Versions : ~Present(v)
      BY <2>1 DEF Init, NoRows, Present
    <2>3. Published = {} /\ RowsAgree /\ AtMostOnePublished
      BY <2>2 DEF Published, RowsAgree, AtMostOnePublished, AtMostOne
    <2>4. \A w \in Writers : stage[w] = "idle" /\ plan[w] = NoPlan /\ found[w] = NoRows
      BY <2>1 DEF Init
    <2>5. ASSUME NEW w \in Writers
          PROVE  PlanHolds(w) /\ AllRetired(w) /\ \A v \in Versions : KnownRow(w, v)
      BY <2>4 DEF PlanHolds, AllRetired, KnownRow, NoPlan, NoRows, Versions
    <2>6. ~TwoPublish
      BY <2>4 DEF TwoPublish, Publishes, NoPlan
    <2> QED BY <2>3, <2>5, <2>6 DEF OverlapInv, WritesAreKnown
  <1>2. TypeOK /\ OverlapInv /\ [Next /\ History]_hvars => (TypeOK /\ OverlapInv)'
    <2>1. [Next /\ History]_hvars => [Next]_vars
      BY DEF hvars
    <2> QED BY <2>1, TypesKept, OverlapsKept
  <1> QED BY <1>1, <1>2, PTL DEF OverlapSpec

(* However requests overlap, and wherever they break off: the columns, the *)
(* JSON and the status of a row come apart only when a request writes over *)
(* a change that another made since its operation started.  There is no    *)
(* other way: no order of the statements of any number of requests, and no *)
(* row that comes or goes meanwhile, does it.                              *)
THEOREM OnlyLostWritesSplitFlags == OverlapSpec => [](lost \/ FlagsAgree)
  <1>1. OverlapInv => lost \/ FlagsAgree
    BY DEF OverlapInv, WritesAreKnown, RowsAgree, FlagsOK, FlagsAgree
  <1> QED BY <1>1, OverlapsAlways, PTL

(* Likewise two rows are published only after such a lost change, or when  *)
(* two operations that publish a revision were under way at once: every    *)
(* other request may run between any two statements of a publish.          *)
THEOREM OnlyRacesPublishTwo == OverlapSpec => [](lost \/ raced \/ AtMostOnePublished)
  <1>1. OverlapInv => lost \/ raced \/ AtMostOnePublished
    BY DEF OverlapInv
  <1> QED BY <1>1, OverlapsAlways, PTL
=====
