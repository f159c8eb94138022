------------------------ MODULE AbstractTableProofs ------------------------
(***************************************************************************)
(* Theorems about AbstractTable, for every number of rows, contents,       *)
(* models, requests and changes.                                           *)
(***************************************************************************)
EXTENDS AbstractTable, EditableTableProofs

\* What the lemmas about the handlers need to know of the constants.
USE EditableTableAssumption

\* The inductive invariant: the table is consistent, in the middle of resetEdits too.
IInv ==
    /\ TypeOK
    /\ Consistent(table, busy.after)
    /\ busy.handler # "resetEdits" => busy.after = 0

(***************************************************************************)
(* Every action keeps the invariant.  First, what the actions that only    *)
(* change the table and the network have in common.                        *)
(***************************************************************************)

LEMMA SendTyped ==
  ASSUME TypeOK, NEW calls, Send(calls),
         \A c \in calls : c[1] \in Ids \cup {0} /\ c[2] \in {0, 1}
  PROVE  requests' \in [Slots -> Request]
<1>1. PICK slot \in Injection(calls, FreeSlots) :
           requests' = [s \in Slots |->
               IF s \in Range(slot) THEN Called(CHOOSE c \in calls : slot[c] = s)
                                    ELSE requests[s]]
  BY DEF Send
<1>2. ASSUME NEW c \in calls  PROVE Called(c) \in Request
  BY <1>2 DEF Called, NoReply, Request, TypeOK
<1>3. ASSUME NEW s \in Slots  PROVE requests'[s] \in Request
  <2>1. CASE s \in Range(slot)
    <3>1. \E c \in calls : slot[c] = s
      BY <2>1 DEF Range, Injection
    <3>2. (CHOOSE c \in calls : slot[c] = s) \in calls
      BY <3>1
    <3>. QED  BY <1>1, <1>2, <2>1, <3>2
  <2>2. CASE s \notin Range(slot)
    BY <1>1, <2>2 DEF TypeOK
  <2>. QED  BY <2>1, <2>2
<1>. QED  BY <1>1, <1>3

LEMMA MarkLoadingTyped ==
  ASSUME TypeOK, NEW ids, MarkLoading(ids)
  PROVE  loadingRows' \in [Ids -> {"none", "fresh", "expired"}]
  BY DEF MarkLoading, TypeOK

LEMMA RowCallsTyped ==
  ASSUME TypeOK, NEW id \in Ids, NEW callers, NEW c \in RowCalls(id, callers)
  PROVE  c[1] = id /\ c[2] = 1
<1>1. PICK k : c = <<id, 1, k>>
  BY DEF RowCalls
<1>. QED  BY <1>1

LEMMA RefreshRowTyped ==
  ASSUME TypeOK, NEW id \in Ids, NEW callers, RefreshRow(id, callers)
  PROVE  /\ requests' \in [Slots -> Request]
         /\ loadingRows' \in [Ids -> {"none", "fresh", "expired"}]
<1>1. \A c \in RowCalls(id, callers) : c[1] \in Ids \cup {0} /\ c[2] \in {0, 1}
  BY RowCallsTyped
<1>2. requests' \in [Slots -> Request]
  BY <1>1, SendTyped DEF RefreshRow
<1>3. loadingRows' \in [Ids -> {"none", "fresh", "expired"}]
  BY MarkLoadingTyped DEF RefreshRow
<1>. QED  BY <1>2, <1>3

\* A step that leaves the backend, and no handler under way.
LEMMA QuickStep ==
  ASSUME IInv, UNCHANGED <<scope, busy, aborted, db, journal>>, busy = Idle,
         Consistent(table', 0),
         place' \in 0 .. Len(journal),
         requests' \in [Slots -> Request],
         loadingRows' \in [Ids -> {"none", "fresh", "expired"}]
  PROVE  IInv'
<1>1. TypeOK'
  BY DEF IInv, TypeOK, Consistent
<1>. QED  BY <1>1 DEF IInv, Consistent, Idle, PendingStates, DraftStates, TableType

\* What holds whenever no handler is under way.
LEMMA ReadyConsistent ==
  ASSUME IInv, busy = Idle
  PROVE  TypeOK /\ Consistent(table, 0) /\ Consistent(Quiet(table), 0)
  BY QuietConsistent DEF IInv, Idle

LEMMA DraftEditRowStep ==
  ASSUME IInv, NEW id \in Ids, NEW content \in Drafts, DraftEditRow(id, content)
  PROVE  IInv'
<1>1. TypeOK /\ Consistent(table, 0)
  BY ReadyConsistent DEF DraftEditRow, MayDraft, Ready
<1>2. Consistent(table', 0)
  BY <1>1, DraftEditedConsistent, TableAssumption DEF DraftEditRow, MayDraft, Ready
<1>. QED  BY <1>2, QuickStep DEF DraftEditRow, MayDraft, Ready, LocalStep, network, backend, IInv, TypeOK

LEMMA DraftAddRowStep ==
  ASSUME IInv, NEW id \in Ids, NEW content \in Drafts, DraftAddRow(id, content)
  PROVE  IInv'
<1>1. TypeOK /\ Consistent(table, 0)
  BY ReadyConsistent DEF DraftAddRow, MayDraft, Ready
<1>2. Consistent(table', 0)
  BY <1>1, DraftAddedConsistent, TableAssumption DEF DraftAddRow, MayDraft, Ready
<1>. QED  BY <1>2, QuickStep DEF DraftAddRow, MayDraft, Ready, LocalStep, network, backend, IInv, TypeOK

LEMMA DraftDeleteRowStep ==
  ASSUME IInv, NEW id \in Ids, DraftDeleteRow(id)
  PROVE  IInv'
<1>1. TypeOK /\ Consistent(table, 0)
  BY ReadyConsistent DEF DraftDeleteRow, MayDraft, Ready
<1>2. Consistent(table', 0)
  BY <1>1, DraftDeletedConsistent DEF DraftDeleteRow, MayDraft, Ready
<1>. QED  BY <1>2, QuickStep DEF DraftDeleteRow, MayDraft, Ready, LocalStep, network, backend, IInv, TypeOK

LEMMA MarkEditsPendingStep ==
  ASSUME IInv, MarkEditsPending
  PROVE  IInv'
<1>1. TypeOK /\ Consistent(table, 0)
  BY ReadyConsistent DEF MarkEditsPending, Ready
<1>2. Consistent(table', 0)
  BY <1>1, MarkedPendingConsistent DEF MarkEditsPending, Ready
<1>. QED  BY <1>2, QuickStep DEF MarkEditsPending, Ready, LocalStep, network, backend, IInv, TypeOK

LEMMA ResetEditsStep ==
  ASSUME IInv, ResetEdits
  PROVE  IInv'
<1>1. Consistent(Quiet(table), 0)
  BY ReadyConsistent DEF ResetEdits, Ready
<1>2. busy'.after = 0 /\ table' = Quiet(table)
  BY DEF ResetEdits, Idle
<1>3. TypeOK'
  BY <1>1, <1>2 DEF ResetEdits, network, backend, IInv, TypeOK, Idle, Consistent
<1>. QED  BY <1>1, <1>2, <1>3 DEF IInv, Consistent

LEMMA ResetUnderWay ==
  ASSUME IInv
  PROVE  busy.after \in Nat /\ Consistent(table, busy.after)
<1>1. busy.after \in Ids \cup {0}
  BY DEF IInv, TypeOK
<1>2. \A i \in Ids \cup {0} : i \in Nat
  BY IdsPositive
<1>3. busy.after \in Nat
  BY <1>1, <1>2
<1>. QED  BY <1>3 DEF IInv

LEMMA ResetNextEditStep ==
  ASSUME IInv, ResetNextEdit
  PROVE  IInv'
<1> DEFINE after == busy.after
           id    == Min(BackupsAfter(table, after))
<1>1. /\ Consistent(table, after) /\ after \in Nat /\ id \in Ids /\ id > after
      /\ table.backups[id] # NoRow
      /\ \A i \in Ids : i < id => table.rows[i].state \notin PendingStates
  <2>1. Consistent(table, after) /\ after \in Nat
    BY ResetUnderWay
  <2>2. BackupsAfter(table, after) \in SUBSET Nat /\ BackupsAfter(table, after) # {}
    BY IdsPositive DEF BackupsAfter, Backups, ResetNextEdit
  <2>3. id \in BackupsAfter(table, after) /\ \A i \in BackupsAfter(table, after) : id <= i
    BY <2>2, LeastOfNat
  <2>. HIDE DEF id, after
  <2>4. ASSUME NEW i \in Ids, i < id  PROVE table.rows[i].state \notin PendingStates
    <3>1. i <= after \/ table.backups[i] = NoRow
      BY <2>1, <2>3, <2>4, IdsPositive DEF BackupsAfter, Backups
    <3>. QED  BY <2>1, <3>1 DEF Consistent
  <2>. QED  BY <2>1, <2>3, <2>4 DEF BackupsAfter, Backups
<1>2. busy' = [busy EXCEPT !.after = id] /\ busy.handler = "resetEdits"
  BY DEF ResetNextEdit
<1>3. aborted' \in BOOLEAN
  BY DEF ResetNextEdit, IInv, TypeOK
<1>4. SUFFICES Consistent(table', id)
  <2>1. TypeOK'
    BY <1>1, <1>2, <1>3, <1>4 DEF ResetNextEdit, network, backend, IInv, TypeOK, Consistent
  <2>2. busy'.after = id /\ busy'.handler = "resetEdits"
    BY <1>2 DEF IInv, TypeOK
  <2>. QED  BY <1>4, <2>1, <2>2 DEF IInv
<1>5. table' = ResetOne(table, id)
  BY DEF ResetNextEdit
<1>. HIDE DEF id, after
<1>. QED  BY <1>1, <1>5, ResetOneConsistent

LEMMA ResetEndsStep ==
  ASSUME IInv, ResetEnds
  PROVE  IInv'
<1>1. busy.after \in Nat /\ Consistent(table, busy.after)
  BY ResetUnderWay
<1>2. \A i \in Ids : table.rows[i].state \notin PendingStates
  <2>1. \A i \in Ids : i > busy.after => table.backups[i] = NoRow
    BY DEF ResetEnds, BackupsAfter, Backups
  <2>2. \A i \in Ids : i > busy.after \/ i <= busy.after
    BY <1>1, IdsPositive
  <2>. QED  BY <2>1, <2>2 DEF IInv, Consistent
<1>3. table' = EditsDropped(table) /\ busy' = Idle
  BY DEF ResetEnds
<1>4. Consistent(table', 0)
  BY <1>1, <1>2, <1>3, EditsDroppedConsistent
<1>5. TypeOK'
  BY <1>3, <1>4 DEF ResetEnds, network, backend, IInv, TypeOK, Idle, Consistent
<1>. QED  BY <1>3, <1>4, <1>5 DEF IInv, Idle

LEMMA JournalDeletesConsistent ==
  ASSUME TypeOK, Consistent(Quiet(table), 0), NEW id \in Ids, JournalDeletes(id)
  PROVE  /\ Consistent(table', 0)
         /\ requests' \in [Slots -> Request]
         /\ loadingRows' \in [Ids -> {"none", "fresh", "expired"}]
  BY DeleteRowConsistent DEF JournalDeletes, network, TypeOK

LEMMA JournalMarksStaleConsistent ==
  ASSUME TypeOK, Consistent(table, 0), NEW id \in Ids, JournalMarksStale(id)
  PROVE  /\ Consistent(table', 0)
         /\ requests' \in [Slots -> Request]
         /\ loadingRows' \in [Ids -> {"none", "fresh", "expired"}]
<1>1. \E callers : RefreshRow(id, callers)
  BY DEF JournalMarksStale
<1>2. Consistent(table', 0)
  BY MarkedStaleConsistent DEF JournalMarksStale
<1>. QED  BY <1>1, <1>2, RefreshRowTyped

LEMMA JournalAddsConsistent ==
  ASSUME TypeOK, Consistent(table, 0), NEW id \in Ids, JournalAdds(id)
  PROVE  /\ Consistent(table', 0)
         /\ requests' \in [Slots -> Request]
         /\ loadingRows' \in [Ids -> {"none", "fresh", "expired"}]
<1> DEFINE row == [state |-> "Loading", content |-> Blank]
<1>1. row \in Row /\ row.state \notin PendingStates \cup DraftStates
  BY DEF Row, LoadStates, PendingStates, DraftStates
<1>. HIDE DEF row
<1>2. table' = Quiet(table) \/ table' = [Quiet(table) EXCEPT !.rows[id] = row]
  BY DEF JournalAdds, row
<1>3. Consistent(table', 0)
  BY <1>1, <1>2, QuietConsistent, SetRowConsistent
<1>. QED  BY <1>3, RefreshRowTyped DEF JournalAdds

LEMMA ProcessJournalEntryStep ==
  ASSUME IInv, ProcessJournalEntry
  PROVE  IInv'
<1> DEFINE entry == journal[place']
<1>1. TypeOK /\ Consistent(table, 0) /\ Consistent(Quiet(table), 0)
  BY ReadyConsistent DEF ProcessJournalEntry, Ready
<1>2. entry.type \in {"AddRow", "ModifyRow", "DeleteRow"} /\ entry.key \in Ids
  <2> DEFINE Entries == [type : {"AddRow", "ModifyRow", "DeleteRow"}, key : BackendIds]
  <2>1. journal \in Seq(Entries) /\ place' \in 1 .. Len(journal)
    BY DEF ProcessJournalEntry, IInv, TypeOK
  <2>2. entry \in Entries
    <3>. HIDE DEF Entries
    <3>. QED  BY <2>1
  <2>. HIDE DEF entry
  <2>. QED  BY <2>2, IdsPositive
<1>3. \/ UNCHANGED <<table, network>>
      \/ JournalDeletes(entry.key)
      \/ JournalMarksStale(entry.key)
      \/ JournalAdds(entry.key)
  BY <1>2 DEF ProcessJournalEntry
<1>. HIDE DEF entry
<1>4. /\ Consistent(table', 0)
      /\ requests' \in [Slots -> Request]
      /\ loadingRows' \in [Ids -> {"none", "fresh", "expired"}]
  <2>1. CASE UNCHANGED <<table, network>>
    BY <1>1, <2>1 DEF network, TypeOK, Consistent
  <2>. QED  BY <1>1, <1>2, <1>3, <2>1, JournalDeletesConsistent,
               JournalMarksStaleConsistent, JournalAddsConsistent
<1>5. place' \in 0 .. Len(journal)
  BY DEF ProcessJournalEntry, IInv, TypeOK
<1>. QED  BY <1>4, <1>5, QuickStep DEF ProcessJournalEntry, Ready

LEMMA JournalBreaksStep ==
  ASSUME IInv, JournalBreaks
  PROVE  IInv'
<1>1. requests' \in [Slots -> Request]
  <2>1. \A c \in WholeTable : c[1] \in Ids \cup {0} /\ c[2] \in {0, 1}
    BY DEF WholeTable
  <2>. QED  BY <2>1, SendTyped DEF JournalBreaks, IInv
<1>2. TypeOK'
  BY <1>1 DEF JournalBreaks, IInv, TypeOK
<1>. QED  BY <1>2 DEF JournalBreaks, IInv, Consistent

LEMMA RequestFailsStep ==
  ASSUME IInv, NEW s \in Slots, RequestFails(s)
  PROVE  IInv'
<1>1. /\ loadingRows' \in [Ids -> {"none", "fresh", "expired"}]
      /\ requests' \in [Slots -> Request]
  BY DEF RequestFails, Forgets, IInv, TypeOK, Request, NoReply
<1>2. TypeOK'
  BY <1>1 DEF RequestFails, backend, IInv, TypeOK
<1>. QED  BY <1>2 DEF RequestFails, IInv, Consistent

LEMMA ReplyArrivesStep ==
  ASSUME IInv, NEW s \in Slots, ReplyArrives(s)
  PROVE  IInv'
<1> DEFINE reply == requests[s]
           more  == reply.next # 0 /\ reply.count = 0
           ids   == {r.id : r \in reply.page}
           rows  == [i \in Ids |->
                       IF i \in ids
                       THEN [state |-> "Loaded",
                             content |-> (CHOOSE r \in reply.page : r.id = i).content]
                       ELSE table.rows[i]]
           added == [Quiet(table) EXCEPT !.rows = rows]
<1>1. /\ busy = Idle /\ reply \in Request /\ TypeOK
      /\ Consistent(table, 0) /\ Consistent(Quiet(table), 0)
      /\ Quiet(table).rows = table.rows /\ Quiet(table).backups = table.backups
      /\ Quiet(table).pendingEdits = table.pendingEdits
  BY ReadyConsistent, QuietConsistent DEF ReplyArrives, Ready, IInv, TypeOK
<1>2. loadingRows' \in [Ids -> {"none", "fresh", "expired"}]
  BY DEF ReplyArrives, Forgets, IInv, TypeOK
<1>3. requests' \in [Slots -> Request]
  <2>1. [NoReply EXCEPT !.scope = scope, !.from = reply.next] \in Request
    <3>1. reply.next \in Ids \cup {0}
      BY <1>1, IdsPositive DEF Request
    <3>. HIDE DEF reply
    <3>. QED  BY <1>1, <3>1 DEF NoReply, Request, TypeOK
  <2>2. NoReply \in Request
    BY DEF NoReply, Request
  <2>. QED  BY <2>1, <2>2 DEF ReplyArrives, IInv, TypeOK
<1>4. ids \in SUBSET Ids
  BY <1>1, IdsPositive DEF Request
<1>5. /\ Consistent(table', 0)
      /\ \/ busy' = Idle
         \/ reply.page # {} /\ busy' = [Idle EXCEPT !.handler = "processRowsResponse",
                                                    !.todo = reply.page]
  <2>1. CASE GoesAtEnd(ids)
    <3>1. table' = UpdateModels(added, ids) /\ busy' = Idle
      BY <1>1, <2>1 DEF ReplyArrives
    <3>2. ASSUME NEW i \in Ids
          PROVE  /\ rows[i] \in Row \cup {NoRow}
                 /\ rows[i] = table.rows[i]
                    \/ rows[i].state \notin PendingStates \cup DraftStates
      <4>1. CASE i \in ids
        <5>1. PICK r \in reply.page : r.id = i
          BY <4>1
        <5>2. (CHOOSE q \in reply.page : q.id = i) \in reply.page
          BY <5>1
        <5>3. (CHOOSE q \in reply.page : q.id = i).content \in Contents
          BY <1>1, <5>2 DEF Request
        <5>. QED  BY <4>1, <5>3 DEF Row, LoadStates, PendingStates, DraftStates
      <4>2. CASE i \notin ids
        <5>1. rows[i] = table.rows[i]
          BY <4>2
        <5>. HIDE DEF rows
        <5>. QED  BY <1>1, <5>1 DEF Consistent, TableType
      <4>. QED  BY <4>1, <4>2
    <3>3. rows \in [Ids -> Row \cup {NoRow}]
      BY <3>2
    <3>. HIDE DEF rows, ids, reply
    <3>4. /\ added.rows = rows /\ added.backups = table.backups
          /\ added.pendingEdits = table.pendingEdits /\ added \in TableType
      BY <1>1, <3>3 DEF Consistent, TableType
    <3>. HIDE DEF added
    <3>5. Consistent(added, 0)
      BY <1>1, <3>2, <3>4 DEF Consistent
    <3>. QED  BY <1>4, <3>1, <3>5, UpdateModelsConsistent
  <2>2. CASE ~GoesAtEnd(ids)
    <3>1. /\ table' = Quiet(table)
          /\ busy' = [Idle EXCEPT !.handler = "processRowsResponse", !.todo = reply.page]
      BY <2>2 DEF ReplyArrives
    <3>2. reply.page # {}
      <4>1. ids # {}
        BY <2>2 DEF GoesAtEnd
      <4>. QED  BY <4>1
    <3>. QED  BY <1>1, <3>1, <3>2
  <2>. QED  BY <2>1, <2>2
<1>6. /\ busy'.after = 0
      /\ busy' \in [handler : {"none", "processRowsResponse", "resetEdits"},
                    todo : SUBSET [id : BackendIds, content : Contents], after : Ids \cup {0}]
      /\ busy'.handler = "processRowsResponse" => busy'.todo # {}
  <2>1. reply.page \in SUBSET [id : BackendIds, content : Contents]
    BY <1>1 DEF Request
  <2>. HIDE DEF reply
  <2>2. CASE busy' = Idle
    BY <2>2 DEF Idle
  <2>3. CASE /\ reply.page # {}
              /\ busy' = [Idle EXCEPT !.handler = "processRowsResponse", !.todo = reply.page]
    <3>1. busy' = [handler |-> "processRowsResponse", todo |-> reply.page, after |-> 0]
      BY <2>3 DEF Idle
    <3>2. busy'.todo = reply.page /\ busy'.after = 0
      BY <3>1
    <3> DEFINE Rows == [id : BackendIds, content : Contents]
    <3>. HIDE DEF Rows
    <3>3. busy' \in [handler : {"none", "processRowsResponse", "resetEdits"},
                     todo : SUBSET Rows, after : Ids \cup {0}]
      BY <2>1, <3>1 DEF Rows
    <3>. QED  BY <2>3, <3>2, <3>3 DEF Rows
  <2>. QED  BY <1>5, <2>2, <2>3
<1>7. TypeOK'
  BY <1>2, <1>3, <1>5, <1>6 DEF ReplyArrives, backend, IInv, TypeOK, Consistent
<1>. QED  BY <1>5, <1>6, <1>7 DEF IInv

LEMMA PlaceNextRowStep ==
  ASSUME IInv, PlaceNextRow
  PROVE  IInv'
<1> DEFINE row  == CHOOSE r \in busy.todo : \A q \in busy.todo : r.id <= q.id
           rest == busy.todo \ {row}
<1>1. row \in busy.todo
  <2> DEFINE keys == {r.id : r \in busy.todo}
  <2>1. keys \in SUBSET Nat /\ keys # {}
    BY IdsPositive DEF PlaceNextRow, IInv, TypeOK
  <2>2. Min(keys) \in keys /\ \A k \in keys : Min(keys) <= k
    <3>. HIDE DEF keys
    <3>. QED  BY <2>1, LeastOfNat
  <2>3. \E r \in busy.todo : \A q \in busy.todo : r.id <= q.id
    BY <2>2
  <2>. QED  BY <2>3
<1>2. row.id \in Ids /\ row.content \in Contents
  BY <1>1, IdsPositive DEF IInv, TypeOK
<1>3. /\ table' = PlaceRow(table, row.id, row.content)
      /\ busy' = IF rest = {} THEN Idle ELSE [busy EXCEPT !.todo = rest]
      /\ busy.handler = "processRowsResponse" /\ Consistent(table, 0) /\ busy.after = 0
  BY DEF PlaceNextRow, IInv
<1>. HIDE DEF row
<1>4. Consistent(table', 0)
  BY <1>2, <1>3, PlaceRowConsistent
<1>5. /\ busy'.after = 0
      /\ busy' \in [handler : {"none", "processRowsResponse", "resetEdits"},
                    todo : SUBSET [id : BackendIds, content : Contents], after : Ids \cup {0}]
      /\ busy'.handler = "processRowsResponse" => busy'.todo # {}
  <2>1. rest \in SUBSET [id : BackendIds, content : Contents]
    BY DEF IInv, TypeOK
  <2>. HIDE DEF rest
  <2>. QED  BY <1>3, <2>1 DEF Idle, IInv, TypeOK
<1>6. TypeOK'
  BY <1>4, <1>5 DEF PlaceNextRow, network, backend, IInv, TypeOK, Consistent
<1>. QED  BY <1>4, <1>5, <1>6 DEF IInv

LEMMA LoadingExpiresStep ==
  ASSUME IInv, NEW id \in Ids, LoadingExpires(id)
  PROVE  IInv'
<1>1. TypeOK'
  BY DEF LoadingExpires, backend, IInv, TypeOK
<1>. QED  BY <1>1 DEF LoadingExpires, IInv, Consistent

LEMMA AllRowsStep ==
  ASSUME IInv, NEW m \in Models, AllRows(m)
  PROVE  IInv'
<1> DEFINE stale == {i \in Ids : table.rows[i].state = "Stale"}
           calls == (IF table.open = {} THEN WholeTable ELSE {})
                    \cup UNION {RowCalls(i, 1) : i \in stale}
<1>1. /\ TypeOK /\ busy = Idle
      /\ Consistent(Quiet(table), 0) /\ Quiet(table).rows = table.rows
      /\ Quiet(table).backups = table.backups /\ Quiet(table).pendingEdits = table.pendingEdits
  BY ReadyConsistent, QuietConsistent DEF AllRows, Ready
<1>2. Consistent(table', 0)
  <2>1. table' = [Quiet(table) EXCEPT !.open = @ \cup {m}, !.shown[m] = Present(table)]
    BY DEF AllRows
  <2>2. Present(table) \in SUBSET Ids
    BY DEF Present
  <2>3. /\ table' \in TableType /\ table'.rows = table.rows
        /\ table'.backups = table.backups /\ table'.pendingEdits = table.pendingEdits
    BY <1>1, <2>1, <2>2 DEF Consistent, TableType
  <2>. QED  BY <1>1, <2>3 DEF Consistent
<1>3. requests' \in [Slots -> Request]
  <2>1. ASSUME NEW c \in calls  PROVE c[1] \in Ids \cup {0} /\ c[2] \in {0, 1}
    <3>1. CASE c \in WholeTable
      BY <3>1 DEF WholeTable
    <3>2. CASE c \in UNION {RowCalls(i, 1) : i \in stale}
      <4>1. PICK i \in Ids : c \in RowCalls(i, 1)
        BY <3>2
      <4>. QED  BY <1>1, <4>1, RowCallsTyped
    <3>. QED  BY <3>1, <3>2
  <2>2. Send(calls)
    BY DEF AllRows
  <2>. HIDE DEF calls
  <2>. QED  BY <1>1, <2>1, <2>2, SendTyped
<1>4. loadingRows' \in [Ids -> {"none", "fresh", "expired"}]
  BY <1>1, MarkLoadingTyped DEF AllRows
<1>5. place' \in 0 .. Len(journal)
  BY <1>1 DEF AllRows, backend, TypeOK
<1>. QED  BY <1>1, <1>2, <1>3, <1>4, <1>5, QuickStep DEF AllRows, backend

LEMMA ModelDestroyedStep ==
  ASSUME IInv, NEW m \in Models, ModelDestroyed(m)
  PROVE  IInv'
<1>1. /\ busy = Idle
      /\ Consistent(Quiet(table), 0) /\ Quiet(table).rows = table.rows
      /\ Quiet(table).backups = table.backups /\ Quiet(table).pendingEdits = table.pendingEdits
  BY ReadyConsistent, QuietConsistent DEF ModelDestroyed, Ready
<1>2. table' = [Quiet(table) EXCEPT !.open = @ \ {m}, !.shown[m] = {}]
  BY DEF ModelDestroyed
<1>3. /\ table' \in TableType /\ table'.rows = table.rows
      /\ table'.backups = table.backups /\ table'.pendingEdits = table.pendingEdits
  BY <1>1, <1>2 DEF Consistent, TableType
<1>4. Consistent(table', 0)
  BY <1>1, <1>3 DEF Consistent
<1>. QED  BY <1>1, <1>4, QuickStep DEF ModelDestroyed, LocalStep, network, backend, IInv, TypeOK

LEMMA UpdateScopeStep ==
  ASSUME IInv, UpdateScope
  PROVE  IInv'
<1>1. requests' \in [Slots -> Request]
  <2>1. [NoReply EXCEPT !.scope = "real"] \in Request
    BY DEF NoReply, Request
  <2>. QED  BY <2>1 DEF UpdateScope, IInv, TypeOK
<1>2. TypeOK'
  BY <1>1 DEF UpdateScope, backend, IInv, TypeOK
<1>. QED  BY <1>2 DEF UpdateScope, IInv, Consistent

LEMMA BackendChangeStep ==
  ASSUME IInv, NEW type \in BackendOps, NEW id \in BackendIds,
         NEW content \in Contents \cup {Blank}, BackendChange(type, id, content)
  PROVE  IInv'
<1>1. [type |-> type, key |-> id] \in [type : {"AddRow", "ModifyRow", "DeleteRow"},
                                       key : BackendIds]
  BY TableAssumption
<1>2. /\ db' \in [BackendIds -> Contents \cup {Blank}]
      /\ place' = place
  BY DEF BackendChange, IInv, TypeOK
<1>3. /\ journal' \in Seq([type : {"AddRow", "ModifyRow", "DeleteRow"}, key : BackendIds])
      /\ place \in 0 .. Len(journal')
  BY <1>1 DEF BackendChange, IInv, TypeOK
<1>4. TypeOK'
  BY <1>2, <1>3 DEF BackendChange, network, IInv, TypeOK
<1>. QED  BY <1>4 DEF BackendChange, IInv, Consistent

LEMMA BackendAnswersStep ==
  ASSUME IInv, NEW s \in Slots, BackendAnswers(s)
  PROVE  IInv'
<1> DEFINE call  == requests[s]
           hits  == IF call.scope = "draft" THEN {}
                    ELSE {i \in BackendIds : db[i] # Blank /\ i >= call.from}
           limit == IF call.count = 0 THEN PageSize ELSE call.count
           page  == {i \in hits : Cardinality({j \in hits : j < i}) < limit}
           rows  == {[id |-> i, content |-> db[i]] : i \in page}
           next  == IF hits = page THEN 0 ELSE Min(hits \ page)
<1>1. hits \in SUBSET BackendIds /\ page \in SUBSET hits
  OBVIOUS
<1>2. rows \in SUBSET [id : BackendIds, content : Contents]
  <2>1. \A i \in hits : db[i] \in Contents /\ i \in BackendIds
    BY DEF IInv, TypeOK
  <2>. HIDE DEF hits, page
  <2>. QED  BY <1>1, <2>1
<1>3. next \in BackendIds \cup {0}
  <2>. HIDE DEF hits, page
  <2>1. CASE hits = page
    BY <2>1
  <2>2. CASE hits # page
    <3>1. hits \ page \in SUBSET Nat /\ hits \ page # {}
      BY <1>1, <2>2, IdsPositive
    <3>2. Min(hits \ page) \in hits \ page
      BY <3>1, LeastOfNat
    <3>. QED  BY <1>1, <2>2, <3>2
  <2>. QED  BY <2>1, <2>2
<1>4. requests' = [requests EXCEPT ![s] =
                     [call EXCEPT !.answered = TRUE, !.page = rows, !.next = next]]
  BY DEF BackendAnswers
<1>5. requests' \in [Slots -> Request]
  <2> DEFINE answer == [call EXCEPT !.answered = TRUE, !.page = rows, !.next = next]
  <2>. HIDE DEF rows, next, call
  <2>1. call \in Request
    BY DEF call, IInv, TypeOK
  <2>2. answer \in Request
    BY <1>2, <1>3, <2>1 DEF Request
  <2>. HIDE DEF answer
  <2>. QED  BY <1>4, <2>2 DEF answer, IInv, TypeOK
<1>6. TypeOK'
  BY <1>5 DEF BackendAnswers, backend, IInv, TypeOK
<1>. QED  BY <1>6 DEF BackendAnswers, IInv, Consistent

LEMMA InitIInv == Init => IInv
<1>. SUFFICES ASSUME Init  PROVE IInv
  OBVIOUS
<1>1. \A i \in Ids : table.rows[i] = NoRow /\ table.backups[i] = NoRow
  BY DEF Init, NewTable
<1>2. TypeOK
  <2>1. table \in TableType
    BY DEF Init, NewTable, TableType
  <2>2. busy \in [handler : {"none", "processRowsResponse", "resetEdits"},
                  todo : SUBSET [id : BackendIds, content : Contents], after : Ids \cup {0}]
    BY DEF Init, Idle
  <2>3. requests \in [Slots -> Request]
    <3>1. NoReply \in Request
      BY DEF NoReply, Request
    <3>. QED  BY <3>1 DEF Init
  <2>4. /\ loadingRows \in [Ids -> {"none", "fresh", "expired"}]
        /\ scope \in {"draft", "real"} /\ aborted \in BOOLEAN
        /\ db \in [BackendIds -> Contents \cup {Blank}]
    BY TableAssumption DEF Init
  <2>5. /\ journal \in Seq([type : {"AddRow", "ModifyRow", "DeleteRow"}, key : BackendIds])
        /\ place \in 0 .. Len(journal)
    BY DEF Init
  <2>6. busy.handler # "processRowsResponse"
    BY DEF Init, Idle
  <2>. QED  BY <2>1, <2>2, <2>3, <2>4, <2>5, <2>6 DEF TypeOK
<1>3. Consistent(table, 0)
  BY <1>1, <1>2, NoRowFacts DEF Consistent, TypeOK
<1>. QED  BY <1>2, <1>3 DEF IInv, Init, Idle

LEMMA NextIInv == IInv /\ [Next]_vars => IInv'
<1>. SUFFICES ASSUME IInv, [Next]_vars  PROVE IInv'
  OBVIOUS
<1>1. CASE UserStep
  <2>1. ASSUME NEW id \in Ids, NEW c \in Drafts, DraftEditRow(id, c) \/ DraftAddRow(id, c)
        PROVE  IInv'
    BY <2>1, DraftEditRowStep, DraftAddRowStep
  <2>2. ASSUME NEW id \in Ids, DraftDeleteRow(id)  PROVE IInv'
    BY <2>2, DraftDeleteRowStep
  <2>3. ASSUME NEW m \in Models, AllRows(m) \/ ModelDestroyed(m)  PROVE IInv'
    BY <2>3, AllRowsStep, ModelDestroyedStep
  <2>. QED  BY <1>1, <2>1, <2>2, <2>3, MarkEditsPendingStep, ResetEditsStep DEF UserStep
<1>2. CASE HandlerStep
  BY <1>2, ResetNextEditStep, ResetEndsStep, PlaceNextRowStep DEF HandlerStep
<1>3. CASE NetworkStep
  <2>1. ASSUME NEW s \in Slots, RequestFails(s) \/ ReplyArrives(s) \/ BackendAnswers(s)
        PROVE  IInv'
    BY <2>1, RequestFailsStep, ReplyArrivesStep, BackendAnswersStep
  <2>2. ASSUME NEW id \in Ids, LoadingExpires(id)  PROVE IInv'
    BY <2>2, LoadingExpiresStep
  <2>. QED  BY <1>3, <2>1, <2>2, ProcessJournalEntryStep, JournalBreaksStep, UpdateScopeStep
            DEF NetworkStep
<1>4. CASE BackendStep
  BY <1>4, BackendChangeStep DEF BackendStep
<1>5. CASE UNCHANGED vars
  BY <1>5 DEF vars, network, backend, IInv, TypeOK, Consistent
<1>. QED  BY <1>1, <1>2, <1>3, <1>4, <1>5 DEF Next, Dead

(***************************************************************************)
(* The requests.  What is sent takes free slots only, so a row that is     *)
(* noted as being loaded stays awaited until the finished handler of its   *)
(* request forgets it.                                                     *)
(***************************************************************************)
Awaited(i) == \E s \in Slots : requests[s].from = i /\ requests[s].count = 1

LEMMA SendKeepsRequests ==
  ASSUME TypeOK, NEW calls, Send(calls)
  PROVE  /\ \A s \in Slots : requests[s] # NoReply => requests'[s] = requests[s]
         /\ \A c \in calls : \E s \in Slots : requests'[s] = Called(c)
<1>1. PICK slot \in Injection(calls, FreeSlots) :
           requests' = [s \in Slots |->
               IF s \in Range(slot) THEN Called(CHOOSE c \in calls : slot[c] = s)
                                    ELSE requests[s]]
  BY DEF Send
<1>2. /\ \A c \in calls : slot[c] \in FreeSlots
      /\ \A a, b \in calls : slot[a] = slot[b] => a = b
      /\ \A s : s \in Range(slot) <=> \E c \in calls : slot[c] = s
  BY DEF Injection, Range, IsInjective
<1>3. \A s \in Slots : requests[s] # NoReply => requests'[s] = requests[s]
  BY <1>1, <1>2 DEF FreeSlots
<1>4. ASSUME NEW c \in calls
      PROVE  \E s \in Slots : requests'[s] = Called(c)
  <2>1. slot[c] \in Slots /\ slot[c] \in Range(slot)
    BY <1>2 DEF FreeSlots
  <2>2. (CHOOSE a \in calls : slot[a] = slot[c]) = c
    BY <1>2
  <2>3. requests'[slot[c]] = Called(c)
    BY <1>1, <2>1, <2>2
  <2>. QED  BY <2>1, <2>3
<1>. QED  BY <1>3, <1>4

\* A request that is sent, or already under way, is for the row.
LEMMA SendAwaits ==
  ASSUME TypeOK, NEW calls, Send(calls), NEW i \in Ids,
         Awaited(i) \/ \E c \in calls : c[1] = i /\ c[2] = 1
  PROVE  Awaited(i)'
<1>1. CASE Awaited(i)
  <2>1. PICK s \in Slots : requests[s].from = i /\ requests[s].count = 1
    BY <1>1 DEF Awaited
  <2>2. requests[s] # NoReply
    BY <2>1 DEF NoReply
  <2>. QED  BY <2>1, <2>2, SendKeepsRequests DEF Awaited
<1>2. ASSUME NEW c \in calls, c[1] = i, c[2] = 1  PROVE Awaited(i)'
  <2>1. PICK s \in Slots : requests'[s] = Called(c)
    BY <1>2, SendKeepsRequests
  <2>2. Called(c).from = i /\ Called(c).count = 1
    BY <1>2 DEF Called, NoReply
  <2>. QED  BY <2>1, <2>2 DEF Awaited
<1>. QED  BY <1>1, <1>2

LEMMA RowCallsNotEmpty ==
  ASSUME NEW id \in Ids, NEW callers \in Nat \ {0}, loadingRows[id] = "none"
  PROVE  <<id, 1, 1>> \in RowCalls(id, callers)
<1> DEFINE first == Min({1, callers})
<1>1. first \in {1, callers}
  BY LeastOfNat
<1>. HIDE DEF first
<1>2. 1 \in 1 .. first
  BY <1>1
<1>3. RowCalls(id, callers) = {<<id, 1, k>> : k \in 1 .. first}
  BY DEF RowCalls, first
<1>. QED  BY <1>2, <1>3

LEMMA RefreshRowAwaits ==
  ASSUME TypeOK, LoadingRowsAreAwaited, NEW id \in Ids, NEW callers \in Nat,
         RefreshRow(id, callers)
  PROVE  LoadingRowsAreAwaited'
<1>. SUFFICES ASSUME NEW i \in Ids, loadingRows'[i] # "none"  PROVE Awaited(i)'
  BY DEF LoadingRowsAreAwaited, Awaited
<1>1. CASE loadingRows[i] # "none"
  BY <1>1, SendAwaits DEF LoadingRowsAreAwaited, Awaited, RefreshRow
<1>2. CASE loadingRows[i] = "none"
  <2>1. i = id /\ callers \in Nat \ {0}
    BY <1>2 DEF RefreshRow, MarkLoading
  <2>2. <<id, 1, 1>> \in RowCalls(id, callers)
    BY <1>2, <2>1, RowCallsNotEmpty
  <2>. QED  BY <2>1, <2>2, SendAwaits DEF RefreshRow
<1>. QED  BY <1>1, <1>2

\* The finished handler: the request's row is forgotten, other requests are not touched.
LEMMA ForgetsAwaits ==
  ASSUME TypeOK, LoadingRowsAreAwaited, NEW s \in Slots,
         loadingRows' = Forgets(requests[s]),
         \A r \in Slots : r # s => requests'[r] = requests[r]
  PROVE  LoadingRowsAreAwaited'
<1>. SUFFICES ASSUME NEW i \in Ids, loadingRows'[i] # "none"  PROVE Awaited(i)'
  BY DEF LoadingRowsAreAwaited, Awaited
<1>1. loadingRows[i] # "none" /\ ~(requests[s].from = i /\ requests[s].count = 1)
  BY DEF Forgets, TypeOK
<1>2. PICK r \in Slots : requests[r].from = i /\ requests[r].count = 1
  BY <1>1 DEF LoadingRowsAreAwaited
<1>. QED  BY <1>1, <1>2 DEF Awaited

LEMMA SameRequestsAwait ==
  ASSUME TypeOK, LoadingRowsAreAwaited,
         \A i \in Ids : loadingRows'[i] # "none" => loadingRows[i] # "none",
         \A r \in Slots : \/ requests[r] = NoReply
                          \/ /\ requests'[r].from = requests[r].from
                             /\ requests'[r].count = requests[r].count
  PROVE  LoadingRowsAreAwaited'
<1>. SUFFICES ASSUME NEW i \in Ids, loadingRows'[i] # "none"  PROVE Awaited(i)'
  BY DEF LoadingRowsAreAwaited, Awaited
<1>1. PICK r \in Slots : requests[r].from = i /\ requests[r].count = 1
  BY DEF LoadingRowsAreAwaited
<1>2. requests[r] # NoReply
  BY <1>1 DEF NoReply
<1>. QED  BY <1>1, <1>2 DEF Awaited

LEMMA AllRowsAwaits ==
  ASSUME TypeOK, LoadingRowsAreAwaited, NEW m \in Models, AllRows(m)
  PROVE  LoadingRowsAreAwaited'
<1> DEFINE stale == {i \in Ids : table.rows[i].state = "Stale"}
           calls == (IF table.open = {} THEN WholeTable ELSE {})
                    \cup UNION {RowCalls(i, 1) : i \in stale}
<1>. SUFFICES ASSUME NEW i \in Ids, loadingRows'[i] # "none"  PROVE Awaited(i)'
  BY DEF LoadingRowsAreAwaited, Awaited
<1>1. MarkLoading(stale) /\ Send(calls)
  BY DEF AllRows
<1>2. CASE loadingRows[i] # "none"
  <2>. HIDE DEF calls
  <2>. QED  BY <1>1, <1>2, SendAwaits DEF LoadingRowsAreAwaited, Awaited
<1>3. CASE loadingRows[i] = "none"
  <2>1. i \in stale
    BY <1>1, <1>3 DEF MarkLoading
  <2>2. <<i, 1, 1>> \in RowCalls(i, 1)
    BY <1>3, RowCallsNotEmpty
  <2>3. <<i, 1, 1>> \in calls
    BY <2>1, <2>2
  <2>. HIDE DEF calls
  <2>. QED  BY <1>1, <2>3, SendAwaits
<1>. QED  BY <1>2, <1>3

LEMMA ProcessJournalEntryAwaits ==
  ASSUME IInv, LoadingRowsAreAwaited, ProcessJournalEntry
  PROVE  LoadingRowsAreAwaited'
<1> DEFINE entry == journal[place']
<1>1. entry.type \in {"AddRow", "ModifyRow", "DeleteRow"} /\ entry.key \in Ids
  <2> DEFINE Entries == [type : {"AddRow", "ModifyRow", "DeleteRow"}, key : BackendIds]
  <2>1. journal \in Seq(Entries) /\ place' \in 1 .. Len(journal)
    BY DEF ProcessJournalEntry, IInv, TypeOK
  <2>2. entry \in Entries
    <3>. HIDE DEF Entries
    <3>. QED  BY <2>1
  <2>. HIDE DEF entry
  <2>. QED  BY <2>2, IdsPositive
<1>2. \/ UNCHANGED network
      \/ JournalMarksStale(entry.key)
      \/ JournalAdds(entry.key)
  BY <1>1 DEF ProcessJournalEntry, JournalDeletes
<1>. HIDE DEF entry
<1>3. Cardinality(table.open) \in Nat
  <2>1. IsFiniteSet(table.open)
    BY TableAssumption, FS_Subset DEF IInv, TypeOK, TableType
  <2>. QED  BY <2>1, FS_CardinalityType
<1>4. ASSUME JournalMarksStale(entry.key)  PROVE LoadingRowsAreAwaited'
  <2>1. PICK callers \in Nat : RefreshRow(entry.key, callers)
    BY <1>3, <1>4 DEF JournalMarksStale
  <2>. QED  BY <1>1, <2>1, RefreshRowAwaits DEF IInv
<1>5. ASSUME JournalAdds(entry.key)  PROVE LoadingRowsAreAwaited'
  BY <1>1, <1>5, RefreshRowAwaits DEF JournalAdds, IInv
<1>6. ASSUME UNCHANGED network  PROVE LoadingRowsAreAwaited'
  BY <1>6 DEF network, LoadingRowsAreAwaited
<1>. QED  BY <1>2, <1>4, <1>5, <1>6

LEMMA NextAwaits ==
  ASSUME IInv, LoadingRowsAreAwaited, [Next]_vars
  PROVE  LoadingRowsAreAwaited'
<1>0. TypeOK
  BY DEF IInv
<1>1. ASSUME UNCHANGED network  PROVE LoadingRowsAreAwaited'
  BY <1>1 DEF network, LoadingRowsAreAwaited
<1>2. CASE UserStep
  <2>1. ASSUME NEW id \in Ids, NEW c \in Drafts, DraftEditRow(id, c) \/ DraftAddRow(id, c)
        PROVE  UNCHANGED network
    BY <2>1 DEF DraftEditRow, DraftAddRow, LocalStep
  <2>2. ASSUME NEW id \in Ids, DraftDeleteRow(id)  PROVE UNCHANGED network
    BY <2>2 DEF DraftDeleteRow, LocalStep
  <2>3. ASSUME MarkEditsPending \/ ResetEdits \/ \E m \in Models : ModelDestroyed(m)
        PROVE  UNCHANGED network
    BY <2>3 DEF MarkEditsPending, ResetEdits, ModelDestroyed, LocalStep
  <2>. QED  BY <1>0, <1>1, <1>2, <2>1, <2>2, <2>3, AllRowsAwaits DEF UserStep
<1>3. CASE HandlerStep
  BY <1>1, <1>3 DEF HandlerStep, ResetNextEdit, ResetEnds, PlaceNextRow
<1>4. CASE NetworkStep
  <2>1. ASSUME NEW s \in Slots, RequestFails(s) \/ ReplyArrives(s)
        PROVE  LoadingRowsAreAwaited'
    <3>1. /\ loadingRows' = Forgets(requests[s])
          /\ \A r \in Slots : r # s => requests'[r] = requests[r]
      BY <1>0, <2>1 DEF RequestFails, ReplyArrives, TypeOK
    <3>. QED  BY <1>0, <3>1, ForgetsAwaits
  <2>2. ASSUME NEW s \in Slots, BackendAnswers(s)  PROVE LoadingRowsAreAwaited'
    <3>1. PICK page, next :
             requests' = [requests EXCEPT ![s] =
               [requests[s] EXCEPT !.answered = TRUE, !.page = page, !.next = next]]
      BY <2>2 DEF BackendAnswers
    <3>2. \A r \in Slots : /\ requests'[r].from = requests[r].from
                           /\ requests'[r].count = requests[r].count
      BY <1>0, <3>1 DEF TypeOK, Request
    <3>3. loadingRows' = loadingRows
      BY <2>2 DEF BackendAnswers
    <3>. QED  BY <1>0, <3>2, <3>3, SameRequestsAwait
  <2>3. ASSUME NEW id \in Ids, LoadingExpires(id)  PROVE LoadingRowsAreAwaited'
    BY <1>0, <2>3 DEF LoadingExpires, LoadingRowsAreAwaited, TypeOK
  <2>4. ASSUME UpdateScope  PROVE LoadingRowsAreAwaited'
    <3>1. /\ loadingRows' = loadingRows
          /\ \A r \in Slots : requests[r] = NoReply \/ requests'[r] = requests[r]
      BY <1>0, <2>4 DEF UpdateScope, FreeSlots, TypeOK
    <3>. QED  BY <1>0, <3>1, SameRequestsAwait
  <2>5. ASSUME JournalBreaks  PROVE LoadingRowsAreAwaited'
    <3>1. loadingRows' = loadingRows /\ Send(WholeTable)
      BY <2>5 DEF JournalBreaks
    <3>2. \A r \in Slots : requests[r] = NoReply \/ requests'[r] = requests[r]
      BY <1>0, <3>1, SendKeepsRequests
    <3>. QED  BY <1>0, <3>1, <3>2, SameRequestsAwait
  <2>. QED  BY <1>4, <2>1, <2>2, <2>3, <2>4, <2>5, ProcessJournalEntryAwaits DEF NetworkStep
<1>5. CASE BackendStep
  BY <1>1, <1>5 DEF BackendStep, BackendChange
<1>6. CASE UNCHANGED vars
  BY <1>1, <1>6 DEF vars, network
<1>. QED  BY <1>2, <1>3, <1>4, <1>5, <1>6 DEF Next, Dead

(***************************************************************************)
(* The theorems                                                            *)
(***************************************************************************)

\* The invariant the others follow from: whatever the users of the table, the backend and
\* the network do, every step of processJournal, processRowsResponse, resetEdits and the
\* drafting functions keeps pending rows, backups and the lock in step.
THEOREM Invariance == Spec => []IInv
  BY InitIInv, NextIInv, PTL DEF Spec

\* Every variable of the table keeps its type.
THEOREM TypeCorrect == Spec => []TypeOK
<1>1. IInv => TypeOK
  BY DEF IInv
<1>. QED  BY <1>1, Invariance, PTL

\* A row that shows as pending can be put back and keeps the table locked, for every
\* interleaving of submission, settlement, journal entries and the flawed resetEdits.
THEOREM PendingProtected == Spec => []PendingEditsAreProtected
<1>1. IInv => PendingEditsAreProtected
  BY DEF IInv, Consistent, PendingEditsAreProtected, Pending
<1>. QED  BY <1>1, Invariance, PTL

\* A row is noted as being loaded only while a request for it is outstanding: however calls
\* fail, are answered late or are sent again after 7 s, no row is kept from being asked for.
THEOREM LoadingRowsAwaited == Spec => []LoadingRowsAreAwaited
<1>1. Init => LoadingRowsAreAwaited
  BY DEF Init, LoadingRowsAreAwaited
<1>2. IInv /\ LoadingRowsAreAwaited /\ [Next]_vars => LoadingRowsAreAwaited'
  BY NextAwaits
<1>. QED  BY <1>1, <1>2, Invariance, PTL DEF Spec
=============================================================================
