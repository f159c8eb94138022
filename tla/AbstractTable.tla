--------------------------- MODULE AbstractTable ---------------------------
(***************************************************************************)
(* One AbstractTable<Row> of the client (src/cpp/AbstractTable.hpp): the   *)
(* cache of one scope of one backend table, with the user's draft and      *)
(* pending edits laid over it, its list models, the row requests under     *)
(* way, and the backend and its journal as the table sees them.            *)
(***************************************************************************)
EXTENDS EditableTable

CONSTANTS
    Drafts,        \* the contents the user drafts in this instance
    Slots,         \* bound: requests outstanding at once
    PageSize,      \* rows the backend puts in one reply
    BackendOps,    \* the journal entry types that occur in this instance
    MaxChanges,    \* bound: changes the backend makes
    NetworkMayFail,\* whether requests may end in an error
    RowsMayExpire, \* whether a request for a row may stay unanswered for 7 s
    JournalMayBreak, \* whether the client's place in the journal may jump
    StartScope     \* "real", or "draft" for a table created speculatively

ASSUME EditableTableAssumption == ConstantsFit

ASSUME TableAssumption ==
    /\ Drafts \subseteq Contents
    /\ IsFiniteSet(Models)
    /\ PageSize \in Nat \ {0}
    /\ BackendOps \subseteq {"AddRow", "ModifyRow", "DeleteRow"}
    /\ MaxChanges \in Nat
    /\ StartScope \in {"real", "draft"}

NoReply == [scope |-> "none", from |-> 0, count |-> 0, answered |-> FALSE,
            page |-> {}, next |-> 0]
Idle    == [handler |-> "none", todo |-> {}, after |-> 0]

VARIABLES
    table,       \* the table object: rows, backups, added, pendingEdits, models, emitted
    loadingRows, \* ID -> "none", "fresh" (asked < 7 s ago) or "expired" (asked before that)
    scope,       \* "draft" until the speculative table gets its real scope
    busy,        \* the handler under way: its loop runs to the end in one event loop turn
    aborted,     \* the process has died of an out-of-range removeAt
    requests,    \* slot -> an outstanding get_table_rows call, or NoReply
    db,          \* the backend's table: ID -> content, Blank where there is no row
    journal,     \* every entry the backend has written
    place        \* how many of them the client has read (its lastJournalEntry)

vars == <<table, loadingRows, scope, busy, aborted, requests, db, journal, place>>
network == <<requests, loadingRows>>
backend == <<db, journal, place>>

(***************************************************************************)
(* Requests for rows                                                       *)
(***************************************************************************)

FreeSlots == {s \in Slots : requests[s] = NoReply}

\* A call is <<lower bound, load count, copy>>: each takes a slot of its own.
Called(call) == [NoReply EXCEPT !.scope = scope, !.from = call[1], !.count = call[2]]

Send(calls) ==
    \E slot \in Injection(calls, FreeSlots) :
        requests' = [s \in Slots |->
            IF s \in Range(slot) THEN Called(CHOOSE c \in calls : slot[c] = s)
                                 ELSE requests[s]]

\* fullRefresh: every row, from the first, whatever is already on its way.
WholeTable == {<<0, 0, 1>>}

\* refreshRow(id) called by `callers` callers in turn.  A row asked for less than 7 s ago is
\* not asked for again; after that it is, each time, since insert() keeps the old timestamp.
RowCalls(id, callers) ==
    {<<id, 1, k>> : k \in CASE loadingRows[id] = "fresh"   -> {}
                            [] loadingRows[id] = "none"    -> 1..Min({1, callers})
                            [] loadingRows[id] = "expired" -> 1..callers}

MarkLoading(ids) ==
    loadingRows' = [i \in Ids |-> IF i \in ids /\ loadingRows[i] = "none"
                                  THEN "fresh" ELSE loadingRows[i]]

RefreshRow(id, callers) ==
    /\ MarkLoading(IF callers > 0 THEN {id} ELSE {})
    /\ Send(RowCalls(id, callers))

Ready == busy = Idle /\ ~aborted

(***************************************************************************)
(* Drafting edits                                                          *)
(***************************************************************************)

\* Each of these leaves the requests and the backend alone.
LocalStep == UNCHANGED <<network, backend, scope, busy, aborted>>

MayDraft_AlsoWhilePending == Ready

\* No new edits are allowed while edits are pending.
MayDraft == Ready /\ ~table.pendingEdits

DraftEditRow(id, content) ==
    /\ MayDraft
    /\ CanBeEdited(table, id)
    /\ table' = DraftEdited(table, id, content)
    /\ LocalStep

DraftAddRow(id, content) ==
    /\ MayDraft
    /\ DraftIdAllowed(table, id)
    /\ table' = DraftAdded(table, id, content)
    /\ LocalStep

DraftDeleteRow(id) ==
    /\ MayDraft
    /\ table.rows[id] # NoRow
    /\ table' = DraftDeleted(table, id)
    /\ LocalStep

MarkEditsPending ==
    /\ Ready
    /\ table' = MarkedPending(table)
    /\ LocalStep

(***************************************************************************)
(* resetEdits walks the backups in ID order.  busy.after is the ID of the  *)
(* backup the loop handled last.                                           *)
(***************************************************************************)
ResetEdits ==
    /\ Ready
    /\ busy' = [Idle EXCEPT !.handler = "resetEdits"]
    /\ table' = Quiet(table)
    /\ UNCHANGED <<network, backend, scope, aborted>>

ResetNextEdit ==
    /\ busy.handler = "resetEdits" /\ ~aborted
    /\ BackupsAfter(table, busy.after) # {}
    /\ LET id == Min(BackupsAfter(table, busy.after))
       IN  /\ busy' = [busy EXCEPT !.after = id]
           /\ table' = ResetOne(table, id)
           /\ IF RunsOut(table, id)
              THEN aborted' \in BOOLEAN  \* undefined: the process dies, or goes on
              ELSE UNCHANGED aborted
    /\ UNCHANGED <<network, backend, scope>>

ResetEnds ==
    /\ busy.handler = "resetEdits" /\ ~aborted
    /\ BackupsAfter(table, busy.after) = {}
    /\ busy' = Idle
    /\ table' = EditsDropped(table)
    /\ UNCHANGED <<network, backend, scope, aborted>>

(***************************************************************************)
(* The journal, read as JournalFeed says: the entry behind the place, or   *)
(* the place is put elsewhere and all tables are refreshed.  One entry per *)
(* step; an entry for another scope changes nothing.                       *)
(***************************************************************************)
JournalDeletes(id) ==
    /\ table' = DeleteRow(Quiet(table), id)
    /\ UNCHANGED network

JournalMarksStale(id) ==
    LET state == table.rows[id].state
        views == Cardinality(table.open)
    IN  /\ table' = MarkedStale(table, id)
        /\ RefreshRow(id, IF state \in {"PendingEdit", "PendingDelete"} THEN 1 ELSE views)

\* A new row gets a placeholder, of which the models are not told.
JournalAdds(id) ==
    /\ RefreshRow(id, 1)
    /\ table' = IF table.rows[id] = NoRow
                THEN [Quiet(table) EXCEPT !.rows[id] = [state |-> "Loading", content |-> Blank]]
                ELSE Quiet(table)

ProcessJournalEntry ==
    /\ Ready /\ place < Len(journal)
    /\ place' = place + 1
    /\ LET entry == journal[place']
       IN  IF scope = "draft" THEN UNCHANGED <<table, network>>
           ELSE CASE entry.type = "DeleteRow" -> JournalDeletes(entry.key)
                  [] entry.type = "ModifyRow" -> JournalMarksStale(entry.key)
                  [] entry.type = "AddRow"    -> JournalAdds(entry.key)
    /\ UNCHANGED <<scope, busy, aborted, db, journal>>

\* BlockchainInterface got entries that do not follow the last one.  Entries it passes over
\* are never seen, those it goes back to are seen again; the table is read again in full.
JournalBreaks ==
    /\ JournalMayBreak /\ Ready
    /\ place' \in 1 .. Len(journal)
    /\ Send(WholeTable)
    /\ UNCHANGED <<table, loadingRows, scope, busy, aborted, db, journal>>

(***************************************************************************)
(* Replies.  The finished handler of a refreshRow forgets the row first;   *)
(* then processRowsResponse asks for the next page, if there is one and    *)
(* the call was for the whole table, and places the rows.                  *)
(***************************************************************************)
Forgets_Never(call) == loadingRows

Forgets(call) ==
    IF call.count = 1 THEN [loadingRows EXCEPT ![call.from] = "none"] ELSE loadingRows

RequestFails(s) ==
    /\ NetworkMayFail /\ Ready /\ requests[s] # NoReply
    /\ loadingRows' = Forgets(requests[s])
    /\ requests' = [requests EXCEPT ![s] = NoReply]
    /\ UNCHANGED <<table, scope, busy, aborted, backend>>

GoesAtEnd_EmptyPageToo(ids) ==
    ids # {} /\ \A i \in Present(table), j \in ids : i < j

\* The rows of the reply all go after the last row the table has; or there are none.
GoesAtEnd(ids) == \A i \in Present(table), j \in ids : i < j

ReplyArrives(s) ==
    LET reply == requests[s]
        more  == reply.next # 0 /\ reply.count = 0
        ids   == {r.id : r \in reply.page}
        added == [Quiet(table) EXCEPT !.rows = [i \in Ids |->
                    IF i \in ids
                    THEN [state |-> "Loaded", content |-> (CHOOSE r \in reply.page : r.id = i).content]
                    ELSE table.rows[i]]]
    IN  /\ Ready /\ reply # NoReply /\ reply.answered
        /\ loadingRows' = Forgets(reply)
        /\ requests' = [requests EXCEPT ![s] =
                          IF more THEN [NoReply EXCEPT !.scope = scope, !.from = reply.next]
                                  ELSE NoReply]
        /\ IF GoesAtEnd(ids)
           THEN \* no edit is looked at
                table' = UpdateModels(added, ids) /\ UNCHANGED busy
           ELSE /\ table' = Quiet(table)
                /\ busy' = [Idle EXCEPT !.handler = "processRowsResponse", !.todo = reply.page]
        /\ UNCHANGED <<scope, aborted, backend>>

\* The models hear of a row as it is placed, not after the last one: nothing looks between.
PlaceNextRow ==
    /\ busy.handler = "processRowsResponse"
    /\ LET row  == CHOOSE r \in busy.todo : \A q \in busy.todo : r.id <= q.id
           rest == busy.todo \ {row}
       IN  /\ table' = PlaceRow(table, row.id, row.content)
           /\ busy' = IF rest = {} THEN Idle ELSE [busy EXCEPT !.todo = rest]
    /\ UNCHANGED <<network, backend, scope, aborted>>

\* Seven seconds pass without an answer about the row.
LoadingExpires(id) ==
    /\ RowsMayExpire /\ Ready /\ loadingRows[id] = "fresh"
    /\ loadingRows' = [loadingRows EXCEPT ![id] = "expired"]
    /\ UNCHANGED <<table, scope, busy, aborted, requests, backend>>

(***************************************************************************)
(* Models and scope                                                        *)
(***************************************************************************)

\* allRows: the first model makes the table load; a new model refreshes the stale rows.
AllRows(m) ==
    LET stale == {i \in Ids : table.rows[i].state = "Stale"}
    IN  /\ Ready /\ m \notin table.open
        /\ table' = [Quiet(table) EXCEPT !.open = @ \cup {m}, !.shown[m] = Present(table)]
        /\ MarkLoading(stale)
        /\ Send((IF table.open = {} THEN WholeTable ELSE {})
                \cup UNION {RowCalls(i, 1) : i \in stale})
        /\ UNCHANGED <<scope, busy, aborted, backend>>

ModelDestroyed(m) ==
    /\ Ready /\ m \in table.open
    /\ table' = [Quiet(table) EXCEPT !.open = @ \ {m}, !.shown[m] = {}]
    /\ LocalStep

\* updateScope: the group the table was made for got its real ID.
UpdateScope ==
    /\ Ready /\ scope = "draft"
    /\ scope' = "real"
    /\ \E s \in FreeSlots :
          requests' = [requests EXCEPT ![s] = [NoReply EXCEPT !.scope = "real"]]
    /\ UNCHANGED <<table, loadingRows, busy, aborted, backend>>

(***************************************************************************)
(* The backend.  It changes a row and writes the journal entry at once,    *)
(* and answers a request with the first rows at or after the lower bound.  *)
(* Nothing happens there while a handler runs: the handler could not tell. *)
(***************************************************************************)
BackendChange(type, id, content) ==
    /\ Ready /\ Len(journal) < MaxChanges /\ type \in BackendOps
    /\ IF type = "AddRow" THEN db[id] = Blank ELSE db[id] # Blank
    /\ IF type = "DeleteRow" THEN content = Blank ELSE content \in Contents \ {db[id]}
    /\ db' = [db EXCEPT ![id] = content]
    /\ journal' = Append(journal, [type |-> type, key |-> id])
    /\ UNCHANGED <<table, network, scope, busy, aborted, place>>

BackendAnswers(s) ==
    LET call  == requests[s]
        hits  == IF call.scope = "draft" THEN {}
                 ELSE {i \in BackendIds : db[i] # Blank /\ i >= call.from}
        limit == IF call.count = 0 THEN PageSize ELSE call.count
        page  == {i \in hits : Cardinality({j \in hits : j < i}) < limit}
    IN  /\ Ready /\ call # NoReply /\ ~call.answered
        /\ requests' = [requests EXCEPT ![s] =
              [call EXCEPT !.answered = TRUE,
                           !.page = {[id |-> i, content |-> db[i]] : i \in page},
                           !.next = IF hits = page THEN 0 ELSE Min(hits \ page)]]
        /\ UNCHANGED <<table, loadingRows, scope, busy, aborted, backend>>

(***************************************************************************)
(* The specification                                                       *)
(***************************************************************************)

Init ==
    /\ table = NewTable
    /\ loadingRows = [i \in Ids |-> "none"]
    /\ scope = StartScope
    /\ busy = Idle
    /\ aborted = FALSE
    /\ requests = [s \in Slots |-> NoReply]
    /\ db \in [BackendIds -> Contents \cup {Blank}]
    /\ scope = "draft" => \A i \in BackendIds : db[i] = Blank
    /\ journal = <<>>
    /\ place = 0

UserStep ==
    \/ \E id \in Ids, c \in Drafts : DraftEditRow(id, c) \/ DraftAddRow(id, c)
    \/ \E id \in Ids : DraftDeleteRow(id)
    \/ MarkEditsPending
    \/ ResetEdits
    \/ \E m \in Models : AllRows(m) \/ ModelDestroyed(m)

HandlerStep == ResetNextEdit \/ ResetEnds \/ PlaceNextRow

NetworkStep ==
    \/ ProcessJournalEntry
    \/ JournalBreaks
    \/ \E s \in Slots : RequestFails(s) \/ ReplyArrives(s) \/ BackendAnswers(s)
    \/ \E id \in Ids : LoadingExpires(id)
    \/ UpdateScope

BackendStep ==
    \E type \in BackendOps, id \in BackendIds, c \in Contents \cup {Blank} :
        BackendChange(type, id, c)

\* A dead process stays dead.
Dead == aborted /\ UNCHANGED vars

Next == UserStep \/ HandlerStep \/ NetworkStep \/ BackendStep \/ Dead

Spec == Init /\ [][Next]_vars

\* The event loop runs every posted event: replies and journal entries are handled though
\* others come between, and a handler's loop ends.  The backend answers what it is asked.
Fairness ==
    /\ WF_vars(HandlerStep)
    /\ SF_vars(ProcessJournalEntry)
    /\ \A s \in Slots : SF_vars(BackendAnswers(s)) /\ SF_vars(ReplyArrives(s))

FairSpec == Spec /\ Fairness
(***************************************************************************)
(* Properties                                                              *)
(***************************************************************************)

Request ==
    [scope : {"none", "draft", "real"}, from : Ids \cup {0}, count : {0, 1},
     answered : BOOLEAN, page : SUBSET [id : BackendIds, content : Contents],
     next : BackendIds \cup {0}]

\* The type of every variable.
TypeOK ==
    /\ table \in TableType
    /\ loadingRows \in [Ids -> {"none", "fresh", "expired"}]
    /\ scope \in {"draft", "real"}
    /\ busy \in [handler : {"none", "processRowsResponse", "resetEdits"},
                 todo : SUBSET [id : BackendIds, content : Contents], after : Ids \cup {0}]
    /\ busy.handler = "processRowsResponse" => busy.todo # {}
    /\ aborted \in BOOLEAN
    /\ requests \in [Slots -> Request]
    /\ db \in [BackendIds -> Contents \cup {Blank}]
    /\ journal \in Seq([type : {"AddRow", "ModifyRow", "DeleteRow"}, key : BackendIds])
    /\ place \in 0 .. Len(journal)

\* A row shown as pending can always be put back: its backup is there, and holds a state
\* from before the submission; and the table refuses further drafts (hasPendingEdits).
PendingEditsAreProtected ==
    \A i \in Pending(table) :
        /\ table.backups[i] # NoRow
        /\ table.backups[i].state \notin PendingStates
        /\ table.pendingEdits

\* The table counts as having pending edits, and refuses drafts, only while a row is
\* pending (hasPendingEdits), so that the user can go on after a failed transaction.
LockedOnlyWhilePending == Ready /\ table.pendingEdits => Pending(table) # {}

\* With a model open, the whole journal read and every reply in, a row that counts as
\* loaded is the backend's row.
LoadedRowsAreCurrent ==
    (/\ Ready /\ table.open # {} /\ scope = "real"
     /\ place = Len(journal) /\ FreeSlots = Slots)
    => \A i \in BackendIds : table.rows[i].state = "Loaded" => table.rows[i].content = db[i]

\* A row added and submitted can still be recognised when the backend reports it: the list
\* of added rows holds what the row shows.
PendingAdditionsCanSettle ==
    \A i \in Ids : table.rows[i].state = "PendingAdd" =>
        [id |-> i, content |-> table.rows[i].content] \in table.added

\* Every model shows the table's rows, except a placeholder it was not told of.
ModelsShowTheRows ==
    \A m \in table.open :
        /\ table.shown[m] \subseteq Present(table)
        /\ \A i \in Present(table) \ table.shown[m] : table.rows[i].content = Blank

\* A row is noted as being loaded only while a request for it is outstanding, so a request
\* that failed never keeps the row from being asked for again.
LoadingRowsAreAwaited ==
    \A i \in Ids : loadingRows[i] # "none" =>
        \E s \in Slots : requests[s].from = i /\ requests[s].count = 1

\* A pending row shows what the user drafted, from its submission to its end.
PendingShowsTheDraft ==
    [][\A i \in Pending(table)' :
          /\ table'.rows[i].content = table.rows[i].content
          /\ table'.rows[i].state = PendingOf(table.rows[i].state)]_table

\* While an edit is pending, no row becomes a draft and no draft changes, unless the edits
\* are being reset.
NoDraftingWhilePending ==
    [][Pending(table) # {} /\ busy.handler # "resetEdits" =>
          \A i \in Ids : table'.rows[i].state \in DraftStates =>
              table'.rows[i] = table.rows[i]]_table

\* A draft that is lost to the backend, to a row it sent or to an entry of its journal, is
\* signalled with draftEditInvalidated.  The drafts that the user's side gives up, by
\* deleting the drafted row or resetting all edits, are not the backend's.
LostDraftsAreSignalled ==
    [][\A i \in Ids :
          /\ table.rows[i].state \in DraftStates
          /\ table'.rows[i].state \notin DraftStates \cup PendingStates
          /\ busy.handler # "resetEdits" /\ ~DraftDeleteRow(i)
          => [signal |-> "draftEditInvalidated", id |-> i] \in table'.emitted]_table

\* The journal's entry k deletes a row, and a later one gives its ID to a row again.
ReusedAfter(k, i) ==
    /\ journal[k] = [type |-> "DeleteRow", key |-> i]
    /\ \E l \in k + 1 .. Len(journal) : journal[l] = [type |-> "AddRow", key |-> i]

Reused(i) == \E k \in 1 .. Len(journal) : ReusedAfter(k, i)

\* And before that, the journal made the table ask for the row.  If that request finds no row,
\* and its answer comes after the row's return, nobody asks again (refreshRow returns early,
\* the empty answer is dropped): the placeholder stays one until something refreshes it.
AskedForTooEarly(i) ==
    \E j, k \in 1 .. Len(journal) :
        /\ j < k /\ journal[j].key = i /\ journal[j].type # "DeleteRow"
        /\ ReusedAfter(k, i)

\* With a view open and no failures, a row of the backend that is stale or being loaded is
\* eventually loaded (or drafted over, or gone), unless it was asked for before it was
\* deleted and added again.
ShownRowsGetLoaded ==
    \A i \in BackendIds :
        (table.rows[i].state \in {"Stale", "Loading"} /\ table.open # {} /\ db[i] # Blank)
            ~> \/ table.rows[i].state \notin {"Stale", "Loading"} \/ db[i] = Blank
               \/ table.open = {} \/ aborted \/ AskedForTooEarly(i)

\* Row `y` of the backend is the row that addition `d` was submitted for, and the table has
\* yet to read that it was added.
AdditionReported(d, y, c) ==
    /\ table.rows[d] = [state |-> "PendingAdd", content |-> c]
    /\ table.rows[y] = NoRow /\ db[y] = c
    /\ \E k \in place + 1 .. Len(journal) : journal[k] = [type |-> "AddRow", key |-> y]

AdditionOver(d, y, c) == table.rows[d].state # "PendingAdd" \/ db[y] # c \/ aborted

\* A submitted addition settles once the backend has its row and the journal says so, if the
\* backend does not modify the row while it is being loaded, and the row's ID is not that of
\* a deleted row: a reply that still has that one puts it back, and then the new row's
\* reply overwrites a row that is there, for which no addition is looked up.
UnmodifiedAdditionsSettle ==
    \A d \in DraftIds, y \in BackendIds, c \in Contents :
        AdditionReported(d, y, c)
            ~> AdditionOver(d, y, c) \/ table.rows[y].state = "Stale" \/ Reused(y)

\* The table keeps the promise of EditTracking.
Tracking == INSTANCE EditTracking WITH
    tracked <- Backups(table), pending <- Pending(table), locked <- table.pendingEdits
KeepsTrackOfEdits == Tracking!Spec
=============================================================================
