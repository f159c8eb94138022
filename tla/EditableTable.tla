--------------------------- MODULE EditableTable ---------------------------
(***************************************************************************)
(* The table object of AbstractTable<Row> (src/cpp/AbstractTable.hpp): its *)
(* rows with the user's draft and pending edits laid over them, the        *)
(* backups, the additions, and what each handler makes of them.  These are *)
(* functions of the object alone.  AbstractTable has them happen, with the *)
(* network and the backend around one table; TableEditController has them  *)
(* happen in several tables at once.                                       *)
(*                                                                         *)
(* Row IDs are naturals.  A numeric table (poll.groups) assigns draft IDs  *)
(* from BaseDraftId up, above every backend ID; in a table keyed by a      *)
(* string (group.accts) a drafted row has the ID it will have in the       *)
(* backend, so DraftIds is empty.  All the fields of a row besides its ID  *)
(* are one member of Contents.                                             *)
(***************************************************************************)
EXTENDS Integers, Sequences, FiniteSets, FiniteSetsExt, Functions, Folds

CONSTANTS
    BackendIds,    \* IDs the backend's rows may have
    DraftIds,      \* IDs the table may give to drafted rows (numeric tables)
    BaseDraftId,   \* BASE_DRAFT_ID
    NumericIds,    \* whether RowId is integral
    Contents,      \* what a row may hold
    Blank,         \* what a default-constructed row holds
    Models         \* the list models that views may open

DraftStates   == {"DraftEdit", "DraftAdd", "DraftDelete"}
PendingStates == {"PendingEdit", "PendingAdd", "PendingDelete"}
LoadStates    == {"Loaded", "Loading", "Stale"} \cup DraftStates \cup PendingStates

Ids == BackendIds \cup DraftIds

\* What the constants must be for the operators below to mean what the code does.
ConstantsFit ==
    /\ BackendIds \subseteq Nat \ {0}
    /\ BaseDraftId \in Nat \ {0}
    /\ DraftIds \subseteq {i \in Nat : i >= BaseDraftId}
    /\ NumericIds \in BOOLEAN
    /\ IF NumericIds THEN \A i \in BackendIds : i < BaseDraftId ELSE DraftIds = {}
    /\ Blank \notin Contents
    /\ IsFiniteSet(Ids)

\* A place of rowList and rowStates, or of the backups: the row held under an ID.
Row   == [state : LoadStates, content : Contents \cup {Blank}]
NoRow == [state |-> "none", content |-> Blank]

Added   == [id : Ids, content : Contents]
Signals == [signal : {"draftEditInvalidated", "pendingEditSettled"}, id : Ids]

Present(t) == {i \in Ids : t.rows[i] # NoRow}
Backups(t) == {i \in Ids : t.backups[i] # NoRow}
Pending(t) == {i \in Ids : t.rows[i].state \in PendingStates}

NewTable == [rows    |-> [i \in Ids |-> NoRow],
             backups |-> [i \in Ids |-> NoRow],
             added   |-> {},
             pendingEdits |-> FALSE,
             open    |-> {},
             shown   |-> [m \in Models |-> {}],
             emitted |-> {}]

TableType ==
    [rows : [Ids -> Row \cup {NoRow}], backups : [Ids -> Row \cup {NoRow}],
     added : SUBSET Added, pendingEdits : BOOLEAN, open : SUBSET Models,
     shown : [Models -> SUBSET Ids], emitted : SUBSET Signals]

(***************************************************************************)
(* Parts of the table's handlers: functions of the table object.           *)
(*                                                                         *)
(* A definition whose name ends in _<Slip> is the one it precedes with a   *)
(* plausible slip in it.  No specification uses it: it is there to show    *)
(* that the properties notice.                                             *)
(***************************************************************************)

Emit(t, name, id) == [t EXCEPT !.emitted = @ \cup {[signal |-> name, id |-> id]}]

\* A handler starts with no signal emitted.
Quiet(t) == [t EXCEPT !.emitted = {}]

UpdateModels_NeverInserts(t, ids) == t

\* Model::updateRows for every model: a row that is not shown yet is inserted.
UpdateModels(t, ids) ==
    [t EXCEPT !.shown = [m \in Models |-> IF m \in t.open THEN @[m] \cup ids ELSE @[m]]]

SaveBackup(t, id, row) ==
    IF t.backups[id] = NoRow THEN [t EXCEPT !.backups[id] = row] ELSE t

DeleteBackupRow_AlwaysUnlocks(t, id) ==
    [t EXCEPT !.backups[id] = NoRow, !.pendingEdits = FALSE]

DeleteBackupRow(t, id) ==
    LET left == [t.backups EXCEPT ![id] = NoRow]
    IN  [t EXCEPT !.backups = left,
                  !.pendingEdits = @ /\ \E i \in Ids : left[i] # NoRow]

DeleteRow_ModelsNotTold(t, id) ==
    LET gone == [t EXCEPT !.rows[id] = NoRow]
    IN  IF t.rows[id].state \in DraftStates \cup {"PendingDelete"}
        THEN DeleteBackupRow(Emit(gone, "draftEditInvalidated", id), id) ELSE gone

DeleteRow_DraftsSilent(t, id) ==
    LET gone == DeleteBackupRow([t EXCEPT !.rows[id] = NoRow], id)
    IN  [gone EXCEPT !.shown = [m \in Models |-> @[m] \ {id}]]

DeleteRow(t, id) ==
    LET state == t.rows[id].state
        gone  == [t EXCEPT !.rows[id] = NoRow]
        told  == CASE state = "PendingDelete" ->
                        DeleteBackupRow(Emit(gone, "pendingEditSettled", id), id)
                   [] state \in DraftStates ->
                        DeleteBackupRow(Emit(gone, "draftEditInvalidated", id), id)
                   [] OTHER -> gone
    IN  [told EXCEPT !.shown = [m \in Models |-> @[m] \ {id}]]

\* The entries of locallyAddedRows a row from the backend matches; the first in the list
\* is the one with the smallest draft ID.  (Of two entries with one ID, of which one is left
\* over from a draft that was lost, some fixed one counts as the first.)
MatchingAdditions(t, id, content) ==
    {a \in t.added : a.content = content /\ (NumericIds \/ a.id = id)}
FirstOf(additions) == CHOOSE a \in additions : \A b \in additions : a.id <= b.id

CheckPendingInsertion(t, id, content) ==
    LET matches == MatchingAdditions(t, id, content)
        match   == FirstOf(matches)
        taken   == [t EXCEPT !.added = @ \ {match}]
        dropped == IF match.id # id THEN DeleteRow(taken, match.id) ELSE taken
    IN  IF t.pendingEdits /\ matches # {}
        THEN DeleteBackupRow(Emit(dropped, "pendingEditSettled", match.id), match.id)
        ELSE t

CheckOverwrittenEdit_Silent(t, id, oldState) ==
    IF oldState \in DraftStates \cup PendingStates THEN DeleteBackupRow(t, id) ELSE t

CheckOverwrittenEdit(t, id, oldState) ==
    LET mine == {a \in t.added : a.id = id}
        kept == IF oldState = "DraftAdd" /\ mine # {}
                THEN [t EXCEPT !.added = @ \ {FirstOf(mine)}] ELSE t
        name == IF oldState = "PendingEdit" THEN "pendingEditSettled"
                                            ELSE "draftEditInvalidated"
    IN  IF oldState \in DraftStates \cup {"PendingEdit", "PendingDelete"}
        THEN DeleteBackupRow(Emit(kept, name, id), id)
        ELSE t

PlaceRow_KeepsState(t, id, content) ==
    LET placed == [t EXCEPT !.rows[id].content = content]
    IN  UpdateModels(IF t.rows[id].state \in PendingStates THEN placed
                     ELSE [placed EXCEPT !.rows[id].state = "Loaded"], {id})

PlaceRow_LoadingNotChecked(t, id, content) ==
    LET old    == t.rows[id]
        placed == [t EXCEPT !.rows[id] = [state |-> "Loaded", content |-> content]]
    IN  UpdateModels(IF old.state \in {"none", "PendingAdd"}
                     THEN CheckPendingInsertion(placed, id, content)
                     ELSE CheckOverwrittenEdit(placed, id, old.state), {id})

\* One turn of processRowsResponse's loop over the rows of a reply.
PlaceRow(t, id, content) ==
    LET old    == t.rows[id]
        placed == [t EXCEPT !.rows[id] = [state |-> "Loaded", content |-> content]]
        edited == IF old.state \in {"none", "PendingAdd", "Loading"}
                  THEN CheckPendingInsertion(placed, id, content)
                  ELSE CheckOverwrittenEdit(placed, id, old.state)
    IN  UpdateModels(edited, {id})

(***************************************************************************)
(* Drafting, submitting and undoing edits                                  *)
(***************************************************************************)
EditAddition_Forgotten(t, id, content) == t

\* Editing a drafted row edits it in the list of added rows too, for it to be recognised.
EditAddition(t, id, content) ==
    LET mine == {a \in t.added : a.id = id}
    IN  IF mine = {} THEN t
        ELSE [t EXCEPT !.added = (@ \ {FirstOf(mine)}) \cup {[id |-> id, content |-> content]}]

CanBeEdited(t, id) == t.rows[id] # NoRow /\ t.rows[id].state # "DraftDelete"

DraftEdited(t, id, content) ==
    LET old   == t.rows[id]
        saved == CASE old.state = "DraftEdit" -> t
                   [] old.state = "DraftAdd" -> EditAddition(t, id, content)
                   [] OTHER -> [SaveBackup(t, id, old) EXCEPT !.rows[id].state = "DraftEdit"]
    IN  UpdateModels([Quiet(saved) EXCEPT !.rows[id].content = content], {id})

\* The ID of a drafted row: the next one free above the draft IDs, or the given name.
DraftIdAllowed(t, id) ==
    IF NumericIds
    THEN id = IF \E i \in Present(t) : i >= BaseDraftId
              THEN Max(Present(t)) + 1 ELSE BaseDraftId
    ELSE t.rows[id] = NoRow

DraftAdded(t, id, content) ==
    LET row  == [state |-> "DraftAdd", content |-> content]
        with == [Quiet(t) EXCEPT !.rows[id] = row,
                                 !.added = @ \cup {[id |-> id, content |-> content]}]
    IN  UpdateModels(SaveBackup(with, id, row), {id})

DraftDeleted(table, id) ==
    LET t == Quiet(table)
    IN  IF t.rows[id].state = "DraftAdd"
        THEN DeleteBackupRow(DeleteRow([t EXCEPT !.added = {a \in @ : a.id # id}], id), id)
        ELSE UpdateModels([SaveBackup(t, id, t.rows[id]) EXCEPT !.rows[id].state = "DraftDelete"],
                          {id})

PendingOf(state) == CASE state = "DraftEdit"   -> "PendingEdit"
                      [] state = "DraftAdd"    -> "PendingAdd"
                      [] state = "DraftDelete" -> "PendingDelete"
                      [] OTHER                 -> state

MarkedPending(t) ==
    LET edited == Backups(t) \cap Present(t)
        marked == [Quiet(t) EXCEPT
                     !.rows = [i \in Ids |->
                         IF i \in edited
                         THEN [t.rows[i] EXCEPT !.state = PendingOf(t.rows[i].state)]
                         ELSE t.rows[i]],
                     !.pendingEdits = @ \/ Backups(t) # {}]
    IN  UpdateModels(marked, edited)

\* resetEdits walks the backups in ID order.  remove() drops the backup at the loop's index,
\* which is the current one only if deleteRow has not dropped that one already.
BackupsAfter(t, id) == {i \in Backups(t) : i > id}

RevertRow(t, id) ==
    LET bak == t.backups[id]
    IN  [t EXCEPT !.rows[id].state = bak.state,
                  !.rows[id].content = IF t.rows[id].state \in {"DraftEdit", "PendingEdit"}
                                       THEN bak.content ELSE @]

\* What remove() makes of the backups after row `id` was deleted.
RemoveAtIndex(t, id) ==
    LET victim == IF t.backups[id] # NoRow THEN id ELSE Min(BackupsAfter(t, id))
    IN  [t EXCEPT !.backups[victim] = NoRow]

IndexOutOfRange(t, id) == t.backups[id] = NoRow /\ BackupsAfter(t, id) = {}

\* Whether the loop, at backup `id`, calls removeAt with an index past the end.
RunsOut(t, id) ==
    /\ t.rows[id].state \in {"DraftAdd", "PendingAdd"}
    /\ IndexOutOfRange(DeleteRow(t, id), id)

ResetOne(t, id) ==
    CASE t.rows[id] = NoRow -> RemoveAtIndex(t, id)
      [] t.rows[id].state \in {"DraftAdd", "PendingAdd"} ->
           IF RunsOut(t, id) THEN DeleteRow(t, id) ELSE RemoveAtIndex(DeleteRow(t, id), id)
      [] OTHER -> RevertRow(t, id)

EditsDropped(t) ==
    [UpdateModels(t, Backups(t)) EXCEPT !.backups = [i \in Ids |-> NoRow], !.added = {}]

\* The loop as a whole, the greatest ID last; `out` tells whether a turn ran out of range.
ResetTurn(r, id) ==
    IF r.table.backups[id] = NoRow THEN r
    ELSE [table |-> ResetOne(r.table, id), out |-> r.out \/ RunsOut(r.table, id)]

ResetLoop(t) == MapThenFoldSet(LAMBDA id, r : ResetTurn(r, id), [table |-> t, out |-> FALSE],
                               LAMBDA id : id, Max, Ids)

LoopRunsOut(t) == ResetLoop(t).out
EditsUndone(t) == EditsDropped(ResetLoop(t).table)

\* markStale throws a draft away for its backup; a row awaiting its own edit it leaves alone.
MarkedStale(t, id) ==
    LET state    == t.rows[id].state
        bak      == t.backups[id]
        restored == IF bak = NoRow THEN Quiet(t) ELSE [Quiet(t) EXCEPT !.rows[id] = bak]
        told     == IF state \in DraftStates
                    THEN DeleteBackupRow(Emit(restored, "draftEditInvalidated", id), id)
                    ELSE Quiet(t)
    IN  IF state \in {"none", "PendingEdit", "PendingDelete"}
        THEN Quiet(t)
        ELSE [told EXCEPT !.rows[id].state = "Stale"]
=============================================================================
