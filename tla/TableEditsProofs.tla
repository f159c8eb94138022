-------------------------- MODULE TableEditsProofs --------------------------
(***************************************************************************)
(* More theorems about AbstractTable: what becomes of the user's edits and *)
(* of what the views show, and that the table implements EditTracking.     *)
(* The invariant of AbstractTableProofs is taken from there.               *)
(***************************************************************************)
EXTENDS AbstractTableProofs

\* What the lemmas about the handlers need to know of the constants.
USE EditableTableAssumption

(***************************************************************************)
(* The actions, but for drafting, marking edits pending and the loop of    *)
(* resetEdits, only take edits away, and keep the views told.              *)
(***************************************************************************)
SettlingStep ==
    /\ TakesEdits(table, table')
    /\ ViewsTold(table, {}, 0) => ViewsTold(table', {}, 0)

LEMMA QuietTable ==
  ASSUME IInv
  PROVE  /\ table \in TableType /\ Quiet(table) \in TableType
         /\ Quiet(table).rows = table.rows /\ Quiet(table).backups = table.backups
         /\ Quiet(table).added = table.added /\ Quiet(table).open = table.open
         /\ Quiet(table).shown = table.shown
         /\ Quiet(table).pendingEdits = table.pendingEdits
  BY QuietSettles DEF IInv, TypeOK

LEMMA SettlesIsSettlingStep ==
  ASSUME IInv, Settles(Quiet(table), table')
  PROVE  TakesEdits(table, table')
  BY QuietTable DEF Settles, TakesEdits

LEMMA SameEditsStep ==
  ASSUME IInv, table'.rows = table.rows, table'.backups = table.backups,
         table'.added = table.added, table'.pendingEdits = table.pendingEdits
  PROVE  TakesEdits(table, table')
  BY QuietTable DEF TakesEdits

LEMMA UnchangedTableStep ==
  ASSUME IInv, UNCHANGED table
  PROVE  SettlingStep
  BY SameEditsStep DEF SettlingStep

LEMMA ResetEditsSettles ==
  ASSUME IInv, table' = Quiet(table)
  PROVE  SettlingStep
  BY QuietTable, SameEditsStep, ViewsQuiet DEF SettlingStep

LEMMA JournalAddsSettles ==
  ASSUME IInv, NEW id \in Ids, JournalAdds(id)
  PROVE  SettlingStep
<1> DEFINE q   == Quiet(table)
           row == [state |-> "Loading", content |-> Blank]
           u   == [q EXCEPT !.rows[id] = row]
<1>1. CASE table.rows[id] # NoRow
  BY <1>1, ResetEditsSettles DEF JournalAdds
<1>2. CASE table.rows[id] = NoRow
  <2>1. table' = u
    BY <1>2 DEF JournalAdds
  <2>2. row \in Row /\ row.state \notin DraftStates \cup PendingStates
    BY StateFacts DEF Row, LoadStates
  <2>3. row.state = "Loading" /\ row.content = Blank /\ row # NoRow
    BY <2>2, NoRowFacts
  <2>4. table.rows[id].state \notin DraftStates
    BY <1>2, NoRowFacts
  <2>. HIDE DEF row, q
  <2>5. /\ Settles(q, u) /\ u.rows = [q.rows EXCEPT ![id] = row] /\ u.shown = q.shown
    BY <2>2, <2>4, QuietTable, SetRowSettles DEF q
  <2>6. /\ table'.open = table.open /\ table'.shown = table.shown
        /\ table'.rows[id] = row
        /\ \A i \in Ids : i # id => table'.rows[i] = table.rows[i]
    <3>. HIDE DEF u
    <3>. QED  BY <2>1, <2>5, QuietTable DEF q, Settles, TableType
  <2>7. \A i \in Ids : table.rows[i] = NoRow \/ Hidden(table, i, 0)
                          => table'.rows[i] = NoRow \/ Hidden(table', i, 0)
    BY <2>3, <2>6, HiddenAtRest
  <2>8. ViewsTold(table, {}, 0) => ViewsTold(table', {}, 0)
    BY <1>2, <2>3, <2>6, <2>7, QuietTable, ViewsOfSameRows
  <2>9. TakesEdits(table, table')
    BY <2>1, <2>5, SettlesIsSettlingStep DEF q
  <2>. QED  BY <2>8, <2>9 DEF SettlingStep
<1>. QED  BY <1>1, <1>2

LEMMA ProcessJournalEntrySettles ==
  ASSUME IInv, ProcessJournalEntry
  PROVE  SettlingStep
<1> DEFINE entry == journal[place']
<1>1. entry.type \in {"AddRow", "ModifyRow", "DeleteRow"} /\ entry.key \in Ids
  <2> DEFINE Entries == [type : {"AddRow", "ModifyRow", "DeleteRow"}, key : BackendIds]
  <2>1. journal \in Seq(Entries) /\ place' \in 1 .. Len(journal)
    BY DEF ProcessJournalEntry, IInv, TypeOK
  <2>2. entry \in Entries
    <3>. HIDE DEF Entries
    <3>. QED  BY <2>1
  <2>. HIDE DEF entry
  <2>. QED  BY <2>2, IdsPositive
<1>2. \/ UNCHANGED table
      \/ JournalDeletes(entry.key)
      \/ JournalMarksStale(entry.key)
      \/ JournalAdds(entry.key)
  BY <1>1 DEF ProcessJournalEntry
<1>. HIDE DEF entry
<1>3. ASSUME JournalDeletes(entry.key)  PROVE SettlingStep
  <2>1. table' = DeleteRow(Quiet(table), entry.key)
    BY <1>3 DEF JournalDeletes
  <2>2. Settles(Quiet(table), table')
    BY <1>1, <2>1, QuietTable, DeleteRowSettles
  <2>3. ViewsTold(table, {}, 0) => ViewsTold(table', {}, 0)
    BY <1>1, <2>1, QuietTable, ViewsQuiet, DeleteRowViews
  <2>. QED  BY <2>2, <2>3, SettlesIsSettlingStep DEF SettlingStep
<1>4. ASSUME JournalMarksStale(entry.key)  PROVE SettlingStep
  <2>1. table' = MarkedStale(table, entry.key)
    BY <1>4 DEF JournalMarksStale
  <2>. QED  BY <1>1, <2>1, QuietTable, MarkedStaleSettles, SettlesIsSettlingStep DEF SettlingStep
<1>. QED  BY <1>1, <1>2, <1>3, <1>4, UnchangedTableStep, JournalAddsSettles

LEMMA ReplyArrivesSettles ==
  ASSUME IInv, NEW s \in Slots, ReplyArrives(s)
  PROVE  SettlingStep
<1> DEFINE reply == requests[s]
           ids   == {r.id : r \in reply.page}
           rows  == [i \in Ids |->
                       IF i \in ids
                       THEN [state |-> "Loaded",
                             content |-> (CHOOSE r \in reply.page : r.id = i).content]
                       ELSE table.rows[i]]
           q     == Quiet(table)
           added == [q EXCEPT !.rows = rows]
<1>1. reply \in Request
  BY DEF IInv, TypeOK
<1>2. ids \in SUBSET Ids
  BY <1>1, IdsPositive DEF Request
<1>3. CASE ~GoesAtEnd(ids)
  BY <1>3, ResetEditsSettles DEF ReplyArrives
<1>4. CASE GoesAtEnd(ids)
  <2>1. table' = UpdateModels(added, ids)
    BY <1>4, QuietTable DEF ReplyArrives
  <2>2. \A i \in ids : table.rows[i] = NoRow
    <3>1. \A i \in Ids : ~(i < i)
      BY IdsPositive
    <3>. HIDE DEF ids
    <3>. QED  BY <1>2, <1>4, <3>1 DEF GoesAtEnd, Present
  <2>3. ASSUME NEW i \in Ids
        PROVE  IF i \in ids THEN rows[i] \in Row /\ rows[i].state = "Loaded"
                            ELSE rows[i] = table.rows[i]
    <3>1. CASE i \in ids
      <4>1. PICK r \in reply.page : r.id = i
        BY <3>1
      <4>2. (CHOOSE r1 \in reply.page : r1.id = i) \in reply.page
        BY <4>1
      <4>3. (CHOOSE r1 \in reply.page : r1.id = i).content \in Contents
        BY <1>1, <4>2 DEF Request
      <4>. QED  BY <3>1, <4>3 DEF Row, LoadStates
    <3>2. CASE i \notin ids
      BY <3>2
    <3>. QED  BY <3>1, <3>2
  <2>4. rows \in [Ids -> Row \cup {NoRow}]
    <3>1. \A i \in Ids : rows[i] \in Row \cup {NoRow}
      <4>1. table.rows \in [Ids -> Row \cup {NoRow}]
        BY QuietTable DEF TableType
      <4>2. \A i \in Ids : table.rows[i] \in Row \cup {NoRow}
        BY <4>1
      <4>. HIDE DEF rows
      <4>. QED  BY <2>3, <4>2
    <3>. QED  BY <3>1
  <2>. HIDE DEF rows, ids
  <2>5. /\ added \in TableType /\ added.rows = rows /\ added.backups = table.backups
        /\ added.added = table.added /\ added.pendingEdits = table.pendingEdits
        /\ added.open = table.open /\ added.shown = table.shown /\ added.emitted = q.emitted
    <3>. HIDE DEF q
    <3>. QED  BY <2>4, QuietTable DEF q, TableType
  <2>. HIDE DEF added
  <2>6. Settles(q, added)
    <3>1. \A i \in Ids : added.rows[i] # table.rows[i] =>
             /\ added.rows[i].state \notin DraftStates \cup PendingStates
             /\ table.rows[i].state \notin DraftStates
      BY <2>2, <2>3, <2>5, StateFacts, NoRowFacts
    <3>2. \A a \in q.added : a \in added.added
      BY <2>5, QuietTable
    <3>. QED  BY <2>5, <3>1, <3>2, QuietTable DEF Settles, TakesEdits
  <2>7. /\ Settles(added, table') /\ table'.rows = rows
        /\ table'.shown = [m \in Models |-> IF m \in table.open THEN table.shown[m] \cup ids
                                                                ELSE table.shown[m]]
    BY <1>2, <2>1, <2>5, UpdateModelsSettles
  <2>8. Settles(q, table')
    BY <2>6, <2>7, QuietTable, SettlesTransitive DEF q
  <2>9. ViewsTold(table, {}, 0) => ViewsTold(table', {}, 0)
    <3>1. table'.open = table.open /\ table.open \subseteq Models
      BY <2>5, <2>7, QuietTable DEF Settles, TableType
    <3>2. \A m \in table.open : table'.shown[m] = table.shown[m] \cup ids
      BY <2>7, <3>1
    <3>3. /\ \A i \in ids : table'.rows[i] # NoRow
          /\ \A i \in Ids \ ids : table'.rows[i] = table.rows[i]
      BY <1>2, <2>3, <2>7, NoRowFacts
    <3>. QED  BY <1>2, <3>1, <3>2, <3>3, QuietTable, ViewsOfTold
  <2>. QED  BY <2>8, <2>9, SettlesIsSettlingStep DEF SettlingStep, q
<1>. QED  BY <1>3, <1>4

LEMMA PlaceNextRowSettles ==
  ASSUME IInv, PlaceNextRow
  PROVE  SettlingStep
<1>1. PICK id \in Ids, content \in Contents : table' = PlaceRow(table, id, content)
  <2> DEFINE row == CHOOSE r \in busy.todo : \A q \in busy.todo : r.id <= q.id
             keys == {r.id : r \in busy.todo}
  <2>1. keys \in SUBSET Nat /\ keys # {}
    BY IdsPositive DEF PlaceNextRow, IInv, TypeOK
  <2>2. Min(keys) \in keys /\ \A k \in keys : Min(keys) <= k
    <3>. HIDE DEF keys
    <3>. QED  BY <2>1, LeastOfNat
  <2>3. \E r \in busy.todo : \A q \in busy.todo : r.id <= q.id
    BY <2>2
  <2>4. row \in busy.todo
    BY <2>3
  <2>5. row.id \in Ids /\ row.content \in Contents
    BY <2>4, IdsPositive DEF IInv, TypeOK
  <2>6. table' = PlaceRow(table, row.id, row.content)
    BY DEF PlaceNextRow
  <2>. HIDE DEF row
  <2>. QED  BY <2>5, <2>6
<1>2. /\ Settles(table, table')
      /\ ViewsTold(table, {}, 0) => ViewsTold(table', {}, 0)
  BY <1>1, QuietTable, PlaceRowSettles
<1>. QED  BY <1>2 DEF SettlingStep, Settles

LEMMA AllRowsSettles ==
  ASSUME IInv, NEW m \in Models, AllRows(m)
  PROVE  SettlingStep
<1>1. table' = [Quiet(table) EXCEPT !.open = table.open \cup {m}, !.shown[m] = Present(table)]
  BY QuietTable DEF AllRows
<1>2. /\ table'.rows = table.rows /\ table'.backups = table.backups
      /\ table'.added = table.added /\ table'.pendingEdits = table.pendingEdits
      /\ table'.open = table.open \cup {m} /\ table'.shown[m] = Present(table)
      /\ \A n \in Models : n # m => table'.shown[n] = table.shown[n]
  BY <1>1, QuietTable DEF TableType
<1>3. Present(table') = Present(table) /\ \A i \in Ids : Hidden(table', i, 0) <=> Hidden(table, i, 0)
  BY <1>2 DEF Present, Hidden
<1>4. table.open \subseteq Models
  BY QuietTable DEF TableType
<1>5. ASSUME ViewsTold(table, {}, 0)  PROVE ViewsTold(table', {}, 0)
  <2>1. ASSUME NEW n \in table'.open
        PROVE  /\ table'.shown[n] \subseteq Present(table')
               /\ \A i \in Present(table') \ table'.shown[n] : Hidden(table', i, 0)
    <3>1. CASE n = m
      BY <1>2, <1>3, <3>1
    <3>2. CASE n # m
      <4>1. n \in table.open /\ table'.shown[n] = table.shown[n]
        BY <1>2, <1>4, <2>1, <3>2
      <4>. QED  BY <1>3, <1>5, <4>1 DEF ViewsTold, Present
    <3>. QED  BY <3>1, <3>2
  <2>2. \A i \in Ids : ~(i <= 0)
    BY IdsPositive
  <2>3. \A n \in table'.open : Present(table') \ (table'.shown[n] \cup {})
                                 = Present(table') \ table'.shown[n]
    OBVIOUS
  <2>. QED  BY <2>1, <2>2, <2>3 DEF ViewsTold
<1>. QED  BY <1>2, <1>5, SameEditsStep DEF SettlingStep

LEMMA ModelDestroyedSettles ==
  ASSUME IInv, NEW m \in Models, ModelDestroyed(m)
  PROVE  SettlingStep
<1>1. table' = [Quiet(table) EXCEPT !.open = table.open \ {m}, !.shown[m] = {}]
  BY QuietTable DEF ModelDestroyed
<1>2. /\ table'.rows = table.rows /\ table'.backups = table.backups
      /\ table'.added = table.added /\ table'.pendingEdits = table.pendingEdits
      /\ table'.open = table.open \ {m}
      /\ \A n \in table.open : n # m => table'.shown[n] = table.shown[n]
  BY <1>1, QuietTable DEF TableType
<1>3. ViewsTold(table, {}, 0) => ViewsTold(table', {}, 0)
  BY <1>2 DEF ViewsTold, Present, Hidden
<1>. QED  BY <1>2, <1>3, SameEditsStep DEF SettlingStep
(***************************************************************************)
(* A user's draft of one row, in a table that is not locked.  The row is   *)
(* then a draft, or if a drafted addition was deleted it is gone, which is *)
(* signalled.                                                              *)
(***************************************************************************)
Drafting(t, u, id) ==
    /\ ~t.pendingEdits /\ ~u.pendingEdits
    /\ \A i \in Ids \ {id} : u.rows[i] = t.rows[i] /\ u.backups[i] = t.backups[i]
    /\ \/ u.rows[id].state \in DraftStates
       \/ u.rows[id] = NoRow /\ u.backups[id] = NoRow /\ Notice(id) \in u.emitted
    /\ \A a \in t.added : a.id # id => a \in u.added
    /\ u.rows[id].state = "DraftAdd" /\ u.backups[id] # NoRow =>
          \/ [id |-> id, content |-> u.rows[id].content] \in u.added
          \/ /\ t.rows[id].state = "DraftAdd" /\ t.backups[id] # NoRow
             /\ [id |-> id, content |-> t.rows[id].content] \notin t.added

DraftingStep(id) ==
    /\ Drafting(table, table', id)
    /\ busy = Idle /\ busy' = busy
    /\ ViewsTold(table, {}, 0) => ViewsTold(table', {}, 0)

LEMMA DraftEditRowDrafts ==
  ASSUME IInv, NEW id \in Ids, NEW content \in Drafts, DraftEditRow(id, content)
  PROVE  DraftingStep(id)
<1> DEFINE t   == table
           old == t.rows[id]
           row == [state |-> IF old.state \in {"DraftEdit", "DraftAdd"} THEN old.state ELSE "DraftEdit",
                   content |-> content]
           backups == IF old.state \in {"DraftEdit", "DraftAdd"} \/ t.backups[id] # NoRow
                      THEN t.backups ELSE [t.backups EXCEPT ![id] = old]
           mine  == {a \in t.added : a.id = id}
           added == IF old.state = "DraftAdd" /\ mine # {}
                    THEN (t.added \ {FirstOf(mine)}) \cup {[id |-> id, content |-> content]}
                    ELSE t.added
           saved == CASE old.state = "DraftEdit" -> t
                      [] old.state = "DraftAdd" -> EditAddition(t, id, content)
                      [] OTHER -> [SaveBackup(t, id, old) EXCEPT !.rows[id].state = "DraftEdit"]
           final == [Quiet(saved) EXCEPT !.rows[id].content = content]
<1>1. /\ t \in TableType /\ old \in Row /\ ~t.pendingEdits /\ busy = Idle
  <2>1. old # NoRow /\ ~t.pendingEdits /\ busy = Idle
    BY DEF DraftEditRow, MayDraft, Ready, CanBeEdited
  <2>. QED  BY <2>1, QuietTable DEF TableType
<1>2. table' = UpdateModels(final, {id}) /\ busy' = busy
  BY DEF DraftEditRow, DraftEdited, LocalStep
<1>3. /\ saved.rows \in [Ids -> Row \cup {NoRow}] /\ saved.rows[id].state = row.state
      /\ saved.rows[id] \in Row /\ \A i \in Ids \ {id} : saved.rows[i] = t.rows[i]
      /\ saved.backups = backups /\ saved.added = added /\ saved.open = t.open
      /\ saved.shown = t.shown /\ saved.pendingEdits = t.pendingEdits
      /\ DOMAIN saved = DOMAIN t /\ saved = [x \in DOMAIN t |-> saved[x]]
  <2>1. CASE old.state = "DraftEdit"
    <3>1. saved = t /\ backups = t.backups /\ added = t.added /\ row.state = old.state
      BY <2>1
    <3>. HIDE DEF saved, backups, added, row
    <3>. QED  BY <1>1, <3>1 DEF TableType
  <2>2. CASE old.state = "DraftAdd"
    <3>1. backups = t.backups /\ row.state = old.state
      BY <2>2
    <3>2. saved = [t EXCEPT !.added = added]
      BY <1>1, <2>2 DEF EditAddition, TableType
    <3>. HIDE DEF saved, backups, added, row
    <3>. QED  BY <1>1, <3>1, <3>2 DEF TableType
  <2>3. CASE old.state \notin {"DraftEdit", "DraftAdd"}
    <3>1. SaveBackup(t, id, old) = [t EXCEPT !.backups = backups]
      BY <1>1, <2>3 DEF SaveBackup, TableType
    <3>2. saved = [[t EXCEPT !.backups = backups] EXCEPT !.rows[id].state = "DraftEdit"]
      BY <2>3, <3>1
    <3>3. row.state = "DraftEdit" /\ added = t.added
      BY <2>3
    <3> DEFINE edited == [old EXCEPT !.state = "DraftEdit"]
    <3>4. edited \in Row /\ edited.state = "DraftEdit"
      BY <1>1 DEF Row, LoadStates, DraftStates
    <3>. HIDE DEF backups, saved, added, row
    <3>5. saved = [t EXCEPT !.backups = backups, !.rows = [t.rows EXCEPT ![id] = edited]]
      BY <1>1, <3>2 DEF TableType
    <3>. HIDE DEF edited
    <3>. QED  BY <1>1, <3>3, <3>4, <3>5 DEF TableType
  <2>. QED  BY <2>1, <2>2, <2>3
<1>4. /\ row \in Row /\ row.state \in DraftStates /\ row # NoRow /\ row.content = content
  <2>1. row \in Row /\ row.state \in DraftStates
    BY TableAssumption DEF Row, LoadStates, DraftStates, DraftEditRow
  <2>. QED  BY <2>1, NoRowFacts
<1>5. /\ backups \in [Ids -> Row \cup {NoRow}]
      /\ \A i \in Ids \ {id} : backups[i] = t.backups[i]
      /\ old.state = "DraftAdd" => backups = t.backups
  BY <1>1 DEF TableType
<1>6. /\ added \in SUBSET Added
      /\ \A a \in t.added : a.id # id => a \in added
      /\ old.state = "DraftAdd" /\ [id |-> id, content |-> old.content] \in t.added
            => [id |-> id, content |-> content] \in added
  <2>1. t.added \in SUBSET Added /\ content \in Contents
    BY <1>1, TableAssumption DEF TableType
  <2>2. CASE old.state = "DraftAdd" /\ mine # {}
    <3>1. added = (t.added \ {FirstOf(mine)}) \cup {[id |-> id, content |-> content]}
      BY <2>2
    <3>2. FirstOf(mine).id = id
      BY <2>1, <2>2, FirstOfMember
    <3>. HIDE DEF added, mine
    <3>. QED  BY <2>1, <3>1, <3>2 DEF Added
  <2>3. CASE old.state # "DraftAdd" \/ mine = {}
    BY <2>1, <2>3
  <2>. QED  BY <2>2, <2>3
<1>7. /\ final \in TableType /\ final.rows = [t.rows EXCEPT ![id] = row]
      /\ final.backups = backups /\ final.added = added /\ final.pendingEdits = t.pendingEdits
      /\ final.open = t.open /\ final.shown = t.shown
  <2> DEFINE rows == [saved.rows EXCEPT ![id].content = content]
  <2>1. saved.rows[id] = [state |-> saved.rows[id].state, content |-> saved.rows[id].content]
    BY <1>3 DEF Row
  <2>0. row = [state |-> row.state, content |-> content]
    OBVIOUS
  <2>2. [saved.rows[id] EXCEPT !.content = content] = row
    <3>. HIDE DEF row, saved
    <3>. QED  BY <1>3, <2>0, <2>1
  <2>3. rows = [saved.rows EXCEPT ![id] = row]
    BY <2>2
  <2>. HIDE DEF row, backups, added, saved
  <2>4. rows = [t.rows EXCEPT ![id] = row]
    BY <1>1, <1>3, <2>3 DEF TableType
  <2>. HIDE DEF rows
  <2>5. final = [saved EXCEPT !.emitted = {}, !.rows = rows]
    BY <1>1, <1>3 DEF Quiet, TableType, rows
  <2>6. rows \in [Ids -> Row \cup {NoRow}]
    BY <1>1, <1>4, <2>4 DEF TableType
  <2>. HIDE DEF final
  <2>. QED  BY <1>1, <1>3, <1>5, <1>6, <2>4, <2>5, <2>6 DEF TableType
<1>. HIDE DEF row, backups, added, saved
<1>. HIDE DEF final
<1>8. /\ Settles(final, table') /\ table'.rows = [t.rows EXCEPT ![id] = row]
      /\ table'.added = added /\ table'.backups = backups
      /\ table'.shown = [m \in Models |-> IF m \in t.open THEN t.shown[m] \cup {id} ELSE t.shown[m]]
  BY <1>2, <1>7, UpdateModelsSettles
<1>9. /\ table'.rows[id] = row /\ \A i \in Ids \ {id} : table'.rows[i] = t.rows[i]
      /\ table'.open = t.open /\ t.open \subseteq Models /\ ~table'.pendingEdits
  BY <1>1, <1>7, <1>8 DEF Settles, TakesEdits, TableType
<1>10. row.state = "DraftAdd" => old.state = "DraftAdd"
  BY DEF row
<1>11. Drafting(t, table', id)
  <2>1. \A a \in t.added : a.id # id => a \in table'.added
    BY <1>6, <1>8
  <2>2. row.state = "DraftAdd" /\ backups[id] # NoRow =>
          \/ [id |-> id, content |-> content] \in added
          \/ /\ old.state = "DraftAdd" /\ t.backups[id] # NoRow
             /\ [id |-> id, content |-> old.content] \notin t.added
    BY <1>5, <1>6, <1>10
  <2>. QED  BY <1>1, <1>4, <1>5, <1>8, <1>9, <2>1, <2>2 DEF Drafting
<1>12. ASSUME ViewsTold(t, {}, 0)  PROVE ViewsTold(table', {}, 0)
  <2>1. \A m \in t.open : table'.shown[m] = t.shown[m] \cup {id}
    BY <1>8, <1>9
  <2>2. {id} \in SUBSET Ids /\ \A i \in {id} : table'.rows[i] # NoRow
    BY <1>4, <1>9
  <2>. QED  BY <1>1, <1>9, <1>12, <2>1, <2>2, ViewsOfTold
<1>. QED  BY <1>1, <1>2, <1>11, <1>12 DEF DraftingStep

LEMMA DraftAddRowDrafts ==
  ASSUME IInv, NEW id \in Ids, NEW content \in Drafts, DraftAddRow(id, content)
  PROVE  DraftingStep(id)
<1> DEFINE t     == table
           row   == [state |-> "DraftAdd", content |-> content]
           added == t.added \cup {[id |-> id, content |-> content]}
           backups == IF t.backups[id] = NoRow THEN [t.backups EXCEPT ![id] = row] ELSE t.backups
           with  == [Quiet(t) EXCEPT !.rows[id] = row,
                                     !.added = @ \cup {[id |-> id, content |-> content]}]
           final == SaveBackup(with, id, row)
<1>1. t \in TableType /\ ~t.pendingEdits /\ busy = Idle
  BY QuietTable DEF DraftAddRow, MayDraft, Ready
<1>2. table' = UpdateModels(final, {id}) /\ busy' = busy
  BY DEF DraftAddRow, DraftAdded, LocalStep
<1>3. /\ row \in Row /\ row.state = "DraftAdd" /\ row.state \in DraftStates /\ row # NoRow
      /\ row.content = content
  <2>1. row \in Row /\ row.state = "DraftAdd" /\ row.state \in DraftStates /\ row.content = content
    BY TableAssumption DEF Row, LoadStates, DraftStates
  <2>. QED  BY <2>1, NoRowFacts
<1>4. added \in SUBSET Added
  BY <1>1, TableAssumption DEF TableType, Added
<1>. HIDE DEF row
<1>5. final = [t EXCEPT !.rows = [t.rows EXCEPT ![id] = row], !.backups = backups,
                        !.added = added, !.emitted = {}]
  BY <1>1 DEF Quiet, SaveBackup, TableType
<1>6. backups \in [Ids -> Row \cup {NoRow}] /\ \A i \in Ids \ {id} : backups[i] = t.backups[i]
  BY <1>1, <1>3 DEF TableType
<1>. HIDE DEF backups, final, added
<1>7. /\ final \in TableType /\ final.rows = [t.rows EXCEPT ![id] = row]
      /\ final.backups = backups /\ final.added = added /\ final.pendingEdits = t.pendingEdits
      /\ final.open = t.open /\ final.shown = t.shown
  <2>. QED  BY <1>1, <1>3, <1>4, <1>5, <1>6 DEF TableType
<1>8. /\ Settles(final, table') /\ table'.rows = [t.rows EXCEPT ![id] = row]
      /\ table'.added = added /\ table'.backups = backups
      /\ table'.shown = [m \in Models |-> IF m \in t.open THEN t.shown[m] \cup {id} ELSE t.shown[m]]
  BY <1>2, <1>7, UpdateModelsSettles
<1>9. /\ table'.rows[id] = row /\ \A i \in Ids \ {id} : table'.rows[i] = t.rows[i]
      /\ table'.open = t.open /\ t.open \subseteq Models /\ ~table'.pendingEdits
  BY <1>1, <1>7, <1>8 DEF Settles, TakesEdits, TableType
<1>10. Drafting(t, table', id)
  <2>1. t.added \subseteq table'.added /\ [id |-> id, content |-> row.content] \in table'.added
    BY <1>3, <1>8 DEF added
  <2>. QED  BY <1>1, <1>3, <1>6, <1>8, <1>9, <2>1 DEF Drafting
<1>11. ASSUME ViewsTold(t, {}, 0)  PROVE ViewsTold(table', {}, 0)
  <2>1. \A m \in t.open : table'.shown[m] = t.shown[m] \cup {id}
    BY <1>8, <1>9
  <2>2. {id} \in SUBSET Ids /\ \A i \in {id} : table'.rows[i] # NoRow
    BY <1>3, <1>9
  <2>. QED  BY <1>1, <1>9, <1>11, <2>1, <2>2, ViewsOfTold
<1>. QED  BY <1>1, <1>2, <1>10, <1>11 DEF DraftingStep

LEMMA DraftDeleteRowDrafts ==
  ASSUME IInv, NEW id \in Ids, DraftDeleteRow(id)
  PROVE  DraftingStep(id)
<1> DEFINE t     == table
           q     == Quiet(t)
           old   == t.rows[id]
<1>1. /\ t \in TableType /\ ~t.pendingEdits /\ busy = Idle /\ busy' = busy
      /\ old \in Row /\ old # NoRow
  <2>1. old # NoRow /\ ~t.pendingEdits /\ busy = Idle /\ busy' = busy
    BY DEF DraftDeleteRow, MayDraft, Ready, LocalStep
  <2>. QED  BY <2>1, QuietTable DEF TableType
<1>2. /\ q \in TableType /\ q.rows = t.rows /\ q.backups = t.backups /\ q.added = t.added
      /\ q.pendingEdits = t.pendingEdits /\ q.open = t.open /\ q.shown = t.shown
  BY QuietTable
<1>3. CASE old.state = "DraftAdd"
  <2> DEFINE left      == {a \in t.added : a.id # id}
             forgotten == [q EXCEPT !.added = left]
             gone      == DeleteRow(forgotten, id)
  <2>1. table' = DeleteBackupRow(gone, id)
    BY <1>2, <1>3 DEF DraftDeleteRow, DraftDeleted
  <2>2. /\ forgotten \in TableType /\ forgotten.rows = t.rows /\ forgotten.backups = t.backups
        /\ forgotten.added = left /\ forgotten.pendingEdits = t.pendingEdits
        /\ forgotten.open = t.open /\ forgotten.shown = t.shown
    <3>1. left \in SUBSET Added
      BY <1>1 DEF TableType
    <3>. HIDE DEF left, q
    <3>. QED  BY <1>2, <3>1 DEF TableType
  <2>. HIDE DEF forgotten, left, q
  <2>3. /\ Settles(forgotten, gone) /\ gone.rows = [t.rows EXCEPT ![id] = NoRow]
        /\ gone.added = left
        /\ \A i \in Ids : i # id => gone.backups[i] = t.backups[i]
    <3>1. /\ Settles(forgotten, gone) /\ gone.rows = [forgotten.rows EXCEPT ![id] = NoRow]
          /\ gone.added = forgotten.added
          /\ \A i \in Ids : i # id => gone.backups[i] = forgotten.backups[i]
      BY <2>2, DeleteRowSettles
    <3>. HIDE DEF gone
    <3>. QED  BY <2>2, <3>1
  <2>4. gone \in TableType /\ gone.open = t.open /\ gone.shown \in [Models -> SUBSET Ids]
    BY <2>2, <2>3 DEF Settles, TableType
  <2>5. gone.rows[id] = NoRow /\ \A i \in Ids \ {id} : gone.rows[i] = t.rows[i]
    BY <1>1, <2>3 DEF TableType
  <2>6. Notice(id) \in gone.emitted /\ ~gone.pendingEdits
    <3>1. old.state \in DraftStates /\ gone.rows[id] # t.rows[id]
      BY <1>1, <1>3, <2>5 DEF DraftStates
    <3>. QED  BY <1>1, <2>2, <2>3, <3>1 DEF Settles, TakesEdits
  <2>7. ViewsTold(t, {}, 0) => ViewsTold(gone, {}, 0)
    <3>1. ViewsTold(t, {}, 0) => ViewsTold(forgotten, {}, 0)
      BY <2>2 DEF ViewsTold, Present, Hidden
    <3>. QED  BY <2>2, <3>1, DeleteRowViews
  <2>. HIDE DEF gone
  <2>8. /\ Settles(gone, table') /\ table'.rows = gone.rows /\ table'.added = left
        /\ table'.shown = gone.shown /\ table'.emitted = gone.emitted
        /\ table'.backups = [gone.backups EXCEPT ![id] = NoRow]
    BY <2>1, <2>3, <2>4, DeleteBackupRowSettles
  <2>9. /\ table'.backups[id] = NoRow
        /\ \A i \in Ids \ {id} : table'.backups[i] = t.backups[i]
        /\ table'.open = t.open /\ ~table'.pendingEdits
    BY <2>3, <2>4, <2>6, <2>8 DEF Settles, TakesEdits, TableType
  <2>10. Drafting(t, table', id)
    <3>1. \A a \in t.added : a.id # id => a \in table'.added
      BY <2>8 DEF left
    <3>2. table'.rows[id] = NoRow /\ Notice(id) \in table'.emitted
      BY <2>5, <2>6, <2>8
    <3>3. table'.rows[id].state # "DraftAdd"
      BY <3>2, NoRowFacts
    <3>. QED  BY <1>1, <2>5, <2>8, <2>9, <3>1, <3>2, <3>3 DEF Drafting
  <2>11. ViewsTold(gone, {}, 0) => ViewsTold(table', {}, 0)
    <3>1. ASSUME ViewsTold(gone, {}, 0)  PROVE ViewsTold(table', {}, 0)
      <4>1. \A i \in Ids : Hidden(gone, i, 0) => Hidden(table', i, 0)
        BY <2>8, HiddenAtRest
      <4>. QED  BY <2>4, <2>8, <2>9, <3>1, <4>1, ViewsOfSameRows
    <3>. QED  BY <3>1
  <2>. QED  BY <1>1, <2>7, <2>10, <2>11 DEF DraftingStep
<1>4. CASE old.state # "DraftAdd"
  <2> DEFINE row     == [old EXCEPT !.state = "DraftDelete"]
             backups == IF t.backups[id] = NoRow THEN [t.backups EXCEPT ![id] = old] ELSE t.backups
             final   == [SaveBackup(q, id, old) EXCEPT !.rows[id].state = "DraftDelete"]
  <2>1. table' = UpdateModels(final, {id})
    BY <1>2, <1>4 DEF DraftDeleteRow, DraftDeleted
  <2>2. row \in Row /\ row.state = "DraftDelete" /\ row.state \in DraftStates /\ row # NoRow
    <3>1. row \in Row /\ row.state = "DraftDelete" /\ row.state \in DraftStates
      BY <1>1 DEF Row, LoadStates, DraftStates
    <3>. QED  BY <3>1, NoRowFacts
  <2>. HIDE DEF q
  <2>3. final = [q EXCEPT !.rows = [t.rows EXCEPT ![id] = row], !.backups = backups]
    BY <1>2 DEF SaveBackup, TableType
  <2>4. backups \in [Ids -> Row \cup {NoRow}] /\ \A i \in Ids \ {id} : backups[i] = t.backups[i]
    BY <1>1 DEF TableType
  <2>. HIDE DEF backups, row, final
  <2>5. /\ final \in TableType /\ final.rows = [t.rows EXCEPT ![id] = row]
        /\ final.backups = backups /\ final.added = t.added /\ final.pendingEdits = t.pendingEdits
        /\ final.open = t.open /\ final.shown = t.shown
    BY <1>2, <2>2, <2>3, <2>4 DEF TableType
  <2>6. /\ Settles(final, table') /\ table'.rows = [t.rows EXCEPT ![id] = row]
        /\ table'.added = t.added /\ table'.backups = backups
        /\ table'.shown = [m \in Models |-> IF m \in t.open THEN t.shown[m] \cup {id} ELSE t.shown[m]]
    BY <2>1, <2>5, UpdateModelsSettles
  <2>7. /\ table'.rows[id] = row /\ \A i \in Ids \ {id} : table'.rows[i] = t.rows[i]
        /\ table'.open = t.open /\ t.open \subseteq Models /\ ~table'.pendingEdits
    BY <1>1, <2>5, <2>6 DEF Settles, TakesEdits, TableType
  <2>8. Drafting(t, table', id)
    <3>1. row.state # "DraftAdd"
      BY <2>2
    <3>. QED  BY <1>1, <2>2, <2>4, <2>6, <2>7, <3>1 DEF Drafting
  <2>9. ASSUME ViewsTold(t, {}, 0)  PROVE ViewsTold(table', {}, 0)
    <3>1. \A m \in t.open : table'.shown[m] = t.shown[m] \cup {id}
      BY <2>6, <2>7
    <3>2. {id} \in SUBSET Ids /\ \A i \in {id} : table'.rows[i] # NoRow
      BY <2>2, <2>7
    <3>. QED  BY <1>1, <2>7, <2>9, <3>1, <3>2, ViewsOfTold
  <2>. QED  BY <1>1, <2>8, <2>9 DEF DraftingStep
<1>. QED  BY <1>3, <1>4

(***************************************************************************)
(* Submission: a row that has a backup shows as pending, with the content  *)
(* it had, and the table is locked if there is any.                        *)
(***************************************************************************)
Submits(t, u) ==
    /\ u.backups = t.backups /\ u.added = t.added
    /\ u.pendingEdits = (t.pendingEdits \/ Backups(t) # {})
    /\ \A i \in Ids : \/ u.rows[i] = t.rows[i]
                      \/ /\ t.backups[i] # NoRow
                         /\ u.rows[i].content = t.rows[i].content
                         /\ u.rows[i].state = PendingOf(t.rows[i].state)

SubmissionStep ==
    /\ Submits(table, table')
    /\ busy = Idle /\ busy' = busy
    /\ ViewsTold(table, {}, 0) => ViewsTold(table', {}, 0)

LEMMA MarkEditsPendingSubmits ==
  ASSUME IInv, MarkEditsPending
  PROVE  SubmissionStep
<1> DEFINE edited == Backups(table) \cap Present(table)
           rows   == [i \in Ids |->
                        IF i \in edited
                        THEN [table.rows[i] EXCEPT !.state = PendingOf(table.rows[i].state)]
                        ELSE table.rows[i]]
           lock   == table.pendingEdits \/ Backups(table) # {}
           marked == [Quiet(table) EXCEPT !.rows = rows, !.pendingEdits = lock]
<1>1. table' = UpdateModels(marked, edited) /\ edited \in SUBSET Ids
  BY QuietTable DEF MarkEditsPending, MarkedPending, Present
<1>2. ASSUME NEW i \in edited
      PROVE  /\ rows[i] \in Row /\ rows[i].content = table.rows[i].content
             /\ rows[i].state = PendingOf(table.rows[i].state) /\ table.backups[i] # NoRow
  <2>1. table.rows[i] \in Row /\ table.backups[i] # NoRow /\ i \in Ids
    BY <1>2, QuietTable DEF TableType, Present, Backups
  <2>2. PendingOf(table.rows[i].state) \in LoadStates
    BY <2>1 DEF PendingOf, Row, LoadStates, DraftStates, PendingStates
  <2>. QED  BY <1>2, <2>1, <2>2 DEF Row
<1>3. \A i \in Ids \ edited : rows[i] = table.rows[i]
  OBVIOUS
<1>4. rows \in [Ids -> Row \cup {NoRow}]
  <2>1. \A i \in Ids : rows[i] \in Row \cup {NoRow}
    <3>. HIDE DEF rows, edited
    <3>. QED  BY <1>2, <1>3, QuietTable DEF TableType
  <2>. QED  BY <2>1
<1>5. lock \in BOOLEAN
  BY QuietTable DEF TableType
<1>. HIDE DEF rows, edited, lock
<1>6. /\ marked \in TableType /\ marked.rows = rows /\ marked.backups = table.backups
      /\ marked.added = table.added /\ marked.pendingEdits = lock
      /\ marked.open = table.open /\ marked.shown = table.shown
  BY <1>4, <1>5, QuietTable DEF TableType
<1>. HIDE DEF marked
<1>7. /\ Settles(marked, table') /\ table'.rows = rows /\ table'.added = table.added
      /\ table'.backups = table.backups
      /\ table'.shown = [m \in Models |-> IF m \in table.open THEN table.shown[m] \cup edited
                                                              ELSE table.shown[m]]
  BY <1>1, <1>6, UpdateModelsSettles
<1>8. table'.open = table.open /\ table.open \subseteq Models
  BY <1>6, <1>7, QuietTable DEF Settles, TableType
<1>9. table'.pendingEdits = lock
  <2>1. UpdateModels(marked, edited).pendingEdits = marked.pendingEdits
    BY <1>6 DEF UpdateModels, TableType
  <2>. QED  BY <1>1, <1>6, <2>1
<1>10. Submits(table, table')
  BY <1>2, <1>3, <1>7, <1>9 DEF Submits, lock
<1>11. ASSUME ViewsTold(table, {}, 0)  PROVE ViewsTold(table', {}, 0)
  <2>1. \A m \in table.open : table'.shown[m] = table.shown[m] \cup edited
    BY <1>7, <1>8
  <2>2. /\ \A i \in edited : table'.rows[i] # NoRow
        /\ \A i \in Ids \ edited : table'.rows[i] = table.rows[i]
    BY <1>2, <1>3, <1>7, NoRowFacts
  <2>. QED  BY <1>1, <1>8, <1>11, <2>1, <2>2, QuietTable, ViewsOfTold
<1>. QED  BY <1>10, <1>11 DEF SubmissionStep, MarkEditsPending, Ready, LocalStep

(***************************************************************************)
(* One turn of the loop of resetEdits, at the backup of row `id`: the row  *)
(* is put back, or is gone with its backup and the views have been told.   *)
(* The backup dropped by mistake is one of those still to come.            *)
(***************************************************************************)
UndoesOne(t, u, id) ==
    /\ u \in TableType /\ u.open = t.open /\ u.added = t.added
    /\ \A i \in Ids \ {id} : u.rows[i] = t.rows[i]
    /\ u.rows[id].state \notin PendingStates
    /\ \A i \in Ids : u.backups[i] \in {t.backups[i], NoRow}
    /\ \A i \in Ids : i < id => u.backups[i] = t.backups[i]
    /\ \/ u.pendingEdits = t.pendingEdits
       \/ ~u.pendingEdits /\ \A i \in Ids : u.backups[i] = NoRow
    /\ \/ /\ u.rows[id] = NoRow /\ u.backups[id] = NoRow
          /\ \/ t.rows[id] = NoRow /\ u.shown = t.shown
             \/ \A m \in t.open : u.shown[m] = t.shown[m] \ {id}
       \/ /\ u.rows[id] # NoRow /\ u.backups[id] = t.backups[id] /\ u.shown = t.shown
          /\ t.rows[id] # NoRow
          /\ t.rows[id].state \in {"Loading", "Stale"} => u.rows[id].content = t.rows[id].content

UndoingStep(id) ==
    /\ UndoesOne(table, table', id)
    /\ busy.handler = "resetEdits" /\ busy'.after = id
    /\ busy.after \in Nat /\ id > busy.after /\ table.backups[id] # NoRow
    /\ \A i \in Ids : i < id => i <= busy.after \/ table.backups[i] = NoRow

LEMMA DropBackupUndoes ==
  ASSUME NEW t \in TableType, NEW u \in TableType, NEW id \in Ids, NEW victim \in Ids,
         UndoesOne(t, u, id), victim >= id, u.rows[id] = NoRow
  PROVE  UndoesOne(t, [u EXCEPT !.backups[victim] = NoRow], id)
<1> DEFINE left == [u.backups EXCEPT ![victim] = NoRow]
           w    == [u EXCEPT !.backups[victim] = NoRow]
<1>1. /\ left \in [Ids -> Row \cup {NoRow}]
      /\ \A i \in Ids : left[i] = IF i = victim THEN NoRow ELSE u.backups[i]
  BY DEF TableType
<1>2. w = [u EXCEPT !.backups = left]
  BY DEF TableType
<1>. HIDE DEF left, w
<1>3. /\ w \in TableType /\ w.open = u.open /\ w.added = u.added /\ w.rows = u.rows
      /\ w.shown = u.shown /\ w.backups = left /\ w.pendingEdits = u.pendingEdits
  BY <1>1, <1>2 DEF TableType
<1>4. \A i \in Ids : i < id => i # victim
  BY IdsPositive
<1>5. UndoesOne(t, w, id)
  BY <1>1, <1>3, <1>4 DEF UndoesOne
<1>. QED  BY <1>5 DEF w

LEMMA RevertRowUndoes ==
  ASSUME NEW t \in TableType, NEW id \in Ids, t.rows[id] # NoRow, t.backups[id] # NoRow,
         t.backups[id].state \notin PendingStates
  PROVE  UndoesOne(t, RevertRow(t, id), id)
<1> DEFINE bak  == t.backups[id]
           used == IF t.rows[id].state \in {"DraftEdit", "PendingEdit"}
                   THEN bak.content ELSE t.rows[id].content
           row  == [state |-> bak.state, content |-> used]
           u    == RevertRow(t, id)
<1>1. /\ row \in Row /\ row.state \notin PendingStates /\ row.content = used /\ row # NoRow
  <2>1. row \in Row /\ row.state \notin PendingStates /\ row.content = used
    BY DEF TableType, Row
  <2>. QED  BY <2>1, NoRowFacts
<1>2. used = t.rows[id].content \/ t.rows[id].state \notin {"Loading", "Stale"}
  OBVIOUS
<1>3. u = [t EXCEPT !.rows = [t.rows EXCEPT ![id] = row]]
  <2>1. [t.rows EXCEPT ![id] = row] =
          [t.rows EXCEPT ![id] = [[@ EXCEPT !.state = bak.state] EXCEPT !.content = used]]
    BY DEF TableType, Row
  <2>. QED  BY <2>1 DEF RevertRow, TableType, Row
<1>. HIDE DEF u, row, used
<1>4. /\ u \in TableType /\ u.rows = [t.rows EXCEPT ![id] = row] /\ u.open = t.open
      /\ u.added = t.added /\ u.backups = t.backups /\ u.pendingEdits = t.pendingEdits
      /\ u.shown = t.shown
  BY <1>1, <1>3 DEF TableType
<1>5. u.rows[id] = row /\ \A i \in Ids \ {id} : u.rows[i] = t.rows[i]
  BY <1>4 DEF TableType
<1>6. UndoesOne(t, u, id)
  BY <1>1, <1>2, <1>4, <1>5 DEF UndoesOne
<1>. QED  BY <1>6 DEF u

LEMMA ResetNextEditUndoes ==
  ASSUME IInv, ResetNextEdit
  PROVE  \E id \in Ids : UndoingStep(id)
<1> DEFINE after == busy.after
           id    == Min(BackupsAfter(table, after))
           gone  == DeleteRow(table, id)
<1>1. table \in TableType
  BY QuietTable
<1>2. /\ after \in Nat /\ id \in Ids /\ id > after /\ table.backups[id] # NoRow
      /\ \A i \in Ids : i < id => i <= after \/ table.backups[i] = NoRow
      /\ \A i \in Ids : table.backups[i].state \notin PendingStates
  <2>1. Consistent(table, after) /\ after \in Nat
    BY ResetUnderWay
  <2>2. BackupsAfter(table, after) \in SUBSET Nat /\ BackupsAfter(table, after) # {}
    BY IdsPositive DEF BackupsAfter, Backups, ResetNextEdit
  <2>3. id \in BackupsAfter(table, after) /\ \A i \in BackupsAfter(table, after) : id <= i
    BY <2>2, LeastOfNat
  <2>. HIDE DEF id, after
  <2>4. ASSUME NEW i \in Ids, i < id  PROVE i <= after \/ table.backups[i] = NoRow
    BY <2>1, <2>3, <2>4, IdsPositive DEF BackupsAfter, Backups
  <2>. QED  BY <2>1, <2>3, <2>4 DEF BackupsAfter, Backups, Consistent
<1>3. busy.handler = "resetEdits" /\ busy'.after = id
  BY DEF ResetNextEdit, IInv, TypeOK
<1>4. CASE table.rows[id] = NoRow
  <2>1. table' = RemoveAtIndex(table, id)
    BY <1>4, NoRowFacts DEF ResetNextEdit, ResetOne
  <2>. HIDE DEF id, after
  <2> DEFINE left == [table.backups EXCEPT ![id] = NoRow]
  <2>2. table' = [table EXCEPT !.backups = left]
    BY <1>1, <1>2, <2>1 DEF RemoveAtIndex, TableType
  <2>3. /\ left \in [Ids -> Row \cup {NoRow}] /\ left[id] = NoRow
        /\ \A i \in Ids : i # id => left[i] = table.backups[i]
    BY <1>1, <1>2 DEF TableType
  <2>. HIDE DEF left
  <2>4. /\ table' \in TableType /\ table'.open = table.open /\ table'.added = table.added
        /\ table'.rows = table.rows /\ table'.shown = table.shown /\ table'.backups = left
        /\ table'.pendingEdits = table.pendingEdits
    BY <1>1, <2>2, <2>3 DEF TableType
  <2>5. \A i \in Ids : i < id => i # id
    BY <1>2, IdsPositive
  <2>6. UndoesOne(table, table', id)
    BY <1>4, <2>3, <2>4, <2>5, NoRowFacts DEF UndoesOne
  <2>. QED  BY <1>2, <1>3, <2>6 DEF UndoingStep, after
<1>5. CASE table.rows[id].state \in {"DraftAdd", "PendingAdd"}
  <2>1. \/ table' = gone /\ gone.backups[id] = NoRow
        \/ ~IndexOutOfRange(gone, id) /\ table' = RemoveAtIndex(gone, id)
    BY <1>5, NoRowFacts DEF ResetNextEdit, ResetOne, RunsOut, IndexOutOfRange
  <2>. HIDE DEF id, after
  <2>2. /\ Settles(table, gone) /\ gone.rows = [table.rows EXCEPT ![id] = NoRow]
        /\ gone.added = table.added
        /\ gone.shown = [m \in Models |-> table.shown[m] \ {id}]
        /\ \A i \in Ids : i # id => gone.backups[i] = table.backups[i]
    BY <1>1, <1>2, DeleteRowSettles
  <2>. HIDE DEF gone
  <2>3. /\ gone.rows[id] = NoRow /\ \A i \in Ids \ {id} : gone.rows[i] = table.rows[i]
        /\ \A m \in table.open : gone.shown[m] = table.shown[m] \ {id}
        /\ gone.open = table.open /\ gone \in TableType
        /\ \A i \in Ids : i < id => i # id
    BY <1>1, <1>2, <2>2, IdsPositive DEF TableType, Settles
  <2>4. CASE gone.backups[id] = NoRow
    <3>1. UndoesOne(table, gone, id)
      BY <2>2, <2>3, <2>4, NoRowFacts DEF UndoesOne, Settles, TakesEdits
    <3>2. CASE table' = gone
      BY <1>2, <1>3, <3>1, <3>2 DEF UndoingStep, after
    <3>3. CASE ~IndexOutOfRange(gone, id) /\ table' = RemoveAtIndex(gone, id)
      <4> DEFINE next == Min(BackupsAfter(gone, id))
      <4>1. next \in Ids /\ next >= id
        <5>1. BackupsAfter(gone, id) \in SUBSET Nat /\ BackupsAfter(gone, id) # {}
          BY <2>4, <3>3, IdsPositive DEF BackupsAfter, Backups, IndexOutOfRange
        <5>2. next \in BackupsAfter(gone, id)
          BY <5>1, LeastOfNat
        <5>. HIDE DEF next
        <5>3. next \in Ids /\ next > id
          BY <5>2 DEF BackupsAfter, Backups
        <5>4. next \in Nat /\ id \in Nat
          BY <1>2, <5>3, IdsPositive
        <5>. QED  BY <5>3, <5>4
      <4>2. table' = [gone EXCEPT !.backups[next] = NoRow]
        BY <2>4, <3>3 DEF RemoveAtIndex
      <4>. HIDE DEF next
      <4>3. UndoesOne(table, table', id)
        BY <1>1, <1>2, <2>3, <3>1, <4>1, <4>2, DropBackupUndoes
      <4>. QED  BY <1>2, <1>3, <4>3 DEF UndoingStep, after
    <3>. QED  BY <2>1, <3>2, <3>3
  <2>5. CASE gone.backups[id] # NoRow
    <3> DEFINE left == [gone.backups EXCEPT ![id] = NoRow]
    <3>1. table' = [gone EXCEPT !.backups = left]
      BY <2>1, <2>3, <2>5 DEF RemoveAtIndex, TableType
    <3>2. /\ left \in [Ids -> Row \cup {NoRow}] /\ left[id] = NoRow
          /\ \A i \in Ids : i # id => left[i] = table.backups[i]
      BY <1>2, <2>2, <2>3 DEF TableType
    <3>. HIDE DEF left
    <3>3. /\ table' \in TableType /\ table'.open = table.open /\ table'.added = table.added
          /\ table'.rows = gone.rows /\ table'.shown = gone.shown /\ table'.backups = left
          /\ table'.pendingEdits = gone.pendingEdits
      BY <2>2, <2>3, <3>1, <3>2 DEF TableType
    <3>4. gone.pendingEdits = table.pendingEdits
      BY <1>2, <2>2, <2>5 DEF Settles, TakesEdits
    <3>5. UndoesOne(table, table', id)
      BY <2>3, <3>2, <3>3, <3>4, NoRowFacts DEF UndoesOne
    <3>. QED  BY <1>2, <1>3, <3>5 DEF UndoingStep, after
  <2>. QED  BY <2>4, <2>5
<1>6. CASE table.rows[id] # NoRow /\ table.rows[id].state \notin {"DraftAdd", "PendingAdd"}
  <2>1. table' = RevertRow(table, id)
    BY <1>6 DEF ResetNextEdit, ResetOne
  <2>. HIDE DEF id, after
  <2>2. UndoesOne(table, table', id)
    BY <1>1, <1>2, <1>6, <2>1, RevertRowUndoes
  <2>. QED  BY <1>2, <1>3, <2>2 DEF UndoingStep, after
<1>. QED  BY <1>4, <1>5, <1>6

\* resetEdits ends by telling the views of the rows that were backed up, and forgets the
\* additions and the backups.
DroppingStep ==
    /\ busy.handler = "resetEdits" /\ busy'.after = 0
    /\ table'.rows = table.rows /\ table'.pendingEdits = table.pendingEdits
    /\ \A i \in Ids : table'.backups[i] = NoRow /\ table.rows[i].state \notin PendingStates
    /\ ViewsTold(table, {}, busy.after) => ViewsTold(table', {}, 0)

LEMMA ResetEndsDrops ==
  ASSUME IInv, ResetEnds
  PROVE  DroppingStep
<1> DEFINE after == busy.after
           told  == UpdateModels(table, Backups(table))
           clear == [i \in Ids |-> NoRow]
<1>1. /\ Settles(table, told) /\ told.rows = table.rows
      /\ told.shown = [m \in Models |-> IF m \in table.open THEN table.shown[m] \cup Backups(table)
                                                            ELSE table.shown[m]]
  BY QuietTable, UpdateModelsSettles DEF Backups
<1>2. table' = [told EXCEPT !.backups = clear, !.added = {}]
  BY DEF ResetEnds, EditsDropped
<1>3. told.pendingEdits = table.pendingEdits
  BY QuietTable DEF UpdateModels, TableType
<1>. HIDE DEF told
<1>4. /\ table'.rows = table.rows /\ table'.pendingEdits = table.pendingEdits
      /\ table'.open = table.open /\ table.open \subseteq Models
      /\ \A i \in Ids : table'.backups[i] = NoRow
      /\ \A m \in table.open : table'.shown[m] = table.shown[m] \cup Backups(table)
  BY <1>1, <1>2, <1>3, QuietTable DEF Settles, TableType
<1>5. \A i \in Ids : i <= after \/ table.backups[i] = NoRow
  <2>1. \A i \in Ids : i > after => table.backups[i] = NoRow
    BY DEF ResetEnds, BackupsAfter, Backups
  <2>2. \A i \in Ids : i > after \/ i <= after
    BY ResetUnderWay, IdsPositive
  <2>. QED  BY <2>1, <2>2
<1>6. \A i \in Ids : table.rows[i].state \notin PendingStates
  BY <1>5, ResetUnderWay DEF Consistent
<1>7. ASSUME ViewsTold(table, {}, after)  PROVE ViewsTold(table', {}, 0)
  <2>1. Backups(table) \subseteq Present(table) /\ Present(table') = Present(table)
    BY <1>4, <1>5, <1>7 DEF ViewsTold, Backups, Present
  <2>2. ASSUME NEW m \in table.open, NEW i \in Present(table) \ table'.shown[m]
        PROVE  Hidden(table', i, 0)
    <3>1. i \in Present(table) \ table.shown[m] /\ i \in Ids /\ table.backups[i] = NoRow
      BY <1>4, <2>2 DEF Present, Backups
    <3>2. Hidden(table, i, after)
      BY <1>7, <3>1 DEF ViewsTold
    <3>. QED  BY <1>4, <3>1, <3>2 DEF Hidden
  <2>3. \A m \in table.open : table'.shown[m] \subseteq Present(table')
    BY <1>4, <1>7, <2>1 DEF ViewsTold
  <2>4. \A m \in table'.open : Present(table') \ (table'.shown[m] \cup {})
                                 = Present(table) \ table'.shown[m]
    BY <2>1
  <2>. QED  BY <1>4, <2>2, <2>3, <2>4, IdsPositive DEF ViewsTold
<1>8. busy.handler = "resetEdits" /\ busy'.after = 0
  BY DEF ResetEnds, Idle
<1>. QED  BY <1>4, <1>6, <1>7, <1>8 DEF DroppingStep

(***************************************************************************)
(* Every step is of one of these kinds.                                    *)
(***************************************************************************)
RestingStep == SettlingStep /\ busy.handler # "resetEdits" /\ busy'.after = 0

LEMMA StepKinds ==
  ASSUME IInv, [Next]_vars
  PROVE  \/ RestingStep
         \/ \E id \in Ids : DraftingStep(id)
         \/ SubmissionStep
         \/ \E id \in Ids : UndoingStep(id)
         \/ DroppingStep
         \/ UNCHANGED <<table, busy>>
<1>1. CASE UserStep
  <2>1. ASSUME NEW id \in Ids, NEW c \in Drafts, DraftEditRow(id, c) \/ DraftAddRow(id, c)
        PROVE  DraftingStep(id)
    BY <2>1, DraftEditRowDrafts, DraftAddRowDrafts
  <2>2. ASSUME NEW id \in Ids, DraftDeleteRow(id)  PROVE DraftingStep(id)
    BY <2>2, DraftDeleteRowDrafts
  <2>3. ASSUME NEW m \in Models, AllRows(m) \/ ModelDestroyed(m)  PROVE RestingStep
    <3>1. SettlingStep
      BY <2>3, AllRowsSettles, ModelDestroyedSettles
    <3>2. busy = Idle /\ busy' = busy
      BY <2>3 DEF AllRows, ModelDestroyed, Ready, LocalStep
    <3>. QED  BY <3>1, <3>2 DEF RestingStep, Idle
  <2>4. ASSUME ResetEdits  PROVE RestingStep
    <3>1. SettlingStep
      BY <2>4, ResetEditsSettles DEF ResetEdits
    <3>. QED  BY <2>4, <3>1 DEF RestingStep, ResetEdits, Ready, Idle
  <2>. QED  BY <1>1, <2>1, <2>2, <2>3, <2>4, MarkEditsPendingSubmits DEF UserStep
<1>2. CASE HandlerStep
  <2>1. ASSUME PlaceNextRow  PROVE RestingStep
    <3>1. SettlingStep
      BY <2>1, PlaceNextRowSettles
    <3>2. busy.handler # "resetEdits" /\ busy.after = 0
      BY <2>1 DEF PlaceNextRow, IInv
    <3>3. busy'.after = 0
      BY <2>1, <3>2 DEF PlaceNextRow, Idle, IInv, TypeOK
    <3>. QED  BY <3>1, <3>2, <3>3 DEF RestingStep
  <2>. QED  BY <1>2, <2>1, ResetNextEditUndoes, ResetEndsDrops DEF HandlerStep
<1>3. CASE NetworkStep
  <2>1. ASSUME NEW s \in Slots, RequestFails(s) \/ BackendAnswers(s)
        PROVE  UNCHANGED <<table, busy>>
    BY <2>1 DEF RequestFails, BackendAnswers
  <2>2. ASSUME NEW s \in Slots, ReplyArrives(s)  PROVE RestingStep
    <3>1. SettlingStep
      BY <2>2, ReplyArrivesSettles
    <3>2. \/ UNCHANGED busy
          \/ busy' = [Idle EXCEPT !.handler = "processRowsResponse", !.todo = requests[s].page]
      BY <2>2 DEF ReplyArrives
    <3>3. busy = Idle
      BY <2>2 DEF ReplyArrives, Ready
    <3>4. ASSUME NEW todo
          PROVE  [Idle EXCEPT !.handler = "processRowsResponse", !.todo = todo].after = 0
      BY DEF Idle
    <3>5. Idle.handler # "resetEdits" /\ Idle.after = 0
      BY DEF Idle
    <3>6. busy'.after = 0
      BY <3>2, <3>3, <3>4, <3>5
    <3>. QED  BY <3>1, <3>3, <3>5, <3>6 DEF RestingStep
  <2>3. ASSUME ProcessJournalEntry  PROVE RestingStep
    <3>1. SettlingStep
      BY <2>3, ProcessJournalEntrySettles
    <3>2. busy = Idle /\ busy' = busy
      BY <2>3 DEF ProcessJournalEntry, Ready
    <3>. QED  BY <3>1, <3>2 DEF RestingStep, Idle
  <2>4. ASSUME JournalBreaks \/ UpdateScope \/ \E id \in Ids : LoadingExpires(id)
        PROVE  UNCHANGED <<table, busy>>
    BY <2>4 DEF JournalBreaks, UpdateScope, LoadingExpires
  <2>. QED  BY <1>3, <2>1, <2>2, <2>3, <2>4 DEF NetworkStep
<1>4. CASE BackendStep
  BY <1>4 DEF BackendStep, BackendChange
<1>5. CASE UNCHANGED vars
  BY <1>5 DEF vars
<1>. QED  BY <1>1, <1>2, <1>3, <1>4, <1>5 DEF Next, Dead

(***************************************************************************)
(* The additions.  Every row that was added and submitted is in the list   *)
(* of added rows with what it shows.  For that to be so when drafts are    *)
(* submitted, drafted additions have to be in the list before.             *)
(***************************************************************************)
AdditionsNoted(t, after) ==
    \A i \in Ids :
        \/ t.rows[i].state = "PendingAdd"
        \/ t.rows[i].state = "DraftAdd" /\ t.backups[i] # NoRow /\ i > after
        => [id |-> i, content |-> t.rows[i].content] \in t.added

LEMMA NextAdditionsNoted ==
  ASSUME IInv, [Next]_vars, IInv', AdditionsNoted(table, busy.after)
  PROVE  AdditionsNoted(table', busy'.after)
<1>1. \A i \in Ids : i > 0
  BY IdsPositive
<1>2. CASE RestingStep
  <2>1. SUFFICES ASSUME NEW i \in Ids,
                        \/ table'.rows[i].state = "PendingAdd"
                        \/ table'.rows[i].state = "DraftAdd" /\ table'.backups[i] # NoRow
                 PROVE  [id |-> i, content |-> table'.rows[i].content] \in table'.added
    BY <1>2 DEF AdditionsNoted
  <2>2. TakesEdits(table, table') /\ busy.after = 0
    BY <1>2 DEF RestingStep, SettlingStep, IInv
  <2>3. table'.rows[i].state \in AddedStates
    BY <2>1 DEF AddedStates
  <2>4. table'.rows[i] = table.rows[i]
    BY <2>2, <2>3, StateFacts DEF TakesEdits
  <2>5. table'.backups[i] # NoRow => table.backups[i] # NoRow
    BY <2>2 DEF TakesEdits
  <2>6. [id |-> i, content |-> table.rows[i].content] \in table.added
    BY <1>1, <2>1, <2>2, <2>4, <2>5 DEF AdditionsNoted
  <2>. QED  BY <2>2, <2>3, <2>4, <2>6 DEF TakesEdits
<1>3. ASSUME NEW id \in Ids, DraftingStep(id)
      PROVE  AdditionsNoted(table', busy'.after)
  <2>1. busy.after = 0 /\ busy'.after = 0 /\ Drafting(table, table', id)
    BY <1>3 DEF DraftingStep, Idle
  <2>2. SUFFICES ASSUME NEW i \in Ids,
                        \/ table'.rows[i].state = "PendingAdd"
                        \/ table'.rows[i].state = "DraftAdd" /\ table'.backups[i] # NoRow
                 PROVE  [id |-> i, content |-> table'.rows[i].content] \in table'.added
    BY <2>1 DEF AdditionsNoted
  <2>3. table'.rows[i].state = "DraftAdd" /\ table'.backups[i] # NoRow
    BY <2>1, <2>2 DEF Drafting, IInv, Consistent, PendingStates
  <2>4. CASE i = id
    BY <1>1, <2>1, <2>3, <2>4 DEF Drafting, AdditionsNoted
  <2>5. CASE i # id
    BY <1>1, <2>1, <2>3, <2>5 DEF Drafting, AdditionsNoted
  <2>. QED  BY <2>4, <2>5
<1>4. CASE SubmissionStep
  <2>1. busy.after = 0 /\ busy'.after = 0 /\ Submits(table, table')
    BY <1>4 DEF SubmissionStep, Idle
  <2>2. SUFFICES ASSUME NEW i \in Ids,
                        \/ table'.rows[i].state = "PendingAdd"
                        \/ table'.rows[i].state = "DraftAdd" /\ table'.backups[i] # NoRow
                 PROVE  [id |-> i, content |-> table'.rows[i].content] \in table'.added
    BY <2>1 DEF AdditionsNoted
  <2>3. \A state : PendingOf(state) \in AddedStates => state \in AddedStates
    BY DEF PendingOf, AddedStates
  <2>. QED  BY <1>1, <2>1, <2>2, <2>3 DEF Submits, AdditionsNoted, AddedStates
<1>5. ASSUME NEW id \in Ids, UndoingStep(id)
      PROVE  AdditionsNoted(table', busy'.after)
  <2>1. /\ busy'.after = id /\ busy.after \in Nat /\ id > busy.after /\ id \in Nat
        /\ UndoesOne(table, table', id)
    BY <1>5, IdsPositive DEF UndoingStep
  <2>2. SUFFICES ASSUME NEW i \in Ids,
                        \/ table'.rows[i].state = "PendingAdd"
                        \/ table'.rows[i].state = "DraftAdd" /\ table'.backups[i] # NoRow /\ i > id
                 PROVE  [id |-> i, content |-> table'.rows[i].content] \in table'.added
    BY <2>1 DEF AdditionsNoted
  <2>3. i # id
    BY <2>1, <2>2 DEF UndoesOne, PendingStates
  <2>4. i > id => i > busy.after
    BY <2>1, IdsPositive
  <2>. QED  BY <2>1, <2>2, <2>3, <2>4 DEF UndoesOne, AdditionsNoted
<1>6. CASE DroppingStep
  BY <1>6 DEF DroppingStep, AdditionsNoted, PendingStates
<1>7. CASE UNCHANGED <<table, busy>>
  BY <1>7 DEF AdditionsNoted
<1>. QED  BY <1>2, <1>3, <1>4, <1>5, <1>6, <1>7, StepKinds

LEMMA NextViewsTold ==
  ASSUME IInv, [Next]_vars, ViewsTold(table, {}, busy.after)
  PROVE  ViewsTold(table', {}, busy'.after)
<1>1. ASSUME NEW id \in Ids, UndoingStep(id)
      PROVE  ViewsTold(table', {}, busy'.after)
  <2> DEFINE after == busy.after
  <2>1. /\ busy'.after = id /\ after \in Nat /\ id > after /\ id \in Nat
        /\ UndoesOne(table, table', id)
        /\ \A i \in Ids : i < id => i <= after \/ table.backups[i] = NoRow
    BY <1>1, IdsPositive DEF UndoingStep
  <2>2. \A i \in Ids : /\ i <= id => i = id \/ i < id
                       /\ i <= after => i < id /\ i <= id
                       /\ id <= id /\ ~(id <= after)
    BY <2>1, IdsPositive
  <2>3. ASSUME NEW i \in Ids, table'.backups[i] # NoRow, i <= id
        PROVE  table'.rows[i] # NoRow
    <3>1. CASE i = id
      BY <2>1, <2>3, <3>1 DEF UndoesOne
    <3>2. CASE i # id
      <4>1. table.backups[i] # NoRow /\ i <= after
        BY <2>1, <2>2, <2>3, <3>2 DEF UndoesOne
      <4>. QED  BY <2>1, <3>2, <4>1 DEF UndoesOne, ViewsTold
    <3>. QED  BY <3>1, <3>2
  <2>4. ASSUME NEW i \in Ids \ {id}, Hidden(table, i, after)
        PROVE  Hidden(table', i, id)
    BY <2>1, <2>2, <2>4 DEF Hidden, UndoesOne
  <2>5. ASSUME NEW m \in table'.open
        PROVE  /\ table'.shown[m] \subseteq Present(table')
               /\ \A i \in Present(table') \ table'.shown[m] : Hidden(table', i, id)
    <3>0. /\ m \in table.open /\ table.shown[m] \subseteq Present(table)
          /\ \A i \in Present(table) \ table.shown[m] : Hidden(table, i, after)
      BY <2>1, <2>5 DEF UndoesOne, ViewsTold
    <3>1. CASE table'.rows[id] = NoRow
      <4>1. Present(table') = Present(table) \ {id}
        BY <2>1, <3>1 DEF UndoesOne, Present
      <4>3. \/ table'.shown[m] = table.shown[m] \ {id}
            \/ table'.shown[m] = table.shown[m] /\ id \notin Present(table)
        BY <2>1, <3>0, <3>1 DEF UndoesOne, Present
      <4>4. table'.shown[m] = table.shown[m] \ {id}
        BY <3>0, <4>3
      <4>2. \A i \in Present(table') \ table'.shown[m] :
              i \in Present(table) \ table.shown[m] /\ i \in Ids \ {id}
        BY <4>1, <4>4 DEF Present
      <4>. QED  BY <2>4, <3>0, <4>1, <4>2, <4>4
    <3>2. CASE table'.rows[id] # NoRow
      <4>1. Present(table') = Present(table) /\ table'.shown = table.shown
        BY <2>1, <3>2 DEF UndoesOne, Present
      <4>2. ASSUME id \in Present(table) \ table.shown[m]
            PROVE  Hidden(table', id, id)
        <5>1. Hidden(table, id, after)
          BY <3>0, <4>2
        <5>2. table.rows[id].state \in {"Loading", "Stale"} /\ table.rows[id].content = Blank
          BY <2>2, <5>1 DEF Hidden
        <5>3. table'.rows[id].content = Blank
          BY <2>1, <3>2, <5>2 DEF UndoesOne
        <5>4. table'.backups[id] # NoRow
          BY <1>1, <2>1, <3>2 DEF UndoesOne, UndoingStep
        <5>. QED  BY <2>2, <5>3, <5>4 DEF Hidden
      <4>. QED  BY <2>4, <3>0, <4>1, <4>2 DEF Present
    <3>. QED  BY <3>1, <3>2
  <2>. QED  BY <2>1, <2>3, <2>5 DEF ViewsTold
<1>2. CASE RestingStep
  BY <1>2 DEF RestingStep, SettlingStep, IInv
<1>3. ASSUME NEW id \in Ids, DraftingStep(id)
      PROVE  ViewsTold(table', {}, busy'.after)
  BY <1>3 DEF DraftingStep, Idle
<1>4. CASE SubmissionStep
  BY <1>4 DEF SubmissionStep, Idle
<1>5. CASE DroppingStep
  BY <1>5 DEF DroppingStep
<1>6. CASE UNCHANGED <<table, busy>>
  BY <1>6 DEF ViewsTold, Present, Hidden
<1>. QED  BY <1>1, <1>2, <1>3, <1>4, <1>5, <1>6, StepKinds

(***************************************************************************)
(* The inductive invariant of this module.                                 *)
(***************************************************************************)
EInv ==
    /\ IInv
    /\ AdditionsNoted(table, busy.after)
    /\ ViewsTold(table, {}, busy.after)

LEMMA InitEInv == Init => EInv
<1>. SUFFICES ASSUME Init  PROVE EInv
  OBVIOUS
<1>1. /\ \A i \in Ids : table.rows[i] = NoRow /\ table.backups[i] = NoRow
      /\ table.open = {}
  BY DEF Init, NewTable
<1>2. AdditionsNoted(table, busy.after)
  BY <1>1, NoRowFacts DEF AdditionsNoted
<1>3. ViewsTold(table, {}, busy.after)
  BY <1>1 DEF ViewsTold
<1>. QED  BY <1>2, <1>3, InitIInv DEF EInv

LEMMA NextEInv == EInv /\ [Next]_vars => EInv'
<1>. SUFFICES ASSUME EInv, [Next]_vars  PROVE EInv'
  OBVIOUS
<1>1. IInv'
  BY NextIInv DEF EInv
<1>2. AdditionsNoted(table', busy'.after)
  BY <1>1, NextAdditionsNoted DEF EInv
<1>3. ViewsTold(table', {}, busy'.after)
  BY NextViewsTold DEF EInv
<1>. QED  BY <1>1, <1>2, <1>3 DEF EInv, AdditionsNoted, ViewsTold, Hidden, Present

(***************************************************************************)
(* The theorems                                                            *)
(***************************************************************************)

\* The invariant the next two theorems follow from, and which resetEdits keeps although it
\* changes rows without telling the views, and drops backups by mistake.
THEOREM EditsInvariance == Spec => []EInv
  BY InitEInv, NextEInv, PTL DEF Spec

\* A row that was added and submitted is recognised when the backend reports it: the list of
\* added rows, kept apart from the rows, holds what the row shows.
THEOREM AdditionsCanSettle == Spec => []PendingAdditionsCanSettle
<1>1. EInv => PendingAdditionsCanSettle
  BY DEF EInv, AdditionsNoted, PendingAdditionsCanSettle
<1>. QED  BY <1>1, EditsInvariance, PTL

\* Every model shows the table's rows and no others, but for placeholders.
THEOREM ViewsShowTheRows == Spec => []ModelsShowTheRows
<1>1. EInv => ModelsShowTheRows
  BY DEF EInv, ViewsTold, ModelsShowTheRows, Hidden
<1>. QED  BY <1>1, EditsInvariance, PTL

LEMMA PendingOfFacts ==
  /\ \A state \in PendingStates : PendingOf(state) = state
  /\ \A state \in DraftStates : PendingOf(state) \in PendingStates
  /\ \A state : PendingOf(state) \notin DraftStates
  BY DEF PendingOf, DraftStates, PendingStates

\* A pending row shows what the user drafted, whatever the backend says and however the edit
\* ends.
THEOREM PendingShows == Spec => PendingShowsTheDraft
<1>1. IInv /\ IInv' /\ [Next]_vars =>
        [\A i \in Pending(table)' :
            /\ table'.rows[i].content = table.rows[i].content
            /\ table'.rows[i].state = PendingOf(table.rows[i].state)]_table
  <2>. SUFFICES ASSUME IInv, IInv', [Next]_vars, NEW i \in Ids,
                       table'.rows[i].state \in PendingStates
                PROVE  /\ table'.rows[i].content = table.rows[i].content
                       /\ table'.rows[i].state = PendingOf(table.rows[i].state)
    BY DEF Pending
  <2>1. table'.rows[i] = table.rows[i] => table'.rows[i].state = PendingOf(table.rows[i].state)
    BY PendingOfFacts
  <2>2. CASE RestingStep
    BY <2>1, <2>2 DEF RestingStep, SettlingStep, TakesEdits
  <2>3. ASSUME NEW id \in Ids, DraftingStep(id)  PROVE FALSE
    BY <2>3 DEF DraftingStep, Drafting, IInv, Consistent
  <2>4. CASE SubmissionStep
    BY <2>1, <2>4 DEF SubmissionStep, Submits
  <2>5. ASSUME NEW id \in Ids, UndoingStep(id)  PROVE table'.rows[i] = table.rows[i]
    BY <2>5 DEF UndoingStep, UndoesOne
  <2>6. CASE DroppingStep
    BY <2>6 DEF DroppingStep
  <2>. QED  BY <2>1, <2>2, <2>3, <2>4, <2>5, <2>6, StepKinds
<1>. QED  BY <1>1, Invariance, PTL DEF Spec, PendingShowsTheDraft

\* hasPendingEdits guards every drafting function: no draft appears or changes while an edit
\* is pending.
THEOREM NoDrafting == Spec => NoDraftingWhilePending
<1>1. IInv /\ [Next]_vars =>
        [Pending(table) # {} /\ busy.handler # "resetEdits" =>
            \A i \in Ids : table'.rows[i].state \in DraftStates =>
                table'.rows[i] = table.rows[i]]_table
  <2>. SUFFICES ASSUME IInv, [Next]_vars, Pending(table) # {}, busy.handler # "resetEdits",
                       NEW i \in Ids, table'.rows[i].state \in DraftStates
                PROVE  table'.rows[i] = table.rows[i]
    OBVIOUS
  <2>1. table.pendingEdits
    BY DEF Pending, IInv, Consistent
  <2>2. CASE RestingStep
    BY <2>2 DEF RestingStep, SettlingStep, TakesEdits
  <2>3. ASSUME NEW id \in Ids, DraftingStep(id)  PROVE FALSE
    BY <2>1, <2>3 DEF DraftingStep, Drafting
  <2>4. CASE SubmissionStep
    BY <2>4, PendingOfFacts DEF SubmissionStep, Submits
  <2>. QED  BY <2>2, <2>3, <2>4, StepKinds DEF UndoingStep, DroppingStep
<1>. QED  BY <1>1, Invariance, PTL DEF Spec, NoDraftingWhilePending

\* Whichever handler takes a draft away, other than resetEdits, signals that it is lost.
THEOREM LostDrafts == Spec => LostDraftsAreSignalled
<1>1. IInv /\ [Next]_vars =>
        [\A i \in Ids :
            /\ table.rows[i].state \in DraftStates
            /\ table'.rows[i].state \notin DraftStates \cup PendingStates
            /\ busy.handler # "resetEdits" /\ ~DraftDeleteRow(i)
            => [signal |-> "draftEditInvalidated", id |-> i] \in table'.emitted]_table
  <2>. SUFFICES ASSUME IInv, [Next]_vars, NEW i \in Ids, table.rows[i].state \in DraftStates,
                       table'.rows[i].state \notin DraftStates \cup PendingStates,
                       busy.handler # "resetEdits"
                PROVE  Notice(i) \in table'.emitted
    BY DEF Notice
  <2>1. table'.rows[i] # table.rows[i]
    OBVIOUS
  <2>2. CASE RestingStep
    BY <2>1, <2>2 DEF RestingStep, SettlingStep, TakesEdits
  <2>3. ASSUME NEW id \in Ids, DraftingStep(id)  PROVE Notice(i) \in table'.emitted
    BY <2>1, <2>3 DEF DraftingStep, Drafting
  <2>4. CASE SubmissionStep
    BY <2>1, <2>4, PendingOfFacts DEF SubmissionStep, Submits
  <2>. QED  BY <2>1, <2>2, <2>3, <2>4, StepKinds DEF UndoingStep, DroppingStep
<1>. QED  BY <1>1, Invariance, PTL DEF Spec, LostDraftsAreSignalled

(***************************************************************************)
(* The table implements EditTracking: drafting is Track (or Release, when  *)
(* an addition is withdrawn), submitting is Submit, and whatever else      *)
(* happens, resetEdits and its mistakes included, is Release.              *)
(***************************************************************************)
LEMMA InitTracking == Init => Tracking!Init
<1>. SUFFICES ASSUME Init  PROVE Tracking!Init
  OBVIOUS
<1>1. /\ \A i \in Ids : table.rows[i] = NoRow /\ table.backups[i] = NoRow
      /\ table.pendingEdits = FALSE
  BY DEF Init, NewTable
<1>. QED  BY <1>1, NoRowFacts DEF Tracking!Init, Backups, Pending

LEMMA NextTracking ==
  ASSUME IInv, IInv', [Next]_vars
  PROVE  [Tracking!Next]_(Tracking!vars)
<1>1. /\ Pending(table') \subseteq Backups(table')
      /\ Pending(table') # {} => table'.pendingEdits
      /\ Pending(table) # {} => table.pendingEdits
  BY DEF Pending, Backups, IInv, Consistent
<1>2. table.pendingEdits \in BOOLEAN /\ table'.pendingEdits \in BOOLEAN
  BY DEF IInv, TypeOK, TableType
<1>3. ASSUME \A i \in Ids : table'.backups[i] \in {table.backups[i], NoRow},
             \A i \in Ids : table'.rows[i].state \in PendingStates
                              => table.rows[i].state \in PendingStates,
             \/ table'.pendingEdits = table.pendingEdits
             \/ ~table'.pendingEdits /\ \A i \in Ids : table'.backups[i] = NoRow
      PROVE  Tracking!Release
  <2>1. Backups(table') \subseteq Backups(table)
    BY <1>3 DEF Backups
  <2>2. Pending(table') \subseteq Pending(table) \cap Backups(table')
    BY <1>1, <1>3 DEF Pending
  <2>3. \/ table'.pendingEdits = table.pendingEdits
        \/ table'.pendingEdits = FALSE /\ Backups(table') = {}
    BY <1>2, <1>3 DEF Backups
  <2>. QED  BY <1>2, <2>1, <2>2, <2>3 DEF Tracking!Release
<1>4. CASE RestingStep
  BY <1>3, <1>4 DEF RestingStep, SettlingStep, TakesEdits, Tracking!Next
<1>5. ASSUME NEW id \in Ids, DraftingStep(id)  PROVE Tracking!Next
  <2>1. Drafting(table, table', id)
    BY <1>5 DEF DraftingStep
  <2>2. /\ Pending(table) = {} /\ Pending(table') = {}
        /\ table.pendingEdits = FALSE /\ table'.pendingEdits = FALSE
    BY <1>1, <1>2, <2>1 DEF Drafting
  <2>3. CASE table'.backups[id] # NoRow
    <3>1. Backups(table') = Backups(table) \cup {id}
      BY <2>1, <2>3 DEF Drafting, Backups
    <3>2. Tracking!Track(id)
      BY <2>2, <3>1 DEF Tracking!Track
    <3>. QED  BY <3>2 DEF Tracking!Next
  <2>4. CASE table'.backups[id] = NoRow
    <3>1. \A i \in Ids : table'.backups[i] \in {table.backups[i], NoRow}
      BY <2>1, <2>4 DEF Drafting
    <3>. QED  BY <1>3, <2>2, <3>1 DEF Pending, Tracking!Next
  <2>. QED  BY <2>3, <2>4
<1>6. ASSUME SubmissionStep  PROVE Tracking!Submit \/ UNCHANGED Tracking!vars
  <2>1. Submits(table, table')
    BY <1>6 DEF SubmissionStep
  <2>2. Backups(table') = Backups(table)
    BY <2>1 DEF Submits, Backups
  <2>3. CASE Backups(table) = {}
    <3>1. \A i \in Ids : table'.rows[i] = table.rows[i]
      BY <2>1, <2>3 DEF Submits, Backups
    <3>2. Pending(table') = Pending(table) /\ table'.pendingEdits = table.pendingEdits
      BY <1>2, <2>1, <2>3, <3>1 DEF Submits, Pending
    <3>. QED  BY <2>2, <3>2 DEF Tracking!vars
  <2>4. CASE Backups(table) # {}
    <3>1. Pending(table) \subseteq Pending(table')
      BY <2>1, PendingOfFacts DEF Submits, Pending
    <3>2. table'.pendingEdits = TRUE
      BY <2>1, <2>4 DEF Submits
    <3>. QED  BY <1>1, <2>2, <2>4, <3>1, <3>2 DEF Tracking!Submit
  <2>. QED  BY <2>3, <2>4
<1>7. ASSUME NEW id \in Ids, UndoingStep(id)  PROVE Tracking!Next
  <2>1. \A i \in Ids : table'.rows[i].state \in PendingStates
                         => table.rows[i].state \in PendingStates
    BY <1>7 DEF UndoingStep, UndoesOne
  <2>. QED  BY <1>3, <1>7, <2>1 DEF UndoingStep, UndoesOne, Tracking!Next
<1>8. CASE DroppingStep
  BY <1>3, <1>8 DEF DroppingStep, Tracking!Next
<1>9. CASE UNCHANGED <<table, busy>>
  BY <1>9 DEF Tracking!vars, Backups, Pending
<1>. QED  BY <1>4, <1>5, <1>6, <1>7, <1>8, <1>9, StepKinds DEF Tracking!Next

\* For every interleaving: an edited row stays undoable until it is released, further rows
\* become edited only while nothing is pending, and the lock goes with the last edit.
THEOREM ImplementsTracking == Spec => KeepsTrackOfEdits
<1>1. IInv /\ IInv' /\ [Next]_vars => [Tracking!Next]_(Tracking!vars)
  BY NextTracking
<1>. QED  BY <1>1, InitTracking, Invariance, PTL DEF Spec, KeepsTrackOfEdits, Tracking!Spec

LEMMA TrackingKeepsPromise == Tracking!Spec => []Tracking!Promise
<1>1. Tracking!Init => Tracking!Promise
  BY DEF Tracking!Init, Tracking!Promise
<1>2. Tracking!Promise /\ [Tracking!Next]_(Tracking!vars) => Tracking!Promise'
  BY DEF Tracking!Promise, Tracking!Next, Tracking!Track, Tracking!Submit, Tracking!Release,
         Tracking!vars
<1>. QED  BY <1>1, <1>2, PTL DEF Tracking!Spec

\* So the table keeps what EditTracking promises: a pending edit can be undone, and locks it.
THEOREM PromiseKept == Spec => []Tracking!Promise
  BY ImplementsTracking, TrackingKeepsPromise, PTL DEF KeepsTrackOfEdits
=============================================================================
