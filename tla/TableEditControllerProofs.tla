--------------------- MODULE TableEditControllerProofs ---------------------
(***************************************************************************)
(* Theorems about TableEditController, for any groups, voters, actions and *)
(* changes of the backend.                                                 *)
(***************************************************************************)
EXTENDS TableEditController, TLAPS, FiniteSetTheorems

\* The lemmas about a table, for the groups table and for a members table.
GP == INSTANCE EditableTableProofs WITH
        BackendIds <- GroupIds, DraftIds <- DraftGroupIds, NumericIds <- TRUE,
        Contents <- Names, Models <- {}
MP == INSTANCE EditableTableProofs WITH
        BackendIds <- Voters, DraftIds <- {}, NumericIds <- FALSE,
        Contents <- Weights, Models <- {}

(***************************************************************************)
(* The operators of the instances above are those of G and M.              *)
(***************************************************************************)
LEMMA SameTables ==
  /\ G!TableType = GP!TableType /\ M!TableType = MP!TableType
  /\ G!NewTable = GP!NewTable /\ M!NewTable = MP!NewTable
  /\ G!NoRow = GP!NoRow /\ M!NoRow = MP!NoRow /\ GP!NoRow = MP!NoRow
  /\ G!Ids = GP!Ids /\ M!Ids = MP!Ids
  BY DEF G!TableType, GP!TableType, M!TableType, MP!TableType, G!Row, GP!Row, M!Row, MP!Row,
     G!NoRow, GP!NoRow, M!NoRow, MP!NoRow, G!Ids, GP!Ids, M!Ids, MP!Ids,
     G!Added, GP!Added, M!Added, MP!Added, G!Signals, GP!Signals, M!Signals, MP!Signals,
     G!LoadStates, GP!LoadStates, M!LoadStates, MP!LoadStates,
     G!DraftStates, GP!DraftStates, M!DraftStates, MP!DraftStates,
     G!PendingStates, GP!PendingStates, M!PendingStates, MP!PendingStates,
     G!NewTable, GP!NewTable, M!NewTable, MP!NewTable

LEMMA SameSets ==
  ASSUME NEW t
  PROVE  /\ G!Present(t) = GP!Present(t) /\ M!Present(t) = MP!Present(t)
         /\ G!Backups(t) = GP!Backups(t) /\ M!Backups(t) = MP!Backups(t)
         /\ G!Pending(t) = GP!Pending(t) /\ M!Pending(t) = MP!Pending(t)
         /\ G!Quiet(t) = GP!Quiet(t) /\ G!Quiet(t) = MP!Quiet(t)
  BY DEF G!Present, GP!Present, M!Present, MP!Present, G!Backups, GP!Backups, M!Backups, MP!Backups,
     G!Pending, GP!Pending, M!Pending, MP!Pending, G!Quiet, GP!Quiet, MP!Quiet,
     G!NoRow, GP!NoRow, M!NoRow, MP!NoRow, G!Ids, GP!Ids, M!Ids, MP!Ids,
     G!PendingStates, GP!PendingStates, M!PendingStates, MP!PendingStates

LEMMA SameDrafts ==
  ASSUME NEW t, NEW id, NEW content
  PROVE  /\ G!CanBeEdited(t, id) = GP!CanBeEdited(t, id)
         /\ M!CanBeEdited(t, id) = MP!CanBeEdited(t, id)
         /\ G!DraftAdded(t, id, content) = GP!DraftAdded(t, id, content)
         /\ M!DraftAdded(t, id, content) = MP!DraftAdded(t, id, content)
         /\ G!DraftEdited(t, id, content) = GP!DraftEdited(t, id, content)
         /\ M!DraftEdited(t, id, content) = MP!DraftEdited(t, id, content)
  BY DEF G!CanBeEdited, GP!CanBeEdited, M!CanBeEdited, MP!CanBeEdited,
     G!DraftAdded, GP!DraftAdded, M!DraftAdded, MP!DraftAdded,
     G!DraftEdited, GP!DraftEdited, M!DraftEdited, MP!DraftEdited,
     G!EditAddition, GP!EditAddition, M!EditAddition, MP!EditAddition,
     G!FirstOf, GP!FirstOf, M!FirstOf, MP!FirstOf,
     G!SaveBackup, GP!SaveBackup, M!SaveBackup, MP!SaveBackup,
     G!UpdateModels, GP!UpdateModels, M!UpdateModels, MP!UpdateModels,
     G!Quiet, GP!Quiet, M!Quiet, MP!Quiet, G!NoRow, GP!NoRow, M!NoRow, MP!NoRow

LEMMA SameDeletion ==
  ASSUME NEW t, NEW id
  PROVE  /\ M!DraftDeleted(t, id) = MP!DraftDeleted(t, id)
         /\ G!DeleteRow(t, id) = GP!DeleteRow(t, id)
         /\ M!DeleteRow(t, id) = MP!DeleteRow(t, id)
         /\ G!MarkedStale(t, id) = GP!MarkedStale(t, id)
         /\ M!MarkedStale(t, id) = MP!MarkedStale(t, id)
  BY DEF M!DraftDeleted, MP!DraftDeleted, G!DeleteRow, GP!DeleteRow, M!DeleteRow, MP!DeleteRow,
     G!MarkedStale, GP!MarkedStale, M!MarkedStale, MP!MarkedStale,
     G!DeleteBackupRow, GP!DeleteBackupRow, M!DeleteBackupRow, MP!DeleteBackupRow,
     G!Emit, GP!Emit, M!Emit, MP!Emit, M!SaveBackup, MP!SaveBackup,
     M!UpdateModels, MP!UpdateModels, G!Ids, GP!Ids, M!Ids, MP!Ids,
     G!Quiet, GP!Quiet, M!Quiet, MP!Quiet, G!NoRow, GP!NoRow, M!NoRow, MP!NoRow,
     G!DraftStates, GP!DraftStates, M!DraftStates, MP!DraftStates

LEMMA SamePendingInsertion ==
  ASSUME NEW t, NEW id, NEW content
  PROVE  /\ G!CheckPendingInsertion(t, id, content) = GP!CheckPendingInsertion(t, id, content)
         /\ M!CheckPendingInsertion(t, id, content) = MP!CheckPendingInsertion(t, id, content)
<1>1. G!CheckPendingInsertion(t, id, content) = GP!CheckPendingInsertion(t, id, content)
  BY DEF G!CheckPendingInsertion, GP!CheckPendingInsertion, G!MatchingAdditions,
     GP!MatchingAdditions, G!FirstOf, GP!FirstOf, G!DeleteRow, GP!DeleteRow, G!DeleteBackupRow,
     GP!DeleteBackupRow, G!Emit, GP!Emit, G!NoRow, GP!NoRow, G!Ids, GP!Ids, G!DraftStates,
     GP!DraftStates
<1>2. M!CheckPendingInsertion(t, id, content) = MP!CheckPendingInsertion(t, id, content)
  BY DEF M!CheckPendingInsertion, MP!CheckPendingInsertion, M!MatchingAdditions,
     MP!MatchingAdditions, M!FirstOf, MP!FirstOf, M!DeleteRow, MP!DeleteRow, M!DeleteBackupRow,
     MP!DeleteBackupRow, M!Emit, MP!Emit, M!NoRow, MP!NoRow, M!Ids, MP!Ids, M!DraftStates,
     MP!DraftStates
<1>. QED  BY <1>1, <1>2

LEMMA SameOverwrittenEdit ==
  ASSUME NEW t, NEW id, NEW state
  PROVE  /\ G!CheckOverwrittenEdit(t, id, state) = GP!CheckOverwrittenEdit(t, id, state)
         /\ M!CheckOverwrittenEdit(t, id, state) = MP!CheckOverwrittenEdit(t, id, state)
<1>1. G!CheckOverwrittenEdit(t, id, state) = GP!CheckOverwrittenEdit(t, id, state)
  BY DEF G!CheckOverwrittenEdit, GP!CheckOverwrittenEdit, G!FirstOf, GP!FirstOf, G!DeleteBackupRow,
     GP!DeleteBackupRow, G!Emit, GP!Emit, G!NoRow, GP!NoRow, G!Ids, GP!Ids, G!DraftStates,
     GP!DraftStates, G!PendingStates, GP!PendingStates
<1>2. M!CheckOverwrittenEdit(t, id, state) = MP!CheckOverwrittenEdit(t, id, state)
  BY DEF M!CheckOverwrittenEdit, MP!CheckOverwrittenEdit, M!FirstOf, MP!FirstOf, M!DeleteBackupRow,
     MP!DeleteBackupRow, M!Emit, MP!Emit, M!NoRow, MP!NoRow, M!Ids, MP!Ids, M!DraftStates,
     MP!DraftStates, M!PendingStates, MP!PendingStates
<1>. QED  BY <1>1, <1>2

LEMMA SamePlacing ==
  ASSUME NEW t, NEW id, NEW content
  PROVE  /\ G!PlaceRow(t, id, content) = GP!PlaceRow(t, id, content)
         /\ M!PlaceRow(t, id, content) = MP!PlaceRow(t, id, content)
<1>1. G!PlaceRow(t, id, content) = GP!PlaceRow(t, id, content)
  BY SamePendingInsertion, SameOverwrittenEdit
     DEF G!PlaceRow, GP!PlaceRow, G!UpdateModels, GP!UpdateModels
<1>2. M!PlaceRow(t, id, content) = MP!PlaceRow(t, id, content)
  BY SamePendingInsertion, SameOverwrittenEdit
     DEF M!PlaceRow, MP!PlaceRow, M!UpdateModels, MP!UpdateModels
<1>. QED  BY <1>1, <1>2

LEMMA SameSubmission ==
  ASSUME NEW t
  PROVE  /\ G!MarkedPending(t) = GP!MarkedPending(t)
         /\ M!MarkedPending(t) = MP!MarkedPending(t)
  BY DEF G!MarkedPending, GP!MarkedPending, M!MarkedPending, MP!MarkedPending, G!PendingOf,
     GP!PendingOf, M!PendingOf, MP!PendingOf, G!UpdateModels, GP!UpdateModels, M!UpdateModels,
     MP!UpdateModels, G!Present, GP!Present, M!Present, MP!Present, G!Backups, GP!Backups,
     M!Backups, MP!Backups, G!Quiet, GP!Quiet, M!Quiet, MP!Quiet, G!NoRow, GP!NoRow, M!NoRow,
     MP!NoRow, G!Ids, GP!Ids, M!Ids, MP!Ids

LEMMA SameReset ==
  ASSUME NEW t
  PROVE  /\ G!EditsUndone(t) = GP!EditsUndone(t)
         /\ M!EditsUndone(t) = MP!EditsUndone(t)
<1>1. G!EditsUndone(t) = GP!EditsUndone(t)
  BY ZenonT(60) DEF G!EditsUndone, GP!EditsUndone, G!EditsDropped, GP!EditsDropped, G!ResetLoop,
     GP!ResetLoop, G!ResetTurn, GP!ResetTurn, G!ResetOne, GP!ResetOne, G!RunsOut, GP!RunsOut,
     G!RemoveAtIndex, GP!RemoveAtIndex, G!IndexOutOfRange, GP!IndexOutOfRange, G!RevertRow,
     GP!RevertRow, G!BackupsAfter, GP!BackupsAfter, G!DeleteRow, GP!DeleteRow,
     G!DeleteBackupRow, GP!DeleteBackupRow, G!UpdateModels, GP!UpdateModels, G!MapThenFoldSet,
     GP!MapThenFoldSet, G!Max, GP!Max, G!Min, GP!Min, G!Backups, GP!Backups, G!Emit, GP!Emit,
     G!NoRow, GP!NoRow, G!Ids, GP!Ids, G!DraftStates, GP!DraftStates
<1>2. M!EditsUndone(t) = MP!EditsUndone(t)
  BY ZenonT(60) DEF M!EditsUndone, MP!EditsUndone, M!EditsDropped, MP!EditsDropped, M!ResetLoop,
     MP!ResetLoop, M!ResetTurn, MP!ResetTurn, M!ResetOne, MP!ResetOne, M!RunsOut, MP!RunsOut,
     M!RemoveAtIndex, MP!RemoveAtIndex, M!IndexOutOfRange, MP!IndexOutOfRange, M!RevertRow,
     MP!RevertRow, M!BackupsAfter, MP!BackupsAfter, M!DeleteRow, MP!DeleteRow,
     M!DeleteBackupRow, MP!DeleteBackupRow, M!UpdateModels, MP!UpdateModels, M!MapThenFoldSet,
     MP!MapThenFoldSet, M!Max, MP!Max, M!Min, MP!Min, M!Backups, MP!Backups, M!Emit, MP!Emit,
     M!NoRow, MP!NoRow, M!Ids, MP!Ids, M!DraftStates, MP!DraftStates
<1>. QED  BY <1>1, <1>2

LEMMA ConstantsFit ==
  /\ GP!ConstantsFit /\ MP!ConstantsFit
  /\ GP!Ids = Scopes /\ MP!Ids = Voters
  /\ Groups \notin Members /\ Orphans \cap Scopes = {} /\ Scopes \subseteq Nat \ {0}
  /\ GroupIds \cap DraftGroupIds = {}
<1>1. IsFiniteSet(GroupIds \cup DraftGroupIds)
  <2>1. IsFiniteSet(1 .. BaseDraftId - 1)
    BY ControllerAssumption, FS_Interval
  <2>2. IsFiniteSet(GroupIds)
    BY <2>1, ControllerAssumption, FS_Subset
  <2>. QED  BY <2>2, ControllerAssumption, FS_Union
<1>2. \A i \in GroupIds : i \in Nat \ {0} /\ i < BaseDraftId
  BY ControllerAssumption
<1>3. \A i \in DraftGroupIds : i \in Nat \ {0} /\ i >= BaseDraftId
  BY ControllerAssumption
<1>4. /\ BaseDraftId \in Nat \ {0} /\ Blank \notin Names /\ Blank \notin Weights
      /\ Voters \subseteq Nat \ {0} /\ IsFiniteSet(Voters \cup {})
  BY ControllerAssumption
<1>5. GP!ConstantsFit
  <2>1. GP!IsFiniteSet(GP!Ids)
    BY <1>1 DEF GP!Ids, GP!IsFiniteSet, IsFiniteSet
  <2>. QED  BY <1>2, <1>3, <1>4, <2>1 DEF GP!ConstantsFit
<1>6. MP!ConstantsFit
  <2>1. MP!IsFiniteSet(MP!Ids)
    BY <1>4 DEF MP!Ids, MP!IsFiniteSet, IsFiniteSet
  <2>. QED  BY <1>4, <2>1 DEF MP!ConstantsFit
<1>8. \A i \in Orphans : i \in Int /\ i < 0
  BY ControllerAssumption
<1>7. /\ Groups \notin Members /\ Orphans \cap Scopes = {} /\ Scopes \subseteq Nat \ {0}
      /\ GroupIds \cap DraftGroupIds = {}
  BY <1>2, <1>3, <1>4, <1>8 DEF Groups, Members, Scopes
<1>. QED  BY <1>5, <1>6, <1>7 DEF GP!Ids, MP!Ids, Scopes

(***************************************************************************)
(* The invariant.  Every table is whole; a table that keeps a backup is    *)
(* among the edited ones; and a members table that keeps one is registered *)
(* and, if its group is a drafted one, that group is there.  It holds of   *)
(* the client between any two steps and between any two actions of the     *)
(* transaction that is drafted.                                            *)
(***************************************************************************)
ClientType == [groups : GP!TableType, members : [Members -> MP!TableType],
               registered : SUBSET Scopes, orphaned : SUBSET Orphans,
               edited : SUBSET (Members \cup {Groups}), timer : BOOLEAN]

\* Where a members table may keep backups, but for the list of edited tables.
Placed(c, h) == /\ h \in Scopes => h \in c.registered
                /\ h \in Orphans => h \in c.orphaned
                /\ h \in DraftGroupIds => h \in GP!Present(c.groups)

Kept(c) ==
    /\ c \in ClientType
    /\ GP!Whole(c.groups)
    /\ GP!Backups(c.groups) # {} => Groups \in c.edited
    /\ \A h \in Members : /\ MP!Whole(c.members[h])
                          /\ MP!Backups(c.members[h]) # {} => h \in c.edited /\ Placed(c, h)

\* One members table is another one now.
LEMMA MemberReplaced ==
  ASSUME NEW c, Kept(c), NEW h \in Members, NEW u, MP!Whole(u), NEW d \in ClientType,
         d.groups = c.groups, d.members = [c.members EXCEPT ![h] = MP!Quiet(u)],
         d.registered = c.registered, d.orphaned = c.orphaned, c.edited \ {h} \subseteq d.edited,
         MP!Backups(u) # {} => h \in d.edited /\ Placed(c, h)
  PROVE  Kept(d)
<1>1. MP!Whole(MP!Quiet(u)) /\ MP!Backups(MP!Quiet(u)) = MP!Backups(u)
  BY MP!QuietWhole DEF MP!Backups
<1>2. \A k \in Members : Placed(d, k) <=> Placed(c, k)
  BY DEF Placed
<1>3. d.members[h] = MP!Quiet(u) /\ \A k \in Members \ {h} : d.members[k] = c.members[k]
  BY DEF Kept, ClientType
<1>4. ASSUME NEW k \in Members
      PROVE  /\ MP!Whole(d.members[k])
             /\ MP!Backups(d.members[k]) # {} => k \in d.edited /\ Placed(d, k)
  <2>1. CASE k = h
    BY <1>1, <1>2, <1>3, <2>1
  <2>2. CASE k # h
    BY <1>2, <1>3, <2>2 DEF Kept
  <2>. QED  BY <2>1, <2>2
<1>5. Groups # h
  BY ConstantsFit
<1>. QED  BY <1>4, <1>5 DEF Kept

\* The groups table is another one now.
LEMMA GroupsReplaced ==
  ASSUME NEW c, Kept(c), NEW u, GP!Whole(u), NEW d \in ClientType,
         d.groups = GP!Quiet(u), d.members = c.members, c.registered \subseteq d.registered,
         d.orphaned = c.orphaned,
         c.edited \ {Groups} \subseteq d.edited,
         GP!Backups(u) # {} => Groups \in d.edited,
         \A i \in DraftGroupIds : MP!Backups(c.members[i]) # {} => i \in GP!Present(u)
  PROVE  Kept(d)
<1>1. /\ GP!Whole(GP!Quiet(u)) /\ GP!Backups(GP!Quiet(u)) = GP!Backups(u)
      /\ GP!Present(GP!Quiet(u)) = GP!Present(u)
  BY GP!QuietWhole DEF GP!Backups, GP!Present
<1>2. ASSUME NEW k \in Members, MP!Backups(d.members[k]) # {}
      PROVE  k \in d.edited /\ Placed(d, k)
  <2>1. k \in c.edited /\ Placed(c, k)
    BY <1>2 DEF Kept
  <2>2. k # Groups
    BY ConstantsFit
  <2>. QED  BY <1>1, <1>2, <2>1, <2>2 DEF Placed
<1>. QED  BY <1>1, <1>2 DEF Kept

LEMMA Hearing ==
  ASSUME NEW c \in ClientType, NEW h \in Members, NEW u \in MP!TableType
  PROVE  LET d == Becomes(c, h, u)
         IN  /\ d \in ClientType
             /\ d.groups = c.groups /\ d.members = [c.members EXCEPT ![h] = MP!Quiet(u)]
             /\ d.registered = c.registered /\ d.orphaned = c.orphaned
             /\ c.edited \ {h} \subseteq d.edited
             /\ MP!Backups(u) # {} => c.edited = d.edited
<1> DEFINE after == Replaced(c, [k \in {h} |-> u])
<1>1. MP!Quiet(u) \in MP!TableType /\ MP!Backups(MP!Quiet(u)) = MP!Backups(u)
  BY MP!QuietSettles DEF MP!Backups
<1>2. after = [c EXCEPT !.members = [c.members EXCEPT ![h] = MP!Quiet(u)]]
  <2>1. Groups # h /\ \A k \in Members : k # Groups
    BY ConstantsFit
  <2>2. [k \in Members |-> IF k \in {h} THEN MP!Quiet(u) ELSE c.members[k]]
        = [c.members EXCEPT ![h] = MP!Quiet(u)]
    BY DEF ClientType
  <2>3. c = [c EXCEPT !.groups = c.groups]
    BY DEF ClientType
  <2>. QED  BY <2>1, <2>2, <2>3, SameSets DEF Replaced, Table
<1>3. after \in ClientType /\ after.edited = c.edited /\ after.members[h] = MP!Quiet(u)
  BY <1>1, <1>2 DEF ClientType
<1>4. Backups(after, h) = MP!Backups(u)
  BY <1>1, <1>3, SameSets, ConstantsFit DEF Backups
<1>. HIDE DEF after
<1>5. PICK timer \in BOOLEAN, edited \in {c.edited, c.edited \ {h}} :
         /\ Becomes(c, h, u) = [after EXCEPT !.timer = timer, !.edited = edited]
         /\ edited # c.edited => MP!Backups(u) = {}
  BY <1>3, <1>4 DEF Becomes, Heard, after
<1>. QED  BY <1>2, <1>3, <1>5 DEF ClientType

LEMMA GroupsHearing ==
  ASSUME NEW c \in ClientType, NEW u \in GP!TableType
  PROVE  LET d == GroupsBecome(c, u)
         IN  /\ d \in ClientType
             /\ d.groups = GP!Quiet(u) /\ d.members = c.members
             /\ d.registered = c.registered \cup GP!Present(u) /\ d.orphaned = c.orphaned
             /\ c.edited \ {Groups} \subseteq d.edited
             /\ GP!Backups(u) # {} => c.edited = d.edited
<1> DEFINE after == Replaced(c, [k \in {Groups} |-> u])
           heard == Becomes(c, Groups, u)
<1>1. /\ GP!Quiet(u) \in GP!TableType
      /\ GP!Backups(GP!Quiet(u)) = GP!Backups(u) /\ GP!Present(GP!Quiet(u)) = GP!Present(u)
  BY GP!QuietSettles DEF GP!Backups, GP!Present
<1>2. after = [c EXCEPT !.groups = GP!Quiet(u)]
  <2>1. \A k \in Members : k # Groups
    BY ConstantsFit
  <2>2. [k \in Members |-> IF k \in {Groups} THEN GP!Quiet(u) ELSE c.members[k]] = c.members
    BY <2>1 DEF ClientType
  <2>3. c = [c EXCEPT !.members = c.members]
    BY DEF ClientType
  <2>. QED  BY <2>1, <2>2, <2>3, SameSets DEF Replaced, Table
<1>3. after \in ClientType /\ after.edited = c.edited /\ after.groups = GP!Quiet(u)
  BY <1>1, <1>2 DEF ClientType
<1>4. Backups(after, Groups) = GP!Backups(u)
  BY <1>1, <1>3, SameSets DEF Backups
<1>. HIDE DEF after
<1>5. PICK timer \in BOOLEAN, edited \in {c.edited, c.edited \ {Groups}} :
         /\ heard = [after EXCEPT !.timer = timer, !.edited = edited]
         /\ edited # c.edited => GP!Backups(u) = {}
  BY <1>3, <1>4 DEF Becomes, Heard, after
<1>6. /\ heard \in ClientType /\ heard.groups = GP!Quiet(u) /\ heard.members = c.members
      /\ heard.registered = c.registered /\ heard.orphaned = c.orphaned
      /\ heard.edited = edited
  BY <1>2, <1>3, <1>5 DEF ClientType
<1>. HIDE DEF heard
<1>7. GroupsBecome(c, u) = [heard EXCEPT !.registered = c.registered \cup GP!Present(u)]
  BY <1>1, <1>6, SameSets DEF GroupsBecome, SizesCounted, heard
<1>8. GP!Present(u) \subseteq Scopes
  BY ConstantsFit DEF GP!Present
<1>. QED  BY <1>5, <1>6, <1>7, <1>8 DEF ClientType

LEMMA tableEditedKept ==
  ASSUME NEW c, Kept(c), NEW h \in Members \cup {Groups}
  PROVE  LET d == tableEdited(c, h)
         IN  /\ Kept(d) /\ h \in d.edited /\ d.groups = c.groups /\ d.members = c.members
             /\ d.registered = c.registered /\ d.orphaned = c.orphaned
  BY DEF tableEdited, Kept, ClientType, Placed

LEMMA getGroupMembersTableKept ==
  ASSUME NEW c, Kept(c), NEW g \in Scopes
  PROVE  LET d == getGroupMembersTable(c, g)
         IN  /\ Kept(d) /\ g \in d.registered /\ d.groups = c.groups /\ d.members = c.members
             /\ c.registered \subseteq d.registered /\ d.orphaned = c.orphaned
  BY DEF getGroupMembersTable, Kept, ClientType, Placed

\* An edit drafted in a members table, or the table left alone: edited either way.
LEMMA MemberDrafted ==
  ASSUME NEW c, Kept(c), NEW h \in Members, Placed(c, h), NEW u, MP!Whole(u)
  PROVE  LET d == tableEdited(Becomes(c, h, u), h)
         IN  /\ Kept(d) /\ d.groups = c.groups /\ d.registered = c.registered
             /\ d.orphaned = c.orphaned
<1> DEFINE b == Becomes(c, h, u)
           d == tableEdited(b, h)
<1>1. c \in ClientType /\ u \in MP!TableType
  BY DEF Kept, MP!Whole, MP!Consistent
<1>2. /\ b \in ClientType /\ b.groups = c.groups /\ b.registered = c.registered
      /\ b.orphaned = c.orphaned
      /\ b.members = [c.members EXCEPT ![h] = MP!Quiet(u)]
      /\ c.edited \ {h} \subseteq b.edited
  BY <1>1, Hearing
<1>. HIDE DEF b
<1>3. /\ d \in ClientType /\ d.groups = c.groups /\ d.registered = c.registered
      /\ d.orphaned = c.orphaned /\ d.members = [c.members EXCEPT ![h] = MP!Quiet(u)]
      /\ c.edited \ {h} \subseteq d.edited /\ h \in d.edited
  BY <1>2 DEF tableEdited, ClientType
<1>. HIDE DEF d
<1>4. Kept(d)
  BY <1>3, MemberReplaced
<1>. QED  BY <1>3, <1>4 DEF d, b

LEMMA GroupsDrafted ==
  ASSUME NEW c, Kept(c), NEW u, GP!Whole(u),
         \A i \in Scopes : c.groups.rows[i] # GP!NoRow => u.rows[i] # GP!NoRow
  PROVE  LET d == tableEdited(GroupsBecome(c, u), Groups)
         IN  Kept(d) /\ d.groups = GP!Quiet(u) /\ GP!Present(c.groups) \subseteq GP!Present(d.groups)
<1> DEFINE b == GroupsBecome(c, u)
           d == tableEdited(b, Groups)
<1>1. c \in ClientType /\ u \in GP!TableType
  BY DEF Kept, GP!Whole, GP!Consistent
<1>2. /\ b \in ClientType /\ b.groups = GP!Quiet(u) /\ b.members = c.members
      /\ b.registered = c.registered \cup GP!Present(u) /\ b.orphaned = c.orphaned
      /\ c.edited \ {Groups} \subseteq b.edited
  BY <1>1, GroupsHearing
<1>. HIDE DEF b
<1>3. /\ d \in ClientType /\ d.groups = GP!Quiet(u) /\ d.members = c.members
      /\ d.registered = c.registered \cup GP!Present(u) /\ d.orphaned = c.orphaned
      /\ c.edited \ {Groups} \subseteq d.edited /\ Groups \in d.edited
  BY <1>2 DEF tableEdited, ClientType
<1>4. GP!Present(c.groups) \subseteq GP!Present(u)
  BY ConstantsFit DEF GP!Present
<1>. HIDE DEF d
<1>5. \A i \in DraftGroupIds : MP!Backups(c.members[i]) # {} => i \in GP!Present(u)
  BY <1>4 DEF Kept, Placed, Members, Scopes
<1>6. Kept(d)
  BY <1>3, <1>5, GroupsReplaced
<1>7. GP!Present(GP!Quiet(u)) = GP!Present(u)
  BY GP!QuietWhole DEF GP!Present
<1>. QED  BY <1>3, <1>4, <1>6, <1>7 DEF d, b

LEMMA addGroupKept ==
  ASSUME NEW c, Kept(c), NEW name \in Names
  PROVE  LET d == addGroup(c, name)
         IN  Kept(d) /\ GP!Present(c.groups) \subseteq GP!Present(d.groups)
<1> DEFINE t       == c.groups
           allowed == {id \in DraftGroupIds : G!DraftIdAllowed(t, id)}
           new     == Min(allowed)
           u       == G!DraftAdded(t, new, name)
<1>1. CASE t.pendingEdits \/ allowed = {}
  BY <1>1, tableEditedKept DEF addGroup
<1>2. CASE ~t.pendingEdits /\ allowed # {}
  <2>1. allowed \in SUBSET Nat
    BY ControllerAssumption
  <2>2. new \in allowed
    <3>. HIDE DEF allowed
    <3>. QED  BY <1>2, <2>1, GP!LeastOfNat DEF Min, GP!Min
  <2>3. new \in DraftGroupIds /\ new \in GP!Ids
    BY <2>2 DEF GP!Ids
  <2>. HIDE DEF new, allowed
  <2>4. GP!Whole(u) /\ \A i \in Scopes : t.rows[i] # GP!NoRow => u.rows[i] # GP!NoRow
    BY <1>2, <2>3, GP!DraftAddedWhole, SameDrafts, ConstantsFit DEF Kept
  <2>. HIDE DEF u
  <2>5. LET d == tableEdited(GroupsBecome(c, u), Groups)
        IN  Kept(d) /\ GP!Present(c.groups) \subseteq GP!Present(d.groups)
    BY <2>4, GroupsDrafted
  <2>. QED  BY <1>2, <2>5 DEF addGroup, allowed, new, u
<1>. QED  BY <1>1, <1>2

LEMMA renameGroupKept ==
  ASSUME NEW c, Kept(c), NEW id \in Scopes, NEW name \in Names
  PROVE  Kept(renameGroup(c, id, name))
<1> DEFINE t == c.groups
           u == G!DraftEdited(t, id, name)
<1>1. CASE t.pendingEdits \/ ~G!CanBeEdited(t, id)
  BY <1>1, tableEditedKept DEF renameGroup
<1>2. CASE ~t.pendingEdits /\ G!CanBeEdited(t, id)
  <2>1. GP!Whole(u) /\ \A i \in Scopes : t.rows[i] # GP!NoRow => u.rows[i] # GP!NoRow
    BY <1>2, GP!DraftEditedWhole, SameDrafts, ConstantsFit DEF Kept
  <2>. HIDE DEF u
  <2>. QED  BY <1>2, <2>1, GroupsDrafted DEF renameGroup, u
<1>. QED  BY <1>1, <1>2

LEMMA addMemberKept ==
  ASSUME NEW c, Kept(c), NEW g \in Scopes, Placed(c, g), NEW voter \in Voters,
         NEW weight \in Weights
  PROVE  LET d == addMember(c, g, voter, weight)
         IN  Kept(d) /\ Placed(d, g)
<1> DEFINE t == c.members[g]
           u == M!DraftAdded(t, voter, weight)
<1>1. g \in Members
  BY DEF Members
<1>2. CASE t.pendingEdits \/ t.rows[voter] # M!NoRow
  BY <1>1, <1>2, tableEditedKept DEF addMember, Placed
<1>3. CASE ~t.pendingEdits /\ t.rows[voter] = M!NoRow
  <2>1. MP!Whole(u)
    BY <1>1, <1>3, MP!DraftAddedWhole, SameDrafts, ConstantsFit DEF Kept
  <2>. HIDE DEF u
  <2>2. addMember(c, g, voter, weight) = tableEdited(Becomes(c, g, u), g)
    BY <1>3 DEF addMember, u
  <2>. QED  BY <1>1, <2>1, <2>2, MemberDrafted DEF Placed
<1>. QED  BY <1>2, <1>3

LEMMA editMemberKept ==
  ASSUME NEW c, Kept(c), NEW g \in Scopes, Placed(c, g), NEW voter \in Voters,
         NEW weight \in Weights
  PROVE  Kept(editMember(c, g, voter, weight))
<1> DEFINE t == c.members[g]
           u == M!DraftEdited(t, voter, weight)
<1>1. g \in Members
  BY DEF Members
<1>2. CASE t.pendingEdits \/ ~M!CanBeEdited(t, voter)
  BY <1>1, <1>2, tableEditedKept DEF editMember
<1>3. CASE ~t.pendingEdits /\ M!CanBeEdited(t, voter)
  <2>1. MP!Whole(u)
    BY <1>1, <1>3, MP!DraftEditedWhole, SameDrafts, ConstantsFit DEF Kept
  <2>. HIDE DEF u
  <2>2. editMember(c, g, voter, weight) = tableEdited(Becomes(c, g, u), g)
    BY <1>3 DEF editMember, u
  <2>. QED  BY <1>1, <2>1, <2>2, MemberDrafted
<1>. QED  BY <1>2, <1>3

LEMMA deleteMemberKept ==
  ASSUME NEW c, Kept(c), NEW g \in Scopes, Placed(c, g), NEW voter \in Voters,
         c.members[g].rows[voter] # MP!NoRow
  PROVE  Kept(deleteMember(c, g, voter))
<1> DEFINE t == c.members[g]
           u == M!DraftDeleted(t, voter)
<1>1. g \in Members
  BY DEF Members
<1>2. CASE t.pendingEdits
  BY <1>1, <1>2, tableEditedKept DEF deleteMember
<1>3. CASE ~t.pendingEdits
  <2>1. MP!Whole(u)
    BY <1>1, <1>3, MP!DraftDeletedWhole, SameDeletion, ConstantsFit DEF Kept
  <2>. HIDE DEF u
  <2>2. deleteMember(c, g, voter) = tableEdited(Becomes(c, g, u), g)
    BY <1>3 DEF deleteMember, u
  <2>. QED  BY <1>1, <2>1, <2>2, MemberDrafted
<1>. QED  BY <1>2, <1>3

(***************************************************************************)
(* The preview of a transaction                                            *)
(***************************************************************************)

LEMMA GroupOfPresent ==
  ASSUME NEW c, NEW name, Named(c, name) # {}
  PROVE  GroupOf(c, name) \in GP!Present(c.groups) /\ GroupOf(c, name) \in Scopes
<1>1. Named(c, name) \subseteq GP!Present(c.groups) /\ GP!Present(c.groups) \subseteq Scopes
  BY SameSets, ConstantsFit DEF Named, GP!Present
<1>2. Named(c, name) \in SUBSET Nat
  BY <1>1, ConstantsFit
<1>3. Min(Named(c, name)) \in Named(c, name)
  BY <1>2, GP!LeastOfNat DEF Min, GP!Min
<1>. QED  BY <1>1, <1>3 DEF GroupOf

\* The table of a group that is there, once it is registered, may take edits.
LEMMA KnownPlaced ==
  ASSUME NEW c, Kept(c), NEW g \in Scopes, g \in GP!Present(c.groups)
  PROVE  LET d == getGroupMembersTable(c, g)
         IN  /\ Kept(d) /\ Placed(d, g) /\ d.groups = c.groups /\ d.members = c.members
             /\ \A h \in Scopes : Placed(c, h) => Placed(d, h)
<1> DEFINE d == getGroupMembersTable(c, g)
<1>1. /\ Kept(d) /\ d.groups = c.groups /\ d.members = c.members /\ d.orphaned = c.orphaned
      /\ g \in d.registered /\ c.registered \subseteq d.registered
  BY getGroupMembersTableKept
<1>. HIDE DEF d
<1>2. g \notin Orphans
  BY ConstantsFit
<1>3. Placed(d, g) /\ \A h \in Scopes : Placed(c, h) => Placed(d, h)
  BY <1>1, <1>2 DEF Placed
<1>. QED  BY <1>1, <1>3 DEF d

LEMMA processVoterAddKept ==
  ASSUME NEW c, Kept(c), NEW group \in Names, NEW voter \in Voters, NEW weight \in Weights
  PROVE  Kept(processVoterAdd(c, group, voter, weight))
<1> DEFINE created == IF Named(c, group) = {} THEN addGroup(c, group) ELSE c
           g       == GroupOf(created, group)
           known   == getGroupMembersTable(created, g)
<1>1. Kept(created)
  BY addGroupKept
<1>. HIDE DEF created
<1>2. CASE Named(created, group) = {}
  BY <1>1, <1>2 DEF processVoterAdd, created
<1>3. CASE Named(created, group) # {}
  <2>1. g \in Scopes /\ g \in GP!Present(created.groups)
    BY <1>3, GroupOfPresent
  <2>. HIDE DEF g
  <2>2. Kept(known) /\ Placed(known, g)
    BY <1>1, <2>1, KnownPlaced
  <2>. HIDE DEF known
  <2>3. processVoterAdd(c, group, voter, weight)
          \in {known, addMember(known, g, voter, weight), editMember(known, g, voter, weight)}
    BY <1>3 DEF processVoterAdd, known, g, created
  <2>. QED  BY <2>1, <2>2, <2>3, addMemberKept, editMemberKept
<1>. QED  BY <1>2, <1>3

LEMMA processVoterRemoveKept ==
  ASSUME NEW c, Kept(c), NEW group \in Names, NEW voter \in Voters
  PROVE  Kept(processVoterRemove(c, group, voter))
<1> DEFINE g     == GroupOf(c, group)
           known == getGroupMembersTable(c, g)
<1>1. CASE Named(c, group) = {}
  BY <1>1 DEF processVoterRemove
<1>2. CASE Named(c, group) # {}
  <2>1. g \in Scopes /\ g \in GP!Present(c.groups)
    BY <1>2, GroupOfPresent
  <2>. HIDE DEF g
  <2>2. Kept(known) /\ Placed(known, g)
    BY <2>1, KnownPlaced
  <2>. HIDE DEF known
  <2>3. \/ processVoterRemove(c, group, voter) = known
        \/ /\ processVoterRemove(c, group, voter) = deleteMember(known, g, voter)
           /\ known.members[g].rows[voter] # MP!NoRow
    BY <1>2, SameTables DEF processVoterRemove, known, g
  <2>. QED  BY <2>1, <2>2, <2>3, deleteMemberKept
<1>. QED  BY <1>1, <1>2

LEMMA processGroupRenameKept ==
  ASSUME NEW c, Kept(c), NEW group \in Names, NEW name \in Names
  PROVE  Kept(processGroupRename(c, group, name))
<1>1. CASE Named(c, group) = {} \/ Named(c, name) # {}
  BY <1>1 DEF processGroupRename
<1>2. CASE Named(c, group) # {} /\ Named(c, name) = {}
  <2>1. GroupOf(c, group) \in Scopes
    BY <1>2, GroupOfPresent
  <2>2. processGroupRename(c, group, name) = renameGroup(c, GroupOf(c, group), name)
    BY <1>2 DEF processGroupRename
  <2>. QED  BY <2>1, <2>2, renameGroupKept
<1>. QED  BY <1>1, <1>2

\* Copying the members: a fold over the voters of the other table, in some order.
LEMMA copyMembersKept ==
  ASSUME NEW c, Kept(c), NEW to \in Scopes, Placed(c, to), NEW S \in SUBSET Voters, NEW rows,
         \A v \in S : rows[v].content \in Weights
  PROVE  Kept(copyMembers(c, to, rows, S))
<1> DEFINE V    == {d \in ClientType : Kept(d) /\ Placed(d, to)}
           turn(v, d) == addMember(d, to, v, rows[v].content)
           pick == [s \in SUBSET S |-> CHOOSE x \in s : TRUE]
           step == [p \in S \X V |-> turn(p[1], p[2])]
           body(g, s) == IF s = {} THEN c
                         ELSE turn(CHOOSE x \in s : TRUE, g[s \ {CHOOSE x \in s : TRUE}])
           f    == CHOOSE g : g = [s \in SUBSET S |-> body(g, s)]
<1>1. copyMembers(c, to, rows, S) = f[S]
  BY DEF copyMembers, FoldSet, MapThenFoldSet
<1>2. c \in V
  BY DEF Kept
<1>3. ASSUME NEW v \in S, NEW d \in V  PROVE turn(v, d) \in V
  <2>1. Kept(turn(v, d)) /\ Placed(turn(v, d), to)
    BY addMemberKept
  <2>. HIDE DEF turn
  <2>. QED  BY <2>1 DEF Kept
<1>4. step \in [S \X V -> V]
  <2>. HIDE DEF V, turn
  <2>. QED  BY <1>3
<1>5. GP!Picks(pick, S)
  BY DEF GP!Picks
<1>6. GP!IsFiniteSet(S)
  <2>1. IsFiniteSet(S)
    BY ControllerAssumption, FS_Subset
  <2>. QED  BY <2>1 DEF GP!IsFiniteSet, IsFiniteSet
<1>7. PICK F \in [SUBSET S -> V] : GP!IsFold(F, S, c, pick, step)
  <2>. HIDE DEF step, pick, V
  <2>. QED  BY <1>2, <1>4, <1>5, <1>6, GP!FoldDefined
<1>. HIDE DEF V, turn
<1>8. ASSUME NEW s \in SUBSET S  PROVE F[s] = body(F, s)
  <2>1. CASE s = {}
    BY <1>7, <2>1 DEF GP!IsFold
  <2>2. CASE s # {}
    <3> DEFINE x == CHOOSE x \in s : TRUE
    <3>1. x \in s /\ pick[s] = x
      BY <2>2
    <3>2. x \in S /\ F[s \ {x}] \in V
      BY <3>1
    <3>. HIDE DEF x
    <3>3. step[<<x, F[s \ {x}]>>] = turn(x, F[s \ {x}])
      BY <3>2
    <3>. HIDE DEF step, pick
    <3>4. F[s] = turn(x, F[s \ {x}])
      BY <1>7, <2>2, <3>1, <3>3 DEF GP!IsFold
    <3>. QED  BY <2>2, <3>4 DEF x
  <2>. QED  BY <2>1, <2>2
<1>9. f = [s \in SUBSET S |-> body(f, s)]
  <2>. HIDE DEF body
  <2>1. F = [s \in SUBSET S |-> body(F, s)]
    BY <1>8
  <2>2. \E g : g = [s \in SUBSET S |-> body(g, s)]
    BY <2>1
  <2>. QED  BY <2>2
<1>. HIDE DEF f
<1>10. \A s \in SUBSET S : f[s] = body(f, s)
  <2>. HIDE DEF body
  <2>. QED  BY <1>9
<1> DEFINE W == {s \in SUBSET S : f[s] \in V}
<1>11. {} \in W
  BY <1>2, <1>10
<1>12. ASSUME NEW s \in (SUBSET S) \ {{}}
       PROVE  \E x \in s : s \ {x} \in W => s \in W
  <2> DEFINE x == CHOOSE x \in s : TRUE
  <2>1. x \in s /\ f[s] = turn(x, f[s \ {x}])
    BY <1>10
  <2>. HIDE DEF x
  <2>2. s \ {x} \in W => s \in W
    BY <1>3, <2>1
  <2>. QED  BY <2>1, <2>2
<1>13. S \in W
  <2>. HIDE DEF W
  <2>. QED  BY <1>6, <1>11, <1>12, GP!SubsetInduction
<1>. QED  BY <1>1, <1>13 DEF V, f

LEMMA processGroupCopyKept ==
  ASSUME NEW c, Kept(c), NEW group \in Names, NEW name \in Names
  PROVE  Kept(processGroupCopy(c, group, name))
<1> DEFINE created == addGroup(c, name)
           from    == GroupOf(c, group)
           to      == GroupOf(created, name)
           source  == getGroupMembersTable(created, from)
           known   == getGroupMembersTable(source, to)
           rows    == known.members[from].rows
           S       == M!Present(known.members[from])
<1>1. CASE Named(c, group) = {} \/ Named(c, name) # {}
  BY <1>1 DEF processGroupCopy
<1>2. CASE Named(c, group) # {} /\ Named(c, name) = {}
  <2>1. Kept(created) /\ GP!Present(c.groups) \subseteq GP!Present(created.groups)
    BY addGroupKept
  <2>2. from \in Scopes /\ from \in GP!Present(created.groups)
    BY <1>2, <2>1, GroupOfPresent
  <2>. HIDE DEF created
  <2>3. CASE Named(created, name) = {}
    BY <1>2, <2>1, <2>3 DEF processGroupCopy, created
  <2>4. CASE Named(created, name) # {}
    <3>1. to \in Scopes /\ to \in GP!Present(created.groups)
      BY <2>4, GroupOfPresent
    <3>. HIDE DEF from, to
    <3>2. Kept(source) /\ source.groups = created.groups
      BY <2>1, <2>2, KnownPlaced
    <3>. HIDE DEF source
    <3>3. Kept(known) /\ Placed(known, to)
      BY <3>1, <3>2, KnownPlaced
    <3>. HIDE DEF known
    <3>4. S \in SUBSET Voters
      BY SameSets, ConstantsFit DEF MP!Present
    <3>5. \A v \in S : rows[v].content \in Weights
      <4>1. MP!Filled(known.members[from])
        BY <2>2, <3>3 DEF Kept, MP!Whole, Members
      <4>. QED  BY <4>1, SameSets DEF MP!Filled, MP!Present
    <3>. HIDE DEF S, rows
    <3>6. Kept(copyMembers(known, to, rows, S))
      BY <3>1, <3>3, <3>4, <3>5, copyMembersKept
    <3>7. processGroupCopy(c, group, name) = copyMembers(known, to, rows, S)
      BY <1>2, <2>4 DEF processGroupCopy, S, rows, known, source, from, to, created
    <3>. QED  BY <3>6, <3>7
  <2>. QED  BY <2>3, <2>4
<1>. QED  BY <1>1, <1>2

LEMMA applyActionKept ==
  ASSUME NEW c, Kept(c), NEW a \in Actions
  PROVE  Kept(applyAction(c, a))
<1>1. a \in ActionType
  BY ControllerAssumption
<1>2. CASE a \in [type : {"voter.add"}, group : Names, voter : Voters, weight : Weights]
  BY <1>2, processVoterAddKept DEF applyAction
<1>3. CASE a \in [type : {"voter.remove"}, group : Names, voter : Voters]
  BY <1>3, processVoterRemoveKept DEF applyAction
<1>4. CASE a \in [type : {"group.rename", "group.copy"}, group : Names, name : Names]
  <2>1. CASE a.type = "group.rename"
    BY <1>4, <2>1, processGroupRenameKept DEF applyAction
  <2>2. CASE a.type = "group.copy"
    BY <1>4, <2>2, processGroupCopyKept DEF applyAction
  <2>. QED  BY <1>4, <2>1, <2>2
<1>. QED  BY <1>1, <1>2, <1>3, <1>4 DEF ActionType

\* The actions of a transaction, one after the other.
LEMMA applyActionsKept ==
  ASSUME NEW c, Kept(c), NEW actions \in Seq(Actions)
  PROVE  Kept(applyActions(c, actions))
<1> DEFINE S    == DOMAIN actions
           V    == {d \in ClientType : Kept(d)}
           turn(k, d) == applyAction(d, actions[k])
           pick == [s \in SUBSET S |-> Max(s)]
           step == [p \in S \X V |-> turn(p[1], p[2])]
           body(g, s) == IF s = {} THEN c ELSE turn(Max(s), g[s \ {Max(s)}])
           f    == CHOOSE g : g = [s \in SUBSET S |-> body(g, s)]
<1>1. applyActions(c, actions) = f[S]
  BY DEF applyActions, FoldLeft, MapThenFoldSet
<1>2. c \in V
  BY DEF Kept
<1>3. ASSUME NEW k \in S, NEW d \in V  PROVE turn(k, d) \in V
  <2>1. actions[k] \in Actions
    OBVIOUS
  <2>2. Kept(turn(k, d))
    BY <2>1, applyActionKept
  <2>. HIDE DEF turn
  <2>. QED  BY <2>2 DEF Kept
<1>4. S \in SUBSET Nat /\ IsFiniteSet(S)
  <2>1. S = 1 .. Len(actions) /\ Len(actions) \in Nat
    OBVIOUS
  <2>. HIDE DEF S
  <2>. QED  BY <2>1, FS_Interval
<1>. HIDE DEF S, V, turn
<1>5. step \in [S \X V -> V]
  BY <1>3
<1>6. GP!IsFiniteSet(S)
  BY <1>4 DEF GP!IsFiniteSet, IsFiniteSet
<1>7. ASSUME NEW s \in (SUBSET S) \ {{}}  PROVE Max(s) \in s
  <2>1. IsFiniteSet(s) /\ s \in SUBSET Nat
    BY <1>4, FS_Subset
  <2>. QED  BY <2>1, GP!GreatestOfFinite DEF Max, GP!Max, GP!IsFiniteSet, IsFiniteSet
<1>8. GP!Picks(pick, S)
  BY <1>7 DEF GP!Picks
<1>9. PICK F \in [SUBSET S -> V] : GP!IsFold(F, S, c, pick, step)
  <2>. HIDE DEF step, pick
  <2>. QED  BY <1>2, <1>5, <1>6, <1>8, GP!FoldDefined
<1>10. ASSUME NEW s \in SUBSET S  PROVE F[s] = body(F, s)
  <2>1. CASE s = {}
    BY <1>9, <2>1 DEF GP!IsFold
  <2>2. CASE s # {}
    <3> DEFINE x == Max(s)
    <3>1. x \in S /\ pick[s] = x /\ F[s \ {x}] \in V
      BY <1>7, <2>2
    <3>. HIDE DEF x
    <3>2. step[<<x, F[s \ {x}]>>] = turn(x, F[s \ {x}])
      BY <3>1
    <3>. HIDE DEF step, pick
    <3>3. F[s] = turn(x, F[s \ {x}])
      BY <1>9, <2>2, <3>1, <3>2 DEF GP!IsFold
    <3>. QED  BY <2>2, <3>3 DEF x
  <2>. QED  BY <2>1, <2>2
<1>11. f = [s \in SUBSET S |-> body(f, s)]
  <2>. HIDE DEF body
  <2>1. F = [s \in SUBSET S |-> body(F, s)]
    BY <1>10
  <2>2. \E g : g = [s \in SUBSET S |-> body(g, s)]
    BY <2>1
  <2>. QED  BY <2>2
<1>. HIDE DEF f
<1>12. \A s \in SUBSET S : f[s] = body(f, s)
  <2>. HIDE DEF body
  <2>. QED  BY <1>11
<1> DEFINE W == {s \in SUBSET S : f[s] \in V}
<1>13. {} \in W
  BY <1>2, <1>12
<1>14. ASSUME NEW s \in (SUBSET S) \ {{}}
       PROVE  \E x \in s : s \ {x} \in W => s \in W
  <2> DEFINE x == Max(s)
  <2>1. x \in s /\ f[s] = turn(x, f[s \ {x}])
    BY <1>7, <1>12
  <2>. HIDE DEF x
  <2>2. s \ {x} \in W => s \in W
    BY <1>3, <2>1
  <2>. QED  BY <2>1, <2>2
<1>15. S \in W
  <2>. HIDE DEF W
  <2>. QED  BY <1>6, <1>13, <1>14, GP!SubsetInduction
<1>16. f[S] \in V
  BY <1>15
<1>. QED  BY <1>1, <1>16 DEF V, f, turn, S

(***************************************************************************)
(* Undoing and submitting edits                                            *)
(***************************************************************************)

\* A pending row has a backup.
LEMMA NothingPending ==
  /\ \A t : GP!Whole(t) /\ GP!Backups(t) = {} => GP!Pending(t) = {}
  /\ \A t : MP!Whole(t) /\ MP!Backups(t) = {} => MP!Pending(t) = {}
  BY DEF GP!Whole, GP!Consistent, GP!Backups, GP!Pending,
         MP!Whole, MP!Consistent, MP!Backups, MP!Pending

LEMMA resetEditsKept ==
  ASSUME NEW c, Kept(c)
  PROVE  LET d == resetEdits(c)
         IN  Kept(d) /\ PendingIn(d) = {}
<1> DEFINE undone == [h \in c.edited |-> EditsUndone(c, h)]
           new(h) == IF h \in c.edited THEN G!Quiet(EditsUndone(c, h)) ELSE Table(c, h)
           after  == Replaced(c, undone)
           d      == resetEdits(c)
<1>1. after = [c EXCEPT !.groups = new(Groups), !.members = [h \in Members |-> new(h)]]
  BY DEF Replaced
<1>2. GP!Whole(new(Groups)) /\ GP!Backups(new(Groups)) = {}
  <2>1. CASE Groups \in c.edited
    <3> DEFINE u == GP!EditsUndone(c.groups)
    <3>1. GP!Whole(u) /\ GP!Backups(u) = {}
      BY GP!EditsUndoneWhole, ConstantsFit DEF Kept
    <3>2. new(Groups) = GP!Quiet(u)
      BY <2>1, SameReset, SameSets DEF EditsUndone
    <3>. HIDE DEF u, new
    <3>. QED  BY <3>1, <3>2, GP!QuietWhole DEF GP!Backups
  <2>2. CASE Groups \notin c.edited
    BY <2>2 DEF Kept, Table
  <2>. QED  BY <2>1, <2>2
<1>3. ASSUME NEW h \in Members
      PROVE  MP!Whole(new(h)) /\ MP!Backups(new(h)) = {}
  <2>1. h # Groups
    BY ConstantsFit
  <2>2. CASE h \in c.edited
    <3> DEFINE u == MP!EditsUndone(c.members[h])
    <3>1. MP!Whole(u) /\ MP!Backups(u) = {}
      BY MP!EditsUndoneWhole, ConstantsFit DEF Kept
    <3>2. new(h) = MP!Quiet(u)
      BY <2>1, <2>2, SameReset, SameSets DEF EditsUndone
    <3>. HIDE DEF u, new
    <3>. QED  BY <3>1, <3>2, MP!QuietWhole DEF MP!Backups
  <2>3. CASE h \notin c.edited
    BY <2>1, <2>3 DEF Kept, Table
  <2>. QED  BY <2>2, <2>3
<1>. HIDE DEF new
<1>4. /\ new(Groups) \in GP!TableType
      /\ [h \in Members |-> new(h)] \in [Members -> MP!TableType]
  BY <1>2, <1>3 DEF GP!Whole, GP!Consistent, MP!Whole, MP!Consistent
<1>5. /\ after \in ClientType /\ after.groups = new(Groups)
      /\ after.members = [h \in Members |-> new(h)]
  BY <1>1, <1>4 DEF ClientType, Kept
<1>. HIDE DEF after
<1>6. PICK timer \in BOOLEAN : d = [after EXCEPT !.edited = @ \ c.edited, !.timer = timer]
  BY <1>5 DEF resetEdits, ResetTables, after, ClientType
<1>7. /\ d \in ClientType /\ d.groups = new(Groups)
      /\ d.members = [h \in Members |-> new(h)]
  BY <1>5, <1>6 DEF ClientType
<1>. HIDE DEF d
<1>8. Kept(d)
  BY <1>2, <1>3, <1>7 DEF Kept
<1>9. ASSUME NEW h \in Members \cup {Groups}
      PROVE  (IF h = Groups THEN G!Pending(d.groups) ELSE M!Pending(d.members[h])) = {}
  BY <1>2, <1>3, <1>7, NothingPending, SameSets
<1>10. PendingIn(d) = {}
  BY <1>9 DEF PendingIn
<1>. QED  BY <1>8, <1>10 DEF d

LEMMA transactionSubmittedKept ==
  ASSUME NEW c, Kept(c)
  PROVE  Kept(transactionSubmitted(c))
<1> DEFINE pending == [h \in c.edited |-> EditsPending(c, h)]
           new(h)  == IF h \in c.edited THEN G!Quiet(EditsPending(c, h)) ELSE Table(c, h)
           d       == transactionSubmitted(c)
<1>1. d = [c EXCEPT !.groups = new(Groups), !.members = [h \in Members |-> new(h)]]
  BY DEF transactionSubmitted, Replaced
<1>2. /\ GP!Whole(new(Groups)) /\ GP!Backups(new(Groups)) = GP!Backups(c.groups)
      /\ GP!Present(c.groups) \subseteq GP!Present(new(Groups))
  <2>1. CASE Groups \in c.edited
    <3> DEFINE u == GP!MarkedPending(c.groups)
    <3>1. /\ GP!Whole(u) /\ u.backups = c.groups.backups
          /\ \A i \in GP!Ids : c.groups.rows[i] # GP!NoRow => u.rows[i] # GP!NoRow
      BY GP!MarkedPendingWhole, ConstantsFit DEF Kept
    <3>2. new(Groups) = GP!Quiet(u)
      BY <2>1, SameSubmission, SameSets DEF EditsPending
    <3>. HIDE DEF u, new
    <3>. QED  BY <3>1, <3>2, GP!QuietWhole DEF GP!Backups, GP!Present
  <2>2. CASE Groups \notin c.edited
    BY <2>2 DEF Kept, Table
  <2>. QED  BY <2>1, <2>2
<1>3. ASSUME NEW h \in Members
      PROVE  MP!Whole(new(h)) /\ MP!Backups(new(h)) = MP!Backups(c.members[h])
  <2>1. h # Groups
    BY ConstantsFit
  <2>2. CASE h \in c.edited
    <3> DEFINE u == MP!MarkedPending(c.members[h])
    <3>1. MP!Whole(u) /\ u.backups = c.members[h].backups
      BY MP!MarkedPendingWhole, ConstantsFit DEF Kept
    <3>2. new(h) = MP!Quiet(u)
      BY <2>1, <2>2, SameSubmission, SameSets DEF EditsPending
    <3>. HIDE DEF u, new
    <3>. QED  BY <3>1, <3>2, MP!QuietWhole DEF MP!Backups
  <2>3. CASE h \notin c.edited
    BY <2>1, <2>3 DEF Kept, Table
  <2>. QED  BY <2>2, <2>3
<1>. HIDE DEF new
<1>4. /\ new(Groups) \in GP!TableType
      /\ [h \in Members |-> new(h)] \in [Members -> MP!TableType]
  BY <1>2, <1>3 DEF GP!Whole, GP!Consistent, MP!Whole, MP!Consistent
<1>5. /\ d \in ClientType /\ d.groups = new(Groups) /\ d.edited = c.edited
      /\ d.members = [h \in Members |-> new(h)] /\ d.registered = c.registered
      /\ d.orphaned = c.orphaned
  BY <1>1, <1>4 DEF ClientType, Kept
<1>. HIDE DEF d
<1>6. \A h \in Members : Placed(c, h) => Placed(d, h)
  BY <1>2, <1>5 DEF Placed
<1>7. Kept(d)
  BY <1>2, <1>3, <1>5, <1>6 DEF Kept
<1>. QED  BY <1>7 DEF d

(***************************************************************************)
(* What the backend makes the tables do                                    *)
(***************************************************************************)

\* Table u keeps no backup that t has not got.
NoNewBackup(t, u, ids) == \A i \in ids : u.backups[i] \in {t.backups[i], GP!NoRow}

LEMMA MemberTold ==
  ASSUME NEW c, Kept(c), NEW h \in Members, NEW u, MP!Whole(u),
         NoNewBackup(c.members[h], u, Voters)
  PROVE  Kept(Becomes(c, h, u))
<1> DEFINE d == Becomes(c, h, u)
<1>1. c \in ClientType /\ u \in MP!TableType
  BY DEF Kept, MP!Whole, MP!Consistent
<1>2. /\ d \in ClientType /\ d.groups = c.groups /\ d.registered = c.registered
      /\ d.orphaned = c.orphaned /\ d.members = [c.members EXCEPT ![h] = MP!Quiet(u)]
      /\ c.edited \ {h} \subseteq d.edited /\ (MP!Backups(u) # {} => c.edited = d.edited)
  BY <1>1, Hearing
<1>3. MP!Backups(u) # {} => MP!Backups(c.members[h]) # {}
  BY SameTables, ConstantsFit DEF NoNewBackup, MP!Backups
<1>. HIDE DEF d
<1>4. MP!Backups(u) # {} => h \in d.edited /\ Placed(c, h)
  BY <1>2, <1>3 DEF Kept
<1>5. Kept(d)
  BY <1>2, <1>4, MemberReplaced
<1>. QED  BY <1>5 DEF d

\* Nothing that happens in a members table is seen in the groups table.
LEMMA MembersOnly ==
  ASSUME NEW c, NEW h \in Members, NEW u, c \in ClientType
  PROVE  Becomes(c, h, u).groups = c.groups
<1> DEFINE after == Replaced(c, [k \in {h} |-> u])
<1>1. Groups # h
  BY ConstantsFit
<1>2. after.groups = c.groups /\ DOMAIN after = DOMAIN c
  BY <1>1 DEF Replaced, Table, ClientType
<1>. HIDE DEF after
<1>. QED  BY <1>2 DEF Becomes, Heard, after, ClientType

LEMMA GroupsTold ==
  ASSUME NEW c, Kept(c), NEW u, GP!Whole(u), NoNewBackup(c.groups, u, Scopes),
         \A i \in DraftGroupIds : MP!Backups(c.members[i]) # {} => i \in GP!Present(u)
  PROVE  Kept(GroupsBecome(c, u)) /\ GroupsBecome(c, u).members = c.members
<1> DEFINE d == GroupsBecome(c, u)
<1>1. c \in ClientType /\ u \in GP!TableType
  BY DEF Kept, GP!Whole, GP!Consistent
<1>2. /\ d \in ClientType /\ d.groups = GP!Quiet(u) /\ d.members = c.members
      /\ c.registered \subseteq d.registered /\ d.orphaned = c.orphaned
      /\ c.edited \ {Groups} \subseteq d.edited /\ (GP!Backups(u) # {} => c.edited = d.edited)
  BY <1>1, GroupsHearing
<1>3. GP!Backups(u) # {} => GP!Backups(c.groups) # {}
  BY ConstantsFit DEF NoNewBackup, GP!Backups
<1>. HIDE DEF d
<1>4. GP!Backups(u) # {} => Groups \in d.edited
  BY <1>2, <1>3 DEF Kept
<1>5. Kept(d)
  BY <1>2, <1>4, GroupsReplaced
<1>. QED  BY <1>2, <1>5 DEF d

\* The members tables that have edits are the same in c and d, under other IDs perhaps.
SameEdits(c, d) ==
    \E moved \in Bijection(EditedMembers(c), EditedMembers(d)) :
        \A h \in EditedMembers(c) : d.members[moved[h]] = c.members[h]

LEMMA Unmoved ==
  ASSUME NEW c, NEW d, d.members = c.members
  PROVE  SameEdits(c, d)
<1> DEFINE S     == EditedMembers(c)
           moved == [h \in S |-> h]
<1>1. EditedMembers(d) = S
  BY DEF EditedMembers
<1>. HIDE DEF S
<1>2. moved \in Bijection(S, S)
  BY DEF Bijection, Injection, Surjection, IsInjective
<1>3. \A h \in S : d.members[moved[h]] = c.members[h]
  OBVIOUS
<1>. QED  BY <1>1, <1>2, <1>3 DEF SameEdits, S

\* One table goes to a place that no table with edits takes, and leaves its own to a new one.
LEMMA MovedOnce ==
  ASSUME NEW c, c.members \in [Members -> MP!TableType], NEW old \in Members, NEW to \in Members,
         old # to, MP!Backups(c.members[to]) = {}, NEW new, MP!Backups(new) = {}, NEW d,
         d.members = [c.members EXCEPT ![to] = c.members[old], ![old] = new]
  PROVE  SameEdits(c, d)
<1> DEFINE S     == EditedMembers(c)
           T     == EditedMembers(d)
           moved == [h \in S |-> IF h = old THEN to ELSE h]
<1>1. /\ d.members[old] = new /\ d.members[to] = c.members[old]
      /\ \A h \in Members \ {old, to} : d.members[h] = c.members[h]
  OBVIOUS
<1>2. /\ S \subseteq Members /\ to \notin S /\ old \notin T
      /\ old \in S <=> to \in T
      /\ \A h \in Members \ {old, to} : h \in S <=> h \in T
  BY <1>1, SameSets DEF EditedMembers
<1>3. T \subseteq Members
  BY DEF EditedMembers
<1>. HIDE DEF S, T
<1>4. moved \in [S -> T]
  BY <1>2
<1>5. \A g, h \in S : moved[g] = moved[h] => g = h
  BY <1>2
<1>6. \A k \in T : \E h \in S : moved[h] = k
  <2>1. ASSUME NEW k \in T  PROVE \E h \in S : moved[h] = k
    <3>1. CASE k = to
      BY <1>2, <2>1, <3>1
    <3>2. CASE k # to
      <4>1. k \in S /\ k # old
        BY <1>2, <1>3, <2>1, <3>2
      <4>. QED  BY <4>1
    <3>. QED  BY <3>1, <3>2
  <2>. QED  BY <2>1
<1>7. \A h \in S : d.members[moved[h]] = c.members[h]
  BY <1>1, <1>2
<1>8. moved \in Bijection(S, T)
  <2>1. DOMAIN moved = S
    OBVIOUS
  <2>. HIDE DEF moved
  <2>. QED  BY <1>4, <1>5, <1>6, <2>1 DEF Bijection, Injection, Surjection, IsInjective
<1>. QED  BY <1>7, <1>8 DEF SameEdits, S, T

\* The members drafted for a group go to the group's ID, or to a place of their own.
LEMMA rescopeKept ==
  ASSUME NEW c, Kept(c), NEW old \in DraftGroupIds, NEW new \in GroupIds,
         new \in c.registered => c.orphaned # Orphans
  PROVE  LET d == rescopeGroupMembersTable(c, old, new)
         IN  /\ Kept(d) /\ d.groups = c.groups
             /\ MP!Backups(d.members[old]) = {}
             /\ \A i \in DraftGroupIds \ {old} : d.members[i] = c.members[i]
             /\ SameEdits(c, d)
<1> DEFINE place == CHOOSE o \in Orphans \ c.orphaned : TRUE
           to == IF new \in c.registered THEN place ELSE new
           d  == rescopeGroupMembersTable(c, old, new)
<1>0. new \in c.registered => place \in Orphans \ c.orphaned
  <2>1. c.orphaned \subseteq Orphans
    BY DEF Kept, ClientType
  <2>. QED  BY <2>1
<1>. HIDE DEF place
<1>1. /\ old \in Scopes /\ new \in Scopes /\ old # new /\ new \notin DraftGroupIds
      /\ old \in Members /\ to \in Members /\ to # old /\ to # Groups /\ old # Groups
      /\ to \notin DraftGroupIds /\ \A h \in Orphans : h \notin Scopes
      /\ to \in Scopes \ c.registered \/ to \in Orphans \ c.orphaned
  BY <1>0, ConstantsFit DEF Members, Scopes
<1>2. CASE old \notin c.registered
  <2>1. d = c
    BY <1>2 DEF rescopeGroupMembersTable
  <2>2. MP!Backups(c.members[old]) = {}
    BY <1>1, <1>2 DEF Kept, Placed
  <2>. QED  BY <2>1, <2>2, Unmoved
<1>3. CASE old \in c.registered
  <2> DEFINE edited == IF old \in c.edited THEN (c.edited \ {old}) \cup {to} ELSE c.edited
             registered == (c.registered \ {old}) \cup ({to} \cap Scopes)
             orphaned == c.orphaned \cup ({to} \ Scopes)
             members == [c.members EXCEPT ![to] = c.members[old], ![old] = MP!NewTable]
  <2>1. d = [c EXCEPT !.members = members, !.registered = registered, !.orphaned = orphaned,
                      !.edited = edited]
    BY <1>3, SameTables DEF rescopeGroupMembersTable, place, Kept, ClientType
  <2>2. MP!Whole(MP!NewTable) /\ MP!Backups(MP!NewTable) = {}
    BY MP!NewTableWhole
  <2>3. /\ members[old] = MP!NewTable /\ members[to] = c.members[old]
        /\ \A k \in Members \ {old, to} : members[k] = c.members[k]
        /\ members \in [Members -> MP!TableType]
    BY <1>1, <2>2 DEF Kept, ClientType, MP!Whole, MP!Consistent
  <2>12. MP!Backups(c.members[to]) = {}
    BY <1>1 DEF Kept, Placed
  <2>. HIDE DEF to
  <2>13. ASSUME NEW e, e.members = members  PROVE SameEdits(c, e)
    <3> DEFINE fresh == MP!NewTable
    <3>1. c.members \in [Members -> MP!TableType]
      BY DEF Kept, ClientType
    <3>2. e.members = [c.members EXCEPT ![to] = c.members[old], ![old] = fresh]
      BY <2>13
    <3>3. MP!Backups(fresh) = {}
      BY <2>2
    <3>. HIDE DEF fresh, members
    <3>. QED  BY <1>1, <2>12, <3>1, <3>2, <3>3, MovedOnce
  <2>. HIDE DEF members
  <2>4. edited \subseteq Members \cup {Groups} /\ registered \subseteq Scopes
        /\ orphaned \subseteq Orphans
    BY <1>1 DEF Kept, ClientType, Members
  <2>5. c.edited \ {old} \subseteq edited /\ (old \in c.edited => to \in edited)
    OBVIOUS
  <2>6. /\ c.registered \ {old} \subseteq registered /\ (to \in Scopes => to \in registered)
        /\ c.orphaned \subseteq orphaned /\ (to \notin Scopes => to \in orphaned)
    OBVIOUS
  <2>. HIDE DEF edited, registered, orphaned
  <2>7. /\ d \in ClientType /\ d.groups = c.groups /\ d.members = members
        /\ d.registered = registered /\ d.orphaned = orphaned /\ d.edited = edited
    BY <2>1, <2>3, <2>4 DEF Kept, ClientType
  <2>. HIDE DEF d
  <2>8. ASSUME NEW h \in Members
        PROVE  /\ MP!Whole(members[h])
               /\ MP!Backups(members[h]) # {} => h \in edited /\ Placed(d, h)
    <3>1. CASE h = old
      BY <2>2, <2>3, <3>1
    <3>2. CASE h = to
      BY <1>1, <2>3, <2>5, <2>6, <2>7, <3>2 DEF Kept, Placed
    <3>3. CASE h \notin {old, to}
      BY <1>1, <2>3, <2>5, <2>6, <2>7, <3>3 DEF Kept, Placed
    <3>. QED  BY <3>1, <3>2, <3>3
  <2>9. GP!Backups(c.groups) # {} => Groups \in edited
    BY <1>1, <2>5 DEF Kept
  <2>10. Kept(d)
    BY <2>7, <2>8, <2>9 DEF Kept
  <2>11. \A i \in DraftGroupIds \ {old} : members[i] = c.members[i]
    BY <1>1, <2>3 DEF Members, Scopes
  <2>. QED  BY <2>2, <2>3, <2>7, <2>10, <2>11, <2>13 DEF d
<1>. QED  BY <1>2, <1>3

\* A group's row has come, and has perhaps settled a drafted group.
LEMMA GroupSettlesKept ==
  ASSUME NEW c, Kept(c), NEW id \in GroupIds, NEW u, GP!Whole(u),
         NoNewBackup(c.groups, u, Scopes), GP!TakesAddition(c.groups, u, id),
         OrphanFits(c, id, u)
  PROVE  Kept(GroupSettles(c, id, u)) /\ SameEdits(c, GroupSettles(c, id, u))
<1> DEFINE t == c.groups
           drafted == SettledDraft(c, u)
           moved == rescopeGroupMembersTable(c, Min(drafted), id)
<1>1. /\ id \notin DraftGroupIds
      /\ DraftGroupIds \subseteq GP!Ids /\ DraftGroupIds \subseteq Members
  BY ConstantsFit DEF Scopes, Members
<1>2. \A i \in DraftGroupIds : MP!Backups(c.members[i]) # {} => i \in GP!Present(t)
  BY <1>1 DEF Kept, Placed
<1>3. CASE u.added = t.added /\ \A i \in GP!Ids \ {id} : u.rows[i] = t.rows[i]
  <2>1. drafted = {}
    BY <1>3 DEF SettledDraft
  <2>2. \A i \in DraftGroupIds : MP!Backups(c.members[i]) # {} => i \in GP!Present(u)
    BY <1>1, <1>2, <1>3 DEF GP!Present
  <2>3. Kept(GroupsBecome(c, u)) /\ GroupsBecome(c, u).members = c.members
    BY <2>2, GroupsTold
  <2>4. GroupSettles(c, id, u) = GroupsBecome(c, u)
    BY <2>1 DEF GroupSettles
  <2>. QED  BY <2>3, <2>4, Unmoved
<1>4. ASSUME NEW a \in t.added, u.added = t.added \ {a}, GP!Settled(a.id) \in u.emitted,
             \A i \in GP!Ids \ {id, a.id} : u.rows[i] = t.rows[i]
      PROVE  Kept(GroupSettles(c, id, u)) /\ SameEdits(c, GroupSettles(c, id, u))
  <2>1. a.id \in DraftGroupIds /\ a.id \in Nat
    BY ControllerAssumption DEF Kept, GP!Whole
  <2>2. drafted = {a.id}
    <3>1. t.added \ u.added = {a}
      BY <1>4
    <3>2. GP!Settled(a.id).signal = "pendingEditSettled" /\ GP!Settled(a.id).id = a.id
      BY DEF GP!Settled
    <3>3. a.id \in Signalled(u, "pendingEditSettled")
      <4>. HIDE DEF GP!Settled
      <4>. QED  BY <1>4, <3>2 DEF Signalled
    <3>. QED  BY <3>1, <3>3 DEF SettledDraft
  <2>. HIDE DEF drafted
  <2>3. Min(drafted) = a.id
    BY <2>1, <2>2 DEF Min
  <2>4. /\ Kept(moved) /\ moved.groups = t
        /\ MP!Backups(moved.members[a.id]) = {}
        /\ \A i \in DraftGroupIds \ {a.id} : moved.members[i] = c.members[i]
        /\ SameEdits(c, moved)
    <3>1. moved = rescopeGroupMembersTable(c, a.id, id)
      BY <2>3
    <3>2. id \in c.registered => c.orphaned # Orphans
      BY <2>2 DEF OrphanFits, drafted
    <3>. HIDE DEF moved
    <3>. QED  BY <2>1, <3>1, <3>2, rescopeKept
  <2>. HIDE DEF moved
  <2>5. \A i \in DraftGroupIds : MP!Backups(moved.members[i]) # {} => i \in GP!Present(u)
    BY <1>1, <1>2, <1>4, <2>4 DEF GP!Present
  <2>6. Kept(GroupsBecome(moved, u)) /\ GroupsBecome(moved, u).members = moved.members
    BY <2>4, <2>5, GroupsTold
  <2>7. GroupSettles(c, id, u) = GroupsBecome(moved, u)
    BY <2>2 DEF GroupSettles, moved, drafted
  <2>8. SameEdits(c, GroupsBecome(moved, u))
    BY <2>4, <2>6 DEF SameEdits, EditedMembers
  <2>. QED  BY <2>6, <2>7, <2>8
<1>. QED  BY <1>3, <1>4 DEF GP!TakesAddition

LEMMA GroupArrivesKept ==
  ASSUME NEW c, Kept(c), NEW id \in GroupIds, NEW name \in Names, NEW row,
         row = RowArrives(c.groups, id, name, G!Present(c.groups), G!PlaceRow(c.groups, id, name)),
         OrphanFits(c, id, row)
  PROVE  Kept(GroupSettles(c, id, row)) /\ SameEdits(c, GroupSettles(c, id, row))
<1> DEFINE t == c.groups
           u == RowArrives(t, id, name, G!Present(t), G!PlaceRow(t, id, name))
           loaded == [t EXCEPT !.rows[id] = [state |-> "Loaded", content |-> name]]
           placed == GP!PlaceRow(t, id, name)
<1>1. /\ GP!Whole(loaded) /\ loaded.backups = t.backups /\ loaded.added = t.added
      /\ \A i \in GP!Ids \ {id} : loaded.rows[i] = t.rows[i]
  <2>1. id \in GP!Ids
    BY DEF GP!Ids
  <2>. QED  BY <2>1, GP!LoadedWhole DEF Kept
<1>2. /\ GP!Whole(placed) /\ GP!TakesAddition(t, placed, id)
      /\ \A i \in GP!Ids : placed.backups[i] \in {t.backups[i], GP!NoRow}
  BY GP!PlaceRowWhole, ConstantsFit DEF Kept
<1>3. u \in {loaded, placed}
  BY SamePlacing DEF RowArrives
<1>6. u = row
  OBVIOUS
<1>. HIDE DEF u, loaded, placed
<1>4. /\ GP!Whole(u) /\ GP!TakesAddition(t, u, id)
      /\ NoNewBackup(t, u, Scopes)
  BY <1>1, <1>2, <1>3, ConstantsFit DEF GP!TakesAddition, NoNewBackup
<1>5. Kept(GroupSettles(c, id, u)) /\ SameEdits(c, GroupSettles(c, id, u))
  BY <1>4, <1>6, GroupSettlesKept
<1>. QED  BY <1>5, <1>6

LEMMA MemberArrivesKept ==
  ASSUME NEW c, Kept(c), NEW h \in Members, NEW voter \in Voters, NEW weight \in Weights
  PROVE  Kept(Becomes(c, h, RowArrives(c.members[h], voter, weight, M!Present(c.members[h]),
                                       M!PlaceRow(c.members[h], voter, weight))))
<1> DEFINE t == c.members[h]
           u == RowArrives(t, voter, weight, M!Present(t), M!PlaceRow(t, voter, weight))
           loaded == [t EXCEPT !.rows[voter] = [state |-> "Loaded", content |-> weight]]
           placed == MP!PlaceRow(t, voter, weight)
<1>1. MP!Whole(loaded) /\ loaded.backups = t.backups
  BY MP!LoadedWhole, ConstantsFit DEF Kept
<1>2. /\ MP!Whole(placed)
      /\ \A i \in MP!Ids : placed.backups[i] \in {t.backups[i], MP!NoRow}
  BY MP!PlaceRowWhole, ConstantsFit DEF Kept
<1>3. u \in {loaded, placed}
  BY SamePlacing DEF RowArrives
<1>. HIDE DEF u, loaded, placed
<1>4. MP!Whole(u) /\ NoNewBackup(t, u, Voters)
  BY <1>1, <1>2, <1>3, ConstantsFit, SameTables DEF NoNewBackup
<1>5. Kept(Becomes(c, h, u))
  BY <1>4, MemberTold
<1>. QED  BY <1>5 DEF u

LEMMA GroupGoesOrStales ==
  ASSUME NEW c, Kept(c), NEW id \in GroupIds
  PROVE  LET d == GroupsBecome(c, G!DeleteRow(c.groups, id))
             e == GroupsBecome(c, G!MarkedStale(c.groups, id))
         IN  Kept(d) /\ d.members = c.members /\ Kept(e) /\ e.members = c.members
<1> DEFINE t == c.groups
           gone  == GP!DeleteRow(t, id)
           stale == GP!MarkedStale(t, id)
<1>1. /\ id \notin DraftGroupIds /\ id \in GP!Ids
      /\ DraftGroupIds \subseteq GP!Ids /\ DraftGroupIds \subseteq Members
  BY ConstantsFit DEF Scopes, Members
<1>2. \A i \in DraftGroupIds : MP!Backups(c.members[i]) # {} => i \in GP!Present(t)
  BY <1>1 DEF Kept, Placed
<1>3. /\ GP!Whole(gone) /\ \A i \in GP!Ids : gone.backups[i] \in {t.backups[i], GP!NoRow}
      /\ \A i \in GP!Ids \ {id} : gone.rows[i] = t.rows[i]
  BY <1>1, GP!DeleteRowWhole DEF Kept
<1>4. /\ GP!Whole(stale) /\ \A i \in GP!Ids : stale.backups[i] \in {t.backups[i], GP!NoRow}
      /\ \A i \in GP!Ids : t.rows[i] # GP!NoRow => stale.rows[i] # GP!NoRow
  BY <1>1, GP!MarkedStaleWhole, ConstantsFit DEF Kept
<1>5. G!DeleteRow(c.groups, id) = gone /\ G!MarkedStale(c.groups, id) = stale
  BY SameDeletion
<1>. HIDE DEF gone, stale
<1>6. /\ NoNewBackup(t, gone, Scopes) /\ NoNewBackup(t, stale, Scopes)
      /\ \A i \in DraftGroupIds : i \in GP!Present(t) => i \in GP!Present(gone)
                                                         /\ i \in GP!Present(stale)
  BY <1>1, <1>3, <1>4, ConstantsFit DEF NoNewBackup, GP!Present
<1>. QED  BY <1>2, <1>3, <1>4, <1>5, <1>6, GroupsTold

LEMMA MemberGoesOrStales ==
  ASSUME NEW c, Kept(c), NEW h \in Members, NEW voter \in Voters
  PROVE  /\ Kept(Becomes(c, h, M!DeleteRow(c.members[h], voter)))
         /\ Kept(Becomes(c, h, M!MarkedStale(c.members[h], voter)))
<1> DEFINE t == c.members[h]
           gone  == MP!DeleteRow(t, voter)
           stale == MP!MarkedStale(t, voter)
<1>1. MP!Whole(gone) /\ \A i \in MP!Ids : gone.backups[i] \in {t.backups[i], MP!NoRow}
  BY MP!DeleteRowWhole, ConstantsFit DEF Kept
<1>2. MP!Whole(stale) /\ \A i \in MP!Ids : stale.backups[i] \in {t.backups[i], MP!NoRow}
  BY MP!MarkedStaleWhole, ConstantsFit DEF Kept
<1>3. M!DeleteRow(t, voter) = gone /\ M!MarkedStale(t, voter) = stale
  BY SameDeletion
<1>. HIDE DEF gone, stale
<1>4. NoNewBackup(t, gone, Voters) /\ NoNewBackup(t, stale, Voters)
  BY <1>1, <1>2, ConstantsFit, SameTables DEF NoNewBackup
<1>. QED  BY <1>1, <1>2, <1>3, <1>4, MemberTold

(***************************************************************************)
(* The theorems                                                            *)
(***************************************************************************)

\* The inductive invariant.
IInv == TypeOK /\ Kept(client)

LEMMA StartsKept == Init => Kept(client)
<1>1. SUFFICES ASSUME Init  PROVE Kept(client)
  OBVIOUS
<1>2. ASSUME NEW h \in Members
      PROVE  MP!Whole(client.members[h]) /\ MP!Backups(client.members[h]) = {}
  <2>1. CASE h \in DOMAIN StartGroups
    <3> DEFINE t == MP!NewTable
               u == [t EXCEPT !.rows = [i \in Voters |->
                        IF i \in DOMAIN StartVoters
                        THEN [state |-> "Loaded", content |-> StartVoters[i]] ELSE t.rows[i]]]
    <3>1. client.members[h] = u
      BY <1>1, <2>1, SameTables, ConstantsFit DEF Init, Loaded, MP!NewTable
    <3>2. /\ t \in MP!TableType
          /\ \A i \in Voters : t.rows[i] = MP!NoRow /\ t.backups[i] = MP!NoRow
          /\ t.added = {} /\ t.pendingEdits = FALSE
      BY MP!NewTableWhole, ConstantsFit DEF MP!NewTable, MP!Whole, MP!Consistent
    <3>. HIDE DEF t
    <3>3. \A i \in DOMAIN StartVoters : StartVoters[i] \in Weights
      BY ControllerAssumption DEF Range
    <3>4. /\ u.backups = t.backups /\ u.added = t.added /\ u.pendingEdits = t.pendingEdits
          /\ \A i \in Voters : u.rows[i] \in MP!FreshRows
      BY <3>2, <3>3, ConstantsFit DEF MP!TableType, MP!FreshRows
    <3>5. u \in MP!TableType
      BY <3>2, <3>3, ConstantsFit DEF MP!TableType, MP!Row, MP!LoadStates
    <3>. HIDE DEF u
    <3>. QED  BY <3>1, <3>2, <3>4, <3>5, MP!FreshWhole, ConstantsFit
  <2>2. CASE h \notin DOMAIN StartGroups
    BY <1>1, <2>2, MP!NewTableWhole, SameTables DEF Init
  <2>. QED  BY <2>1, <2>2
<1>3. GP!Whole(client.groups) /\ GP!Backups(client.groups) = {}
  <2> DEFINE t == GP!NewTable
             u == [t EXCEPT !.rows = [i \in Scopes |->
                      IF i \in DOMAIN StartGroups
                      THEN [state |-> "Loaded", content |-> StartGroups[i]] ELSE t.rows[i]]]
  <2>1. client.groups = u
    BY <1>1, SameTables, ConstantsFit DEF Init, Loaded, GP!NewTable
  <2>2. /\ t \in GP!TableType
        /\ \A i \in Scopes : t.rows[i] = GP!NoRow /\ t.backups[i] = GP!NoRow
        /\ t.added = {} /\ t.pendingEdits = FALSE
    BY GP!NewTableWhole, ConstantsFit DEF GP!NewTable, GP!Whole, GP!Consistent
  <2>. HIDE DEF t
  <2>3. \A i \in DOMAIN StartGroups : StartGroups[i] \in Names
    BY ControllerAssumption DEF Range
  <2>4. /\ u.backups = t.backups /\ u.added = t.added /\ u.pendingEdits = t.pendingEdits
        /\ \A i \in Scopes : u.rows[i] \in GP!FreshRows
    BY <2>2, <2>3, ConstantsFit DEF GP!TableType, GP!FreshRows
  <2>5. u \in GP!TableType
    BY <2>2, <2>3, ConstantsFit DEF GP!TableType, GP!Row, GP!LoadStates
  <2>. HIDE DEF u
  <2>. QED  BY <2>1, <2>2, <2>4, <2>5, GP!FreshWhole, ConstantsFit
<1>4. client \in ClientType
  <2>1. /\ client.groups \in GP!TableType
        /\ \A h \in Members : client.members[h] \in MP!TableType
    BY <1>2, <1>3 DEF GP!Whole, GP!Consistent, MP!Whole, MP!Consistent
  <2>2. DOMAIN StartGroups \subseteq Scopes
    BY ControllerAssumption DEF Scopes
  <2>. QED  BY <1>1, <2>1, <2>2 DEF Init, ClientType
<1>. QED  BY <1>2, <1>3, <1>4 DEF Kept

\* Drafting the active transaction again, in tables that have been reset.
Redrafted(c, actions) == applyActions(resetEdits(c), actions)

LEMMA DraftedAgain ==
  ASSUME NEW c, Kept(c), NEW list, NEW trx,
         trx = NoneActive \/ list[trx].actions \in Seq(Actions)
  PROVE  Kept(Redrafted(c, ActionsOf(list, trx)))
<1>1. Kept(resetEdits(c))
  BY resetEditsKept
<1>2. ActionsOf(list, trx) \in Seq(Actions)
  BY DEF ActionsOf
<1>. QED  BY <1>1, <1>2, applyActionsKept DEF Redrafted

Entry == [status : {"none", "Draft", "Authorizing", "Pending", "Confirmed", "Failed"},
          actions : Seq(Actions)]

\* What TypeOK says of everything but the client.
ListOK ==
    /\ trxs \in [Transactions -> Entry]
    /\ active \in Transactions \cup {NoneActive}
    /\ active # NoneActive => trxs[active] # NoTransaction
    /\ changes \in 0 .. MaxChanges
    /\ aborted \in BOOLEAN

LEMMA Typed == IInv <=> Kept(client) /\ ListOK
<1>1. TypeOK <=> client \in ClientType /\ ListOK
  BY SameTables DEF TypeOK, ClientType, ListOK, Entry
<1>. QED  BY <1>1 DEF IInv, Kept

LEMMA TypedNext == Kept(client') /\ ListOK' => IInv'
<1>1. client' \in ClientType /\ ListOK' => TypeOK'
  BY SameTables DEF TypeOK, ClientType, ListOK, Entry
<1>. QED  BY <1>1 DEF IInv, Kept

LEMMA StatusChanged ==
  ASSUME NEW list \in [Transactions -> Entry], NEW trx \in Transactions,
         NEW status \in {"Draft", "Authorizing", "Pending", "Confirmed", "Failed"},
         NEW l, l = [list EXCEPT ![trx].status = status]
  PROVE  /\ l \in [Transactions -> Entry]
         /\ \A t \in Transactions : list[t] # NoTransaction => l[t] # NoTransaction
  BY DEF Entry, NoTransaction

LEMMA ActionsReplaced ==
  ASSUME NEW list \in [Transactions -> Entry], NEW trx \in Transactions,
         NEW actions \in Seq(Actions), NEW l, l = [list EXCEPT ![trx].actions = actions]
  PROVE  /\ l \in [Transactions -> Entry]
         /\ \A t \in Transactions : l[t].status = list[t].status
  BY DEF Entry

LEMMA createTransactionKept ==
  ASSUME IInv, NEW trx \in Transactions, NEW actions \in Seq(Actions),
         createTransaction(trx, actions)
  PROVE  /\ Kept(client')
         /\ trxs' \in [Transactions -> Entry] /\ active' \in Transactions \cup {NoneActive}
         /\ active' # NoneActive => trxs'[active'] # NoTransaction
         /\ aborted' \in BOOLEAN
<1>1. Kept(client) /\ ListOK
  BY Typed
<1>2. /\ trxs' = [trxs EXCEPT ![trx] = [status |-> "Draft", actions |-> actions]]
      /\ active' = trx
  BY DEF createTransaction
<1>3. /\ trxs' \in [Transactions -> Entry]
      /\ trxs'[trx] = [status |-> "Draft", actions |-> actions]
  BY <1>1, <1>2 DEF ListOK, Entry
<1>4. Kept(Redrafted(client, ActionsOf(trxs', trx)))
  BY <1>1, <1>3, DraftedAgain
<1>5. Kept(client') /\ aborted' \in BOOLEAN
  BY <1>1, <1>4 DEF createTransaction, ActionsChanged, Redrafted, MayAbort, ListOK
<1>. QED  BY <1>2, <1>3, <1>5 DEF NoTransaction

LEMMA UserStepKept == IInv /\ UserStep => IInv'
<1>1. SUFFICES ASSUME IInv, UserStep  PROVE Kept(client') /\ ListOK'
  BY TypedNext
<1>2. Kept(client) /\ ListOK
  BY <1>1, Typed
<1>3. ASSUME NEW a \in Actions, addAction(a)  PROVE Kept(client') /\ ListOK'
  <2>1. CASE active # NoneActive /\ trxs[active].status = "Draft"
    <3> DEFINE actions == Append(trxs[active].actions, a)
    <3>1. active \in Transactions /\ trxs \in [Transactions -> Entry]
      BY <1>2, <2>1 DEF ListOK
    <3>2. actions \in Seq(Actions)
      BY <3>1 DEF Entry
    <3>3. /\ trxs' = [trxs EXCEPT ![active].actions = actions]
          /\ ActionsChanged(client, trxs', active) /\ active' = active /\ changes' = changes
      BY <1>3, <2>1 DEF addAction
    <3>. HIDE DEF actions
    <3>4. /\ trxs' \in [Transactions -> Entry]
          /\ trxs'[active].status = trxs[active].status
      BY <3>1, <3>2, <3>3, ActionsReplaced
    <3>5. Kept(Redrafted(client, ActionsOf(trxs', active)))
      <4>1. trxs'[active].actions \in Seq(Actions)
        BY <3>1, <3>4 DEF Entry
      <4>. QED  BY <1>2, <4>1, DraftedAgain
    <3>. QED  BY <1>2, <2>1, <3>3, <3>4, <3>5 DEF ActionsChanged, Redrafted, MayAbort, ListOK, NoTransaction
  <2>2. CASE ~(active # NoneActive /\ trxs[active].status = "Draft")
    <3>1. PICK trx \in Transactions : createTransaction(trx, <<a>>)
      BY <1>3, <2>2 DEF addAction
    <3>2. <<a>> \in Seq(Actions) /\ changes' = changes
      BY <1>3 DEF addAction
    <3>. QED  BY <1>1, <1>2, <3>1, <3>2, createTransactionKept DEF ListOK
  <2>. QED  BY <2>1, <2>2
<1>4. ASSUME NEW trx \in Transactions, CreateClicked(trx)  PROVE Kept(client') /\ ListOK'
  <2>1. createTransaction(trx, <<>>) /\ <<>> \in Seq(Actions) /\ changes' = changes
    BY <1>4 DEF CreateClicked
  <2>. QED  BY <1>1, <1>2, <2>1, createTransactionKept DEF ListOK
<1>5. ASSUME NEW trx \in Transactions, TransactionClicked(trx)  PROVE Kept(client') /\ ListOK'
  <2>1. trxs[trx].actions \in Seq(Actions)
    BY <1>2 DEF ListOK, Entry
  <2>2. Kept(Redrafted(client, ActionsOf(trxs, trx)))
    BY <1>2, <2>1, DraftedAgain
  <2>. QED  BY <1>2, <1>5, <2>2 DEF TransactionClicked, ActionsChanged, Redrafted, MayAbort, ListOK
<1>6. ASSUME NEW trx \in Transactions, NEW k \in 1 .. MaxActions, DeleteActionClicked(trx, k)
      PROVE  Kept(client') /\ ListOK'
  <2> DEFINE actions == RemoveAt(trxs[trx].actions, k)
  <2>1. trxs \in [Transactions -> Entry]
    BY <1>2 DEF ListOK
  <2>2. actions \in Seq(Actions)
    <3>1. trxs[trx].actions \in Seq(Actions) /\ k \in DOMAIN trxs[trx].actions
      BY <1>6, <2>1 DEF DeleteActionClicked, Entry
    <3>. QED  BY <3>1 DEF RemoveAt
  <2>3. /\ trxs' = [trxs EXCEPT ![trx].actions = actions]
        /\ active' = active /\ changes' = changes
        /\ trxs[trx].status = "Draft"
        /\ IF trx = active THEN ActionsChanged(client, trxs', trx)
                           ELSE UNCHANGED <<client, aborted>>
    BY <1>6 DEF DeleteActionClicked
  <2>. HIDE DEF actions
  <2>4. /\ trxs' \in [Transactions -> Entry]
        /\ \A t \in Transactions : trxs'[t].status = trxs[t].status
        /\ trxs'[trx].actions \in Seq(Actions)
        /\ \A t \in Transactions : t # trx => trxs'[t] = trxs[t]
    BY <2>1, <2>2, <2>3, ActionsReplaced DEF Entry
  <2>5. Kept(Redrafted(client, ActionsOf(trxs', trx)))
    BY <1>2, <2>4, DraftedAgain
  <2>6. Kept(client') /\ aborted' \in BOOLEAN
    BY <1>2, <2>3, <2>5 DEF ActionsChanged, Redrafted, MayAbort, ListOK
  <2>7. active' # NoneActive => trxs'[active'] # NoTransaction
    <3>1. trxs'[trx] # NoTransaction
      BY <2>3, <2>4 DEF NoTransaction
    <3>. QED  BY <1>2, <2>3, <2>4, <3>1 DEF ListOK
  <2>. QED  BY <1>2, <2>3, <2>4, <2>6, <2>7 DEF ListOK
<1>7. ASSUME NEW trx \in Transactions, DeleteClicked(trx)  PROVE Kept(client') /\ ListOK'
  <2> DEFINE left == {t \in Transactions \ {trx} : trxs[t] # NoTransaction}
  <2>1. /\ trxs' = [trxs EXCEPT ![trx] = NoTransaction] /\ changes' = changes
        /\ IF trx = active
           THEN /\ active' \in IF left = {} THEN {NoneActive} ELSE left
                /\ ActionsChanged(client, trxs', active')
           ELSE /\ UNCHANGED active
                /\ \/ UNCHANGED <<client, aborted>>
                   \/ \E next \in (left \ {active}) \cup {NoneActive} : ActiveMovesUp(trxs', next)
    BY <1>7 DEF DeleteClicked
  <2>2. trxs' \in [Transactions -> Entry]
    <3>1. NoTransaction \in Entry
      BY DEF NoTransaction, Entry
    <3>. QED  BY <1>2, <2>1, <3>1 DEF ListOK
  <2>3. \A t \in Transactions \ {trx} : trxs'[t] = trxs[t]
    BY <1>2, <2>1 DEF ListOK
  <2>4. CASE trx = active
    <3>1. active' = NoneActive \/ active' \in left
      BY <2>1, <2>4
    <3>2. active' = NoneActive \/ trxs'[active'].actions \in Seq(Actions)
      BY <2>2, <3>1 DEF Entry
    <3>3. Kept(Redrafted(client, ActionsOf(trxs', active')))
      BY <1>2, <3>2, DraftedAgain
    <3>4. Kept(client') /\ aborted' \in BOOLEAN
      BY <1>2, <2>1, <2>4, <3>3 DEF ActionsChanged, Redrafted, MayAbort, ListOK
    <3>5. /\ active' \in Transactions \cup {NoneActive}
          /\ active' # NoneActive => trxs'[active'] # NoTransaction
      BY <2>3, <3>1
    <3>. QED  BY <1>2, <2>1, <2>2, <3>4, <3>5 DEF ListOK
  <2>5. CASE trx # active
    <3>1. /\ active' = active
          /\ active' # NoneActive => active \in Transactions /\ trxs'[active'] # NoTransaction
      BY <1>2, <2>1, <2>3, <2>5 DEF ListOK
    <3>2. CASE UNCHANGED <<client, aborted>>
      BY <1>2, <2>1, <2>2, <3>1, <3>2 DEF ListOK
    <3>3. ASSUME NEW next \in (left \ {active}) \cup {NoneActive}, ActiveMovesUp(trxs', next)
          PROVE  Kept(client') /\ ListOK'
      <4> DEFINE between == Redrafted(client, ActionsOf(trxs', next))
      <4>1. /\ next = NoneActive \/ trxs'[next].actions \in Seq(Actions)
            /\ active = NoneActive \/ trxs'[active].actions \in Seq(Actions)
        BY <2>2, <3>1 DEF Entry
      <4>2. Kept(between)
        BY <1>2, <4>1, DraftedAgain
      <4>. HIDE DEF between
      <4>3. Kept(Redrafted(between, ActionsOf(trxs', active)))
        BY <4>1, <4>2, DraftedAgain
      <4>4. Kept(client') /\ aborted' \in BOOLEAN
        BY <1>2, <3>3, <4>3 DEF ActiveMovesUp, Redrafted, MayAbort, ListOK, between
      <4>. QED  BY <1>2, <2>1, <2>2, <3>1, <4>4 DEF ListOK
    <3>. QED  BY <2>1, <2>5, <3>2, <3>3
  <2>. QED  BY <2>4, <2>5
<1>8. ASSUME NEW trx \in Transactions, RunClicked(trx)  PROVE Kept(client') /\ ListOK'
  BY <1>2, <1>8, StatusChanged DEF RunClicked, ListOK
<1>9. ASSUME NEW trx \in Transactions, Canceled(trx)  PROVE Kept(client') /\ ListOK'
  BY <1>2, <1>9, StatusChanged DEF Canceled, ListOK
<1>10. ASSUME NEW trx \in Transactions, Accepted(trx)  PROVE Kept(client') /\ ListOK'
  <2>1. Kept(client') /\ UNCHANGED <<active, changes, aborted>>
    BY <1>2, <1>10, transactionSubmittedKept DEF Accepted
  <2>2. /\ trxs' \in [Transactions -> Entry]
        /\ \A t \in Transactions : trxs[t] # NoTransaction => trxs'[t] # NoTransaction
    BY <1>2, <1>10, StatusChanged DEF Accepted, ListOK
  <2>. QED  BY <1>2, <2>1, <2>2 DEF ListOK
<1>. QED  BY <1>1, <1>3, <1>4, <1>5, <1>6, <1>7, <1>8, <1>9, <1>10 DEF UserStep

LEMMA ChainStepKept == IInv /\ ChainStep => IInv'
<1>1. SUFFICES ASSUME IInv, ChainStep  PROVE Kept(client') /\ ListOK'
  BY TypedNext
<1>2. Kept(client) /\ ListOK
  BY <1>1, Typed
<1>3. ASSUME NEW trx \in Transactions, Confirmed(trx)  PROVE Kept(client') /\ ListOK'
  BY <1>2, <1>3, StatusChanged DEF Confirmed, ListOK
<1>4. ASSUME NEW trx \in Transactions, Failed(trx)  PROVE Kept(client') /\ ListOK'
  <2>1. Kept(client') /\ aborted' \in BOOLEAN /\ UNCHANGED <<active, changes>>
    BY <1>2, <1>4, resetEditsKept DEF Failed, MayAbort, ListOK
  <2>2. /\ trxs' \in [Transactions -> Entry]
        /\ \A t \in Transactions : trxs[t] # NoTransaction => trxs'[t] # NoTransaction
    BY <1>2, <1>4, StatusChanged DEF Failed, ListOK
  <2>. QED  BY <1>2, <2>1, <2>2 DEF ListOK
<1>. QED  BY <1>1, <1>3, <1>4 DEF ChainStep

LEMMA TableStepKept == IInv /\ TableStep => IInv'
<1>1. SUFFICES ASSUME IInv, TableStep  PROVE Kept(client') /\ ListOK'
  BY TypedNext
<1>2. Kept(client) /\ ListOK
  BY <1>1, Typed
<1>3. BackendStep => ListOK'
  BY <1>2, ControllerAssumption DEF BackendStep, ListOK
<1>4. ASSUME NEW id \in GroupIds,
             \/ \E name \in Names : GroupArrives(id, name)
             \/ GroupDeleted(id)
             \/ GroupMarkedStale(id)
      PROVE  Kept(client') /\ BackendStep
  BY <1>2, <1>4, GroupArrivesKept, GroupGoesOrStales
     DEF GroupArrives, GroupDeleted, GroupMarkedStale
<1>5. ASSUME NEW h \in Real, NEW voter \in Voters,
             \/ \E weight \in Weights : MemberArrives(h, voter, weight)
             \/ MemberDeleted(h, voter)
             \/ MemberMarkedStale(h, voter)
      PROVE  Kept(client') /\ BackendStep
  <2>1. h \in Members
    BY <1>2 DEF Real, Members, Scopes, Kept, ClientType
  <2>. QED  BY <1>2, <1>5, <2>1, MemberArrivesKept, MemberGoesOrStales
            DEF MemberArrives, MemberDeleted, MemberMarkedStale
<1>. QED  BY <1>1, <1>3, <1>4, <1>5 DEF TableStep

LEMMA TimerFiresKept == IInv /\ TimerFires => IInv'
<1>1. SUFFICES ASSUME IInv, TimerFires  PROVE Kept(client') /\ ListOK'
  BY TypedNext
<1>2. Kept(client) /\ ListOK
  BY <1>1, Typed
<1> DEFINE c == [client EXCEPT !.timer = FALSE]
<1>3. Kept(c)
  BY <1>2 DEF Kept, ClientType, Placed
<1>. HIDE DEF c
<1>4. active = NoneActive \/ trxs[active].actions \in Seq(Actions)
  BY <1>2 DEF ListOK, Entry
<1>5. Kept(Redrafted(c, ActionsOf(trxs, active)))
  BY <1>3, <1>4, DraftedAgain
<1>6. client' = Redrafted(c, ActionsOf(trxs, active)) /\ aborted' \in BOOLEAN
  BY <1>1, <1>2 DEF TimerFires, ActionsChanged, Redrafted, MayAbort, ListOK, c
<1>. QED  BY <1>1, <1>2, <1>5, <1>6 DEF TimerFires, ListOK

\* Every table stays whole and tracked whatever the user, the chain and the backend do: the
\* invariant the theorems below follow from.
THEOREM Invariance == Spec => []IInv
<1>1. Init => IInv
  <2>1. Init => ListOK
    <3>1. NoTransaction \in Entry
      BY DEF NoTransaction, Entry
    <3>2. 0 \in 0 .. MaxChanges
      BY ControllerAssumption
    <3>. QED  BY <3>1, <3>2 DEF Init, ListOK
  <2>. QED  BY <2>1, StartsKept, Typed
<1>2. IInv /\ [Next]_vars => IInv'
  <2>1. IInv /\ UNCHANGED vars => IInv'
    <3>1. SUFFICES ASSUME IInv, UNCHANGED vars  PROVE Kept(client') /\ ListOK'
      BY TypedNext
    <3>. QED  BY <3>1, Typed DEF vars, ListOK
  <2>. QED
    BY <2>1, UserStepKept, ChainStepKept, TableStepKept, TimerFiresKept DEF Next
<1>. QED  BY <1>1, <1>2, PTL DEF Spec

\* Every variable keeps its type, through every draft, reset, rescope and arriving row.
THEOREM TypeCorrect == Spec => []TypeOK
<1>1. IInv => TypeOK
  BY DEF IInv
<1>. QED  BY <1>1, Invariance, PTL

\* A table that keeps a backup is among the edited tables, so that resetEdits and
\* transactionSubmitted reach it and the lock sees it.
THEOREM EditsTracked == Spec => []EditsAreTracked
<1>1. IInv => EditsAreTracked
  BY ConstantsFit, SameSets DEF IInv, Kept, EditsAreTracked, Backups
<1>. QED  BY <1>1, Invariance, PTL

\* Members are drafted under a draft ID only while the drafted group is there: the row that
\* settles it takes them along, and the reset that undoes it undoes them.
THEOREM DraftMembersGrouped == Spec => []DraftMembersHaveTheirGroup
<1>1. IInv => DraftMembersHaveTheirGroup
  <2>1. DraftGroupIds \subseteq Members
    BY DEF Members, Scopes
  <2>. QED  BY <2>1, SameSets DEF IInv, Kept, Placed, DraftMembersHaveTheirGroup
<1>. QED  BY <1>1, Invariance, PTL

\* What AbstractTable's proofs say of one table holds of the groups table and of each members
\* table, whoever else edits: a pending row has a backup from before its submission, and its
\* table is locked; and it is on the list, so that a failure undoes it.
PendingCanBeUndone ==
    /\ \A i \in G!Pending(client.groups) : /\ i \in G!Backups(client.groups)
                                          /\ client.groups.backups[i].state \notin G!PendingStates
                                          /\ client.groups.pendingEdits /\ Groups \in client.edited
    /\ \A h \in Members : \A i \in M!Pending(client.members[h]) :
          /\ i \in M!Backups(client.members[h])
          /\ client.members[h].backups[i].state \notin M!PendingStates
          /\ client.members[h].pendingEdits /\ h \in client.edited

\* In no table of the client can a pending edit be stuck: it locks its table, has its backup
\* and is reached by resetEdits.
THEOREM PendingUndoable == Spec => []PendingCanBeUndone
<1>1. IInv => PendingCanBeUndone
  <2>1. SUFFICES ASSUME Kept(client)  PROVE PendingCanBeUndone
    BY DEF IInv
  <2>2. ASSUME NEW i \in G!Pending(client.groups)
        PROVE  /\ i \in G!Backups(client.groups)
               /\ client.groups.backups[i].state \notin G!PendingStates
               /\ client.groups.pendingEdits /\ Groups \in client.edited
    <3>1. GP!PendingStates = G!PendingStates
      BY DEF GP!PendingStates, G!PendingStates
    <3>2. i \in GP!Ids /\ client.groups.rows[i].state \in GP!PendingStates
      BY SameSets DEF GP!Pending
    <3>3. i \in GP!Backups(client.groups) /\ client.groups.pendingEdits
          /\ client.groups.backups[i].state \notin GP!PendingStates
      BY <2>1, <3>2 DEF Kept, GP!Whole, GP!Consistent, GP!Backups
    <3>. QED  BY <2>1, <3>1, <3>3, SameSets DEF Kept
  <2>3. ASSUME NEW h \in Members, NEW i \in M!Pending(client.members[h])
        PROVE  /\ i \in M!Backups(client.members[h])
               /\ client.members[h].backups[i].state \notin M!PendingStates
               /\ client.members[h].pendingEdits /\ h \in client.edited
    <3>1. MP!PendingStates = M!PendingStates
      BY DEF MP!PendingStates, M!PendingStates
    <3>2. i \in MP!Ids /\ client.members[h].rows[i].state \in MP!PendingStates
      BY SameSets DEF MP!Pending
    <3>3. i \in MP!Backups(client.members[h]) /\ client.members[h].pendingEdits
          /\ client.members[h].backups[i].state \notin MP!PendingStates
      BY <2>1, <3>2 DEF Kept, MP!Whole, MP!Consistent, MP!Backups
    <3>. QED  BY <2>1, <3>1, <3>3, SameSets DEF Kept
  <2>. QED  BY <2>2, <2>3 DEF PendingCanBeUndone
<1>. QED  BY <1>1, Invariance, PTL

\* A transaction fails by undoing every pending row there is, in whichever tables.
THEOREM FailureUndoesAll == Spec => FailureLeavesNothingPending
<1> DEFINE Undone(trx) == trxs[trx].status # "Failed" /\ trxs'[trx].status = "Failed"
                            => PendingIn(client') = {}
<1>1. ASSUME IInv, Next, NEW trx \in Transactions, trxs[trx].status # "Failed",
             trxs'[trx].status = "Failed"
      PROVE  PendingIn(client') = {}
  <2>1. trxs \in [Transactions -> Entry] /\ Kept(client)
    BY <1>1, Typed DEF ListOK
  <2>2. ASSUME NEW t \in Transactions, Failed(t)  PROVE PendingIn(client') = {}
    BY <2>1, <2>2, resetEditsKept DEF Failed
  <2>3. CASE UserStep
    <3>1. \A t \in Transactions : \A actions :
             createTransaction(t, actions) => trxs'[trx].status # "Failed"
      BY <1>1, <2>1 DEF createTransaction
    <3>2. ASSUME NEW a \in Actions, addAction(a)  PROVE FALSE
      BY <1>1, <2>1, <3>1, <3>2 DEF addAction, Entry
    <3>3. ASSUME NEW t \in Transactions, CreateClicked(t) \/ TransactionClicked(t)  PROVE FALSE
      BY <1>1, <3>1, <3>3 DEF CreateClicked, TransactionClicked
    <3>4. ASSUME NEW t \in Transactions, NEW k \in 1 .. MaxActions, DeleteActionClicked(t, k)
          PROVE  FALSE
      BY <1>1, <2>1, <3>4 DEF DeleteActionClicked, Entry
    <3>5. ASSUME NEW t \in Transactions, DeleteClicked(t)  PROVE FALSE
      BY <1>1, <2>1, <3>5 DEF DeleteClicked, NoTransaction
    <3>6. ASSUME NEW t \in Transactions, RunClicked(t) \/ Accepted(t) \/ Canceled(t)
          PROVE  FALSE
      BY <1>1, <2>1, <3>6 DEF RunClicked, Accepted, Canceled, Entry
    <3>. QED  BY <2>3, <3>2, <3>3, <3>4, <3>5, <3>6 DEF UserStep
  <2>4. ASSUME NEW t \in Transactions, Confirmed(t)  PROVE FALSE
    BY <1>1, <2>1, <2>4 DEF Confirmed, Entry
  <2>5. CASE TableStep
    BY <1>1, <2>5
       DEF TableStep, GroupArrives, GroupDeleted, GroupMarkedStale, MemberArrives,
           MemberDeleted, MemberMarkedStale, BackendStep
  <2>6. CASE TimerFires
    BY <1>1, <2>6 DEF TimerFires
  <2>. QED  BY <1>1, <2>2, <2>3, <2>4, <2>5, <2>6 DEF Next, ChainStep
<1>2. IInv /\ [Next]_vars => [\A trx \in Transactions : Undone(trx)]_vars
  BY <1>1 DEF vars
<1>. QED  BY <1>2, Invariance, PTL DEF Spec, FailureLeavesNothingPending

\* For any number of groups and of tables in each other's way: settling a group moves members
\* tables, and neither loses nor overwrites one that has edits.
THEOREM RescopesKeepEdits == Spec => RescopesLoseNoEdits
<1>1. ASSUME IInv, Next, changes' # changes, client'.groups # client.groups
      PROVE  SameEdits(client, client')
  <2>1. Kept(client) /\ ListOK
    BY <1>1, Typed
  <2>2. ASSUME NEW id \in GroupIds, NEW name \in Names, GroupArrives(id, name)
        PROVE  SameEdits(client, client')
    BY <2>1, <2>2, GroupArrivesKept DEF GroupArrives
  <2>3. ASSUME NEW id \in GroupIds, GroupDeleted(id) \/ GroupMarkedStale(id)
        PROVE  SameEdits(client, client')
    BY <2>1, <2>3, GroupGoesOrStales, Unmoved DEF GroupDeleted, GroupMarkedStale
  <2>4. ASSUME NEW h \in Real, NEW voter \in Voters,
               \/ \E weight \in Weights : MemberArrives(h, voter, weight)
               \/ MemberDeleted(h, voter)
               \/ MemberMarkedStale(h, voter)
        PROVE  FALSE
    <3>1. h \in Members /\ client \in ClientType
      BY <2>1 DEF Real, Members, Scopes, Kept, ClientType
    <3>. QED  BY <1>1, <2>4, <3>1, MembersOnly
              DEF MemberArrives, MemberDeleted, MemberMarkedStale
  <2>5. CASE UserStep
    BY <1>1, <2>5
       DEF UserStep, addAction, CreateClicked, TransactionClicked, DeleteActionClicked,
           DeleteClicked, RunClicked, Accepted, Canceled
  <2>6. CASE ChainStep \/ TimerFires
    BY <1>1, <2>6 DEF ChainStep, Confirmed, Failed, TimerFires
  <2>. QED  BY <1>1, <2>2, <2>3, <2>4, <2>5, <2>6 DEF Next, TableStep
<1>2. IInv /\ [Next]_vars =>
        [changes' # changes /\ client'.groups # client.groups => SameEdits(client, client')]_vars
  BY <1>1 DEF vars
<1>. QED  BY <1>2, Invariance, PTL DEF Spec, RescopesLoseNoEdits, SameEdits
=============================================================================
