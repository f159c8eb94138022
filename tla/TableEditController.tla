------------------------ MODULE TableEditController ------------------------
(***************************************************************************)
(* What the user's transactions do to the tables: the transaction list of  *)
(* TransactionManagerUI.qml, the preview of the active transaction that    *)
(* TableEditController.qml drafts into the tables, and the tables          *)
(* themselves, the polling groups and the members of each group, with the  *)
(* register of members tables that BlockchainInterface keeps.              *)
(*                                                                         *)
(* All of it runs in one thread, so a handler, with every signal it sets   *)
(* off, is one step.  The backend is seen through what it makes the tables *)
(* do: a row arrives, is deleted or is marked stale; a placeholder without *)
(* a row counts as no row.  The view of the groups is open throughout.     *)
(***************************************************************************)
EXTENDS Integers, Sequences, FiniteSets, FiniteSetsExt, SequencesExt, Functions

CONSTANTS
    GroupIds,      \* IDs the backend gives to groups
    DraftGroupIds, \* bound: IDs the groups table gives to drafted groups
    Orphans,       \* bound: members tables that are orphaned, negative numbers
    BaseDraftId,   \* BASE_DRAFT_ID
    Names,         \* names of groups
    Voters,        \* accounts, naturals for the order in which the table keeps them
    Weights,       \* weights of voters
    Blank,         \* no content
    StartGroups,   \* groups that are loaded at the start: ID -> name
    StartVoters,   \* and the voters of each: account -> weight
    Transactions,  \* bound: transactions that may be in the list
    Actions,       \* the actions this instance puts into transactions
    MaxActions,    \* bound: actions in all transactions
    MaxChanges,    \* bound: what the backend makes the tables do
    MaxInputs      \* bound: the actions that are there and these changes together

G == INSTANCE EditableTable WITH
        BackendIds <- GroupIds, DraftIds <- DraftGroupIds, NumericIds <- TRUE,
        Contents <- Names, Models <- {}
M == INSTANCE EditableTable WITH
        BackendIds <- Voters, DraftIds <- {}, NumericIds <- FALSE,
        Contents <- Weights, Models <- {}

\* A members table goes by the group it is registered for, or, when its group got an ID that
\* has a table already, by the place it takes among the orphans.  Groups is the groups table.
Groups  == 0
Scopes  == GroupIds \cup DraftGroupIds
Members == Scopes \cup Orphans

ActionType == [type : {"voter.add"}, group : Names, voter : Voters, weight : Weights]
              \cup [type : {"voter.remove"}, group : Names, voter : Voters]
              \cup [type : {"group.rename", "group.copy"}, group : Names, name : Names]

ASSUME ControllerAssumption ==
    /\ Actions \subseteq ActionType
    /\ BaseDraftId \in Nat \ {0}
    /\ GroupIds \subseteq 1 .. BaseDraftId - 1
    /\ DraftGroupIds \subseteq {i \in Nat : i >= BaseDraftId} /\ IsFiniteSet(DraftGroupIds)
    /\ Orphans \subseteq {i \in Int : i < 0}
    /\ Voters \subseteq Nat \ {0} /\ IsFiniteSet(Voters)
    /\ DOMAIN StartGroups \subseteq GroupIds /\ Range(StartGroups) \subseteq Names
    /\ DOMAIN StartVoters \subseteq Voters /\ Range(StartVoters) \subseteq Weights
    /\ MaxActions \in Nat /\ MaxChanges \in Nat /\ MaxInputs \in Nat
    /\ Blank \notin Names /\ Blank \notin Weights

NoTransaction == [status |-> "none", actions |-> <<>>]
NoneActive    == "no active transaction"

ASSUME TransactionsAssumption == NoneActive \notin Transactions

VARIABLES
    client,   \* the tables, and what TableEditController keeps about them
    trxs,     \* transactionsModel: transaction -> its status and its actions
    active,   \* the active transaction, or NoneActive
    changes,  \* how often the backend made the tables do something
    aborted   \* the process has died of an out-of-range removeAt

vars == <<client, trxs, active, changes, aborted>>

(***************************************************************************)
(* The tables and what the controller hears of them.  c is a value of      *)
(* `client`: groups, members, registered, orphaned (the members tables no  *)
(* longer in the register), edited (data.editedTables) and timer (whether  *)
(* a call of actionsChanged is due in 200 ms).                             *)
(***************************************************************************)

Table(c, h)   == IF h = Groups THEN c.groups ELSE c.members[h]
Backups(c, h) == IF h = Groups THEN G!Backups(c.groups) ELSE M!Backups(c.members[h])

\* Tables replaced by others, once their signals have been heard.
Replaced(c, tables) ==
    LET new(h) == IF h \in DOMAIN tables THEN G!Quiet(tables[h]) ELSE Table(c, h)
    IN  [c EXCEPT !.groups = new(Groups), !.members = [h \in Members |-> new(h)]]

changesPending(c) == \E h \in c.edited : Table(c, h).pendingEdits

Signalled(t, name) == {s.id : s \in {e \in t.emitted : e.signal = name}}

\* Table h becomes u, and the handlers connected to its signals run: editInvalidated, which
\* asks whether changes are pending, then pendingChangedHandler.  An edit that ends is always
\* signalled, and has its backup deleted: hasPendingEditsChanged(false) if it was the last.
Heard(c, h, u, pending) ==
    LET after       == Replaced(c, [k \in {h} |-> u])
        invalidated == h \in c.edited /\ Signalled(u, "draftEditInvalidated") # {}
        settled     == u.emitted # {} /\ Backups(after, h) = {}
    IN  [after EXCEPT !.timer  = @ \/ (invalidated /\ ~pending),
                      !.edited = IF settled THEN @ \ {h} ELSE @]

\* editInvalidated runs while the table still counts as it did.
Becomes(c, h, u) == Heard(c, h, u, changesPending(c))

tableEdited(c, h) == [c EXCEPT !.edited = @ \cup {h}]

(***************************************************************************)
(* The register of members tables                                          *)
(***************************************************************************)

getGroupMembersTable(c, g) == [c EXCEPT !.registered = @ \cup {g}]

\* Each row the groups view shows has its size counted in the members table.
SizesCounted(c) == [c EXCEPT !.registered = @ \cup G!Present(c.groups)]

GroupsBecome(c, t) == SizesCounted(Becomes(c, Groups, t))

rescopeGroupMembersTable_Deletes(c, old, new) ==
    LET kept == IF new \in c.registered THEN c.members[new] ELSE c.members[old]
    IN  IF old \notin c.registered THEN c
        ELSE [c EXCEPT !.members    = [@ EXCEPT ![new] = kept, ![old] = M!NewTable],
                       !.registered = (@ \ {old}) \cup {new},
                       !.edited     = IF old \in @ THEN (@ \ {old}) \cup {new} ELSE @]

\* Each table that is orphaned is a table of its own, which keeps its edits.
rescopeGroupMembersTable(c, old, new) ==
    LET place == CHOOSE o \in Orphans \ c.orphaned : TRUE
        to    == IF new \in c.registered THEN place ELSE new
    IN  IF old \notin c.registered THEN c
        ELSE [c EXCEPT !.members    = [@ EXCEPT ![to] = c.members[old], ![old] = M!NewTable],
                       !.registered = (@ \ {old}) \cup ({to} \cap Scopes),
                       !.orphaned   = @ \cup ({to} \ Scopes),
                       !.edited     = IF old \in @ THEN (@ \ {old}) \cup {to} ELSE @]

(***************************************************************************)
(* Drafting.  A table with pending edits refuses drafts, and counts as     *)
(* edited all the same.  (So does, by the bound on draft IDs, a groups     *)
(* table that has none left to give; but see Fits.)                        *)
(***************************************************************************)

addGroup(c, name) ==
    LET t       == c.groups
        allowed == {id \in DraftGroupIds : G!DraftIdAllowed(t, id)}
    IN  tableEdited(IF t.pendingEdits \/ allowed = {} THEN c
                    ELSE GroupsBecome(c, G!DraftAdded(t, Min(allowed), name)), Groups)

renameGroup(c, id, name) ==
    LET t == c.groups
    IN  tableEdited(IF t.pendingEdits \/ ~G!CanBeEdited(t, id) THEN c
                    ELSE GroupsBecome(c, G!DraftEdited(t, id, name)), Groups)

addMember_Untracked(c, g, voter, weight) ==
    LET t == c.members[g]
    IN  IF t.pendingEdits \/ t.rows[voter] # M!NoRow THEN c
        ELSE Becomes(c, g, M!DraftAdded(t, voter, weight))

addMember(c, g, voter, weight) ==
    LET t == c.members[g]
    IN  tableEdited(IF t.pendingEdits \/ t.rows[voter] # M!NoRow THEN c
                    ELSE Becomes(c, g, M!DraftAdded(t, voter, weight)), g)

editMember(c, g, voter, weight) ==
    LET t == c.members[g]
    IN  tableEdited(IF t.pendingEdits \/ ~M!CanBeEdited(t, voter) THEN c
                    ELSE Becomes(c, g, M!DraftEdited(t, voter, weight)), g)

deleteMember(c, g, voter) ==
    LET t == c.members[g]
    IN  tableEdited(IF t.pendingEdits THEN c
                    ELSE Becomes(c, g, M!DraftDeleted(t, voter)), g)

(***************************************************************************)
(* The preview of a transaction                                            *)
(***************************************************************************)

\* findRowIf, by name: the first row that has it.
Named(c, name)   == {i \in G!Present(c.groups) : c.groups.rows[i].content = name}
GroupOf(c, name) == Min(Named(c, name))

processVoterAdd(c, group, voter, weight) ==
    LET created == IF Named(c, group) = {} THEN addGroup(c, group) ELSE c
        g       == GroupOf(created, group)
        known   == getGroupMembersTable(created, g)
        row     == known.members[g].rows[voter]
    IN  IF Named(created, group) = {} THEN created
        ELSE IF row = M!NoRow THEN addMember(known, g, voter, weight)
        ELSE IF row.content = weight THEN known
        ELSE editMember(known, g, voter, weight)

processVoterRemove(c, group, voter) ==
    LET g     == GroupOf(c, group)
        known == getGroupMembersTable(c, g)
    IN  IF Named(c, group) = {} THEN c
        ELSE IF known.members[g].rows[voter] = M!NoRow THEN known
             ELSE deleteMember(known, g, voter)

processGroupRename(c, group, name) ==
    IF Named(c, group) = {} \/ Named(c, name) # {} THEN c
    ELSE renameGroup(c, GroupOf(c, group), name)

\* The other group's voters are added one by one.
copyMembers(c, to, rows, voters) ==
    FoldSet(LAMBDA v, d : addMember(d, to, v, rows[v].content), c, voters)

processGroupCopy(c, group, name) ==
    LET created == addGroup(c, name)
        from    == GroupOf(c, group)
        to      == GroupOf(created, name)
        known   == getGroupMembersTable(getGroupMembersTable(created, from), to)
        rows    == known.members[from].rows
    IN  IF Named(c, group) = {} \/ Named(c, name) # {} THEN c
        ELSE IF Named(created, name) = {} THEN created
        ELSE copyMembers(known, to, rows, M!Present(known.members[from]))

applyAction(c, a) ==
    CASE a.type = "voter.add"    -> processVoterAdd(c, a.group, a.voter, a.weight)
      [] a.type = "voter.remove" -> processVoterRemove(c, a.group, a.voter)
      [] a.type = "group.rename" -> processGroupRename(c, a.group, a.name)
      [] a.type = "group.copy"   -> processGroupCopy(c, a.group, a.name)

applyActions(c, actions) == FoldLeft(applyAction, c, actions)

EditsUndone(c, h) == IF h = Groups THEN G!EditsUndone(c.groups) ELSE M!EditsUndone(c.members[h])
EditsPending(c, h) == IF h = Groups THEN G!MarkedPending(c.groups) ELSE M!MarkedPending(c.members[h])
LoopRunsOut(c, h) == IF h = Groups THEN G!LoopRunsOut(c.groups) ELSE M!LoopRunsOut(c.members[h])

\* The tables hs are reset and taken off the list.  A drafted addition that is reset is
\* signalled as invalidated, and heard: its table is taken off after the reset.  No table's
\* reset touches another, and taking tables off the list notifies nobody, so changesPending
\* stays what it was until the last one is off.
ResetTables(c, hs) ==
    LET undone      == [h \in hs |-> EditsUndone(c, h)]
        invalidated == \E h \in hs : Signalled(undone[h], "draftEditInvalidated") # {}
    IN  [Replaced(c, undone) EXCEPT !.edited = @ \ hs,
                                    !.timer  = @ \/ (invalidated /\ ~changesPending(c))]

resetEdits_FirstTableOnly(c) ==
    IF c.edited = {} THEN c ELSE ResetTables(c, {Max(c.edited)})

resetEdits(c) == ResetTables(c, c.edited)

\* Whether some table's loop calls removeAt with an index past the end.
ResetRunsOut(c) == \E h \in c.edited : LoopRunsOut(c, h)

transactionSubmitted(c) == Replaced(c, [h \in c.edited |-> EditsPending(c, h)])

(***************************************************************************)
(* The transaction list                                                    *)
(***************************************************************************)

locked == changesPending(client)

ActionsOf(list, trx) == IF trx = NoneActive THEN <<>> ELSE list[trx].actions

\* Bound: enough draft IDs are left for every group the actions may create.
Fits(c, actions) ==
    LET creating == {k \in DOMAIN actions : actions[k].type \in {"voter.add", "group.copy"}}
        free     == {d \in DraftGroupIds : \A i \in G!Present(c.groups) : i < d}
    IN  Cardinality(creating) <= Cardinality(free)

ActionCount == MapThenSumSet(LAMBDA t : Len(trxs[t].actions), Transactions)

\* A reset that runs out of range is undefined: the process dies, or goes on.
MayAbort(out) == IF out THEN aborted' \in BOOLEAN ELSE UNCHANGED aborted

\* onActionsChanged: the active transaction, or what it does, is another one now.
ActionsChanged(c, list, trx) ==
    LET undone == resetEdits(c)
    IN  /\ Fits(undone, ActionsOf(list, trx))
        /\ client' = applyActions(undone, ActionsOf(list, trx))
        /\ MayAbort(ResetRunsOut(c))

createTransaction(trx, actions) ==
    /\ ~locked /\ trxs[trx] = NoTransaction
    /\ trxs' = [trxs EXCEPT ![trx] = [status |-> "Draft", actions |-> actions]]
    /\ active' = trx
    /\ ActionsChanged(client, trxs', trx)

CreateClicked(trx) ==
    /\ ~aborted
    /\ createTransaction(trx, <<>>)
    /\ UNCHANGED changes

\* An action goes to the active transaction while it is a draft, or else to a new one.
addAction(a) ==
    /\ ~aborted /\ ~locked
    /\ ActionCount < MaxActions /\ ActionCount + changes < MaxInputs
    /\ IF active # NoneActive /\ trxs[active].status = "Draft"
       THEN /\ trxs' = [trxs EXCEPT ![active].actions = Append(@, a)]
            /\ UNCHANGED active
            /\ ActionsChanged(client, trxs', active)
       ELSE \E trx \in Transactions : createTransaction(trx, <<a>>)
    /\ UNCHANGED changes

TransactionClicked(trx) ==
    /\ ~aborted /\ ~locked
    /\ trxs[trx] # NoTransaction /\ active # trx
    /\ active' = trx
    /\ ActionsChanged(client, trxs, trx)
    /\ UNCHANGED <<trxs, changes>>

DeleteActionClicked(trx, k) ==
    /\ ~aborted
    /\ trxs[trx].status = "Draft" /\ k \in DOMAIN trxs[trx].actions
    /\ trxs' = [trxs EXCEPT ![trx].actions = RemoveAt(@, k)]
    /\ IF trx = active THEN ActionsChanged(client, trxs', trx) ELSE UNCHANGED <<client, aborted>>
    /\ UNCHANGED <<active, changes>>

DeleteClicked_KeepsActive(trx) ==
    /\ ~aborted /\ trxs[trx].status \notin {"none", "Authorizing", "Pending"}
    /\ trxs' = [trxs EXCEPT ![trx] = NoTransaction]
    /\ IF trx = active THEN ActionsChanged(client, trxs', active) ELSE UNCHANGED <<client, aborted>>
    /\ UNCHANGED <<active, changes>>

\* The active transaction moves up in the list, and the list's index follows: in between, the
\* index is that of the next transaction, or of none.
ActiveMovesUp(list, next) ==
    LET undone  == resetEdits(client)
        between == applyActions(undone, ActionsOf(list, next))
        again   == resetEdits(between)
    IN  /\ Fits(undone, ActionsOf(list, next))
        /\ Fits(again, ActionsOf(list, active))
        /\ client' = applyActions(again, ActionsOf(list, active))
        /\ MayAbort(ResetRunsOut(client) \/ ResetRunsOut(between))

\* When the active transaction goes, one next to it in the list becomes the active one; when
\* one behind it goes, nothing changes, and when one before it goes, it moves up.
DeleteClicked(trx) ==
    LET left == {t \in Transactions \ {trx} : trxs[t] # NoTransaction}
    IN  /\ ~aborted
        /\ trxs[trx].status \notin {"none", "Authorizing", "Pending"}
        /\ trxs' = [trxs EXCEPT ![trx] = NoTransaction]
        /\ IF trx = active
           THEN /\ active' \in IF left = {} THEN {NoneActive} ELSE left
                /\ ActionsChanged(client, trxs', active')
           ELSE /\ UNCHANGED active
                /\ \/ UNCHANGED <<client, aborted>>
                   \/ \E next \in (left \ {active}) \cup {NoneActive} : ActiveMovesUp(trxs', next)
        /\ UNCHANGED changes

RunClicked(trx) ==
    /\ ~aborted /\ trxs[trx].status = "Draft"
    /\ trxs' = [trxs EXCEPT ![trx].status = "Authorizing"]
    /\ UNCHANGED <<client, active, changes, aborted>>

Canceled(trx) ==
    /\ ~aborted /\ trxs[trx].status = "Authorizing"
    /\ trxs' = [trxs EXCEPT ![trx].status = "Draft"]
    /\ UNCHANGED <<client, active, changes, aborted>>

\* Accepting a transaction marks the edits in all edited tables, whichever is active.
Accepted(trx) ==
    /\ ~aborted /\ trxs[trx].status = "Authorizing"
    /\ trxs' = [trxs EXCEPT ![trx].status = "Pending"]
    /\ client' = transactionSubmitted(client)
    /\ UNCHANGED <<active, changes, aborted>>

Confirmed(trx) ==
    /\ ~aborted /\ trxs[trx].status = "Pending"
    /\ trxs' = [trxs EXCEPT ![trx].status = "Confirmed"]
    /\ UNCHANGED <<client, active, changes, aborted>>

\* A failure undoes the edits, and drafts none again.
Failed(trx) ==
    /\ ~aborted /\ trxs[trx].status = "Pending"
    /\ trxs' = [trxs EXCEPT ![trx].status = "Failed"]
    /\ client' = resetEdits(client)
    /\ MayAbort(ResetRunsOut(client))
    /\ UNCHANGED <<active, changes>>

TimerFires ==
    /\ ~aborted /\ client.timer
    /\ ActionsChanged([client EXCEPT !.timer = FALSE], trxs, active)
    /\ UNCHANGED <<trxs, active, changes>>

(***************************************************************************)
(* What the backend makes the tables do                                    *)
(***************************************************************************)

BackendStep == /\ ~aborted /\ changes < MaxChanges /\ ActionCount + changes < MaxInputs
               /\ changes' = changes + 1
               /\ UNCHANGED <<trxs, active, aborted>>

\* processRowsResponse with one row: behind the last one, no edit is looked at; any other
\* goes through PlaceRow.
RowArrives(t, id, content, present, placed) ==
    IF \A i \in present : i < id
    THEN [t EXCEPT !.rows[id] = [state |-> "Loaded", content |-> content]]
    ELSE placed

GroupSettles_NotRescoped(c, id, t) == GroupsBecome(c, t)

\* The drafted group that is settled when the groups table becomes t.
SettledDraft(c, t) ==
    {a.id : a \in c.groups.added \ t.added} \cap Signalled(t, "pendingEditSettled")

\* PendingAddSettled gives the members table of the drafted group its real ID.
GroupSettles(c, id, t) ==
    LET drafted == SettledDraft(c, t)
    IN  IF drafted = {} THEN GroupsBecome(c, t)
        ELSE GroupsBecome(rescopeGroupMembersTable(c, Min(drafted), id), t)

\* Bound: there is a place for the members table that is orphaned when the group settles.
OrphanFits(c, id, t) ==
    SettledDraft(c, t) # {} /\ id \in c.registered => c.orphaned # Orphans

GroupArrives(id, name) ==
    LET t == RowArrives(client.groups, id, name, G!Present(client.groups),
                        G!PlaceRow(client.groups, id, name))
    IN  /\ BackendStep
        /\ OrphanFits(client, id, t)
        /\ client' = GroupSettles(client, id, t)

GroupDeleted(id) ==
    /\ BackendStep
    /\ id \in G!Present(client.groups)
    /\ client' = GroupsBecome(client, G!DeleteRow(client.groups, id))

GroupMarkedStale(id) ==
    /\ BackendStep
    /\ id \in G!Present(client.groups)
    /\ client' = GroupsBecome(client, G!MarkedStale(client.groups, id))

\* The members tables that read the backend's rows.
Real == (client.registered \cap GroupIds) \cup client.orphaned

MemberArrives(h, voter, weight) ==
    LET t == client.members[h]
    IN  /\ BackendStep
        /\ client' = Becomes(client, h, RowArrives(t, voter, weight, M!Present(t),
                                                  M!PlaceRow(t, voter, weight)))

MemberDeleted(h, voter) ==
    /\ BackendStep
    /\ voter \in M!Present(client.members[h])
    /\ client' = Becomes(client, h, M!DeleteRow(client.members[h], voter))

MemberMarkedStale(h, voter) ==
    /\ BackendStep
    /\ voter \in M!Present(client.members[h])
    /\ client' = Becomes(client, h, M!MarkedStale(client.members[h], voter))

(***************************************************************************)
(* The specification                                                       *)
(***************************************************************************)

\* The tables before the user's first transaction hold the rows the backend has sent.
Loaded(table, contents) == [table EXCEPT !.rows = [i \in DOMAIN @ |->
    IF i \in DOMAIN contents THEN [state |-> "Loaded", content |-> contents[i]] ELSE @[i]]]

Init ==
    /\ client = [groups     |-> Loaded(G!NewTable, StartGroups),
                 members    |-> [h \in Members |-> IF h \in DOMAIN StartGroups
                                                   THEN Loaded(M!NewTable, StartVoters)
                                                   ELSE M!NewTable],
                 registered |-> DOMAIN StartGroups, orphaned |-> {}, edited |-> {},
                 timer      |-> FALSE]
    /\ trxs = [trx \in Transactions |-> NoTransaction]
    /\ active = NoneActive
    /\ changes = 0
    /\ aborted = FALSE

UserStep ==
    \/ \E a \in Actions : addAction(a)
    \/ \E trx \in Transactions :
          \/ CreateClicked(trx)
          \/ TransactionClicked(trx)
          \/ \E k \in 1 .. MaxActions : DeleteActionClicked(trx, k)
          \/ DeleteClicked(trx)
          \/ RunClicked(trx)
          \/ Accepted(trx)
          \/ Canceled(trx)

ChainStep == \E trx \in Transactions : Confirmed(trx) \/ Failed(trx)

TableStep ==
    \/ \E id \in GroupIds :
          \/ \E name \in Names : GroupArrives(id, name)
          \/ GroupDeleted(id)
          \/ GroupMarkedStale(id)
    \/ \E h \in Real, voter \in Voters :
          \/ \E weight \in Weights : MemberArrives(h, voter, weight)
          \/ MemberDeleted(h, voter)
          \/ MemberMarkedStale(h, voter)

Next == UserStep \/ ChainStep \/ TableStep \/ TimerFires

Spec == Init /\ [][Next]_vars

(***************************************************************************)
(* Properties                                                              *)
(***************************************************************************)

\* The type of every variable.
TypeOK ==
    /\ client \in [groups : G!TableType, members : [Members -> M!TableType],
                   registered : SUBSET Scopes, orphaned : SUBSET Orphans,
                   edited : SUBSET (Members \cup {Groups}), timer : BOOLEAN]
    /\ trxs \in [Transactions ->
                   [status : {"none", "Draft", "Authorizing", "Pending", "Confirmed", "Failed"},
                    actions : Seq(Actions)]]
    /\ active \in Transactions \cup {NoneActive}
    /\ active # NoneActive => trxs[active] # NoTransaction
    /\ changes \in 0 .. MaxChanges
    /\ aborted \in BOOLEAN

\* A table that keeps a backup, so has an edit that could be undone or submitted, is among
\* the edited tables: resetEdits and transactionSubmitted reach it, and the lock sees it.
\* Tables leave the list through signals, a rescope and resetEdits, and come back by edits.
EditsAreTracked == \A h \in Members \cup {Groups} : Backups(client, h) # {} => h \in client.edited

\* Members are drafted or pending under a draft ID only while the drafted group is there:
\* when it settles, PendingAddSettled takes its members to the real ID, and when it is
\* undone they are undone with it.
DraftMembersHaveTheirGroup ==
    \A d \in DraftGroupIds : M!Backups(client.members[d]) # {} => d \in G!Present(client.groups)

\* The members tables that keep a backup.
EditedMembers(c) == {h \in Members : M!Backups(c.members[h]) # {}}

\* Whatever the backend makes of the groups, the members tables with edits are the same as
\* before, each under an ID of its own: rescopeGroupMembersTable may move one that another
\* table stands in the way of, but neither loses nor overwrites any.
RescopesLoseNoEdits ==
    [][changes' # changes /\ client'.groups # client.groups =>
          \E moved \in Bijection(EditedMembers(client), EditedMembers(client')) :
              \A h \in EditedMembers(client) : client'.members[moved[h]] = client.members[h]]_vars

PendingIn(c) == UNION {IF h = Groups THEN G!Pending(c.groups) ELSE M!Pending(c.members[h]) :
                          h \in Members \cup {Groups}}

\* When a transaction fails, no table is left with a pending row (onStatusChanged resets the
\* edited tables): whatever had been selected, settled or rescoped since it was submitted.
FailureLeavesNothingPending ==
    [][\A trx \in Transactions :
          trxs[trx].status # "Failed" /\ trxs'[trx].status = "Failed" => PendingIn(client') = {}]_vars

\* The documentation of draftEditInvalidated says that an update from the backend overwrote
\* the draft.  So only the backend makes the controller draft everything again.
InvalidationsAreTheBackends ==
    [][~client.timer /\ client'.timer => changes' # changes]_vars
=============================================================================
