# A verification project for Pollaris

Pollaris is the graphical client of a polling contract on an EOSIO chain (Qt, QML and
C++). It shows tables of the contract, lets the user draft edits to them, turns the edits
into a transaction, and follows the transaction and the contract's journal until the
tables show what the chain says. The repository has no tests. This directory holds TLA+
models of the parts whose correctness depends on the order of events, TLC runs over small
instances, and TLAPS proofs for all instances.

## 1. The system

Everything runs in one thread, in the event loop of Qt: a handler (a click, a reply, a
timer) runs to its end before the next one begins, unless it emits a signal, whose
handlers run inside it. The concurrency is in the network: calls are made, their replies
come later, in any order, or fail, and what they meet may have changed meanwhile.

| Component | Source | State | Operations | Hard behaviour |
|---|---|---|---|---|
| AbstractTable | `cpp/AbstractTable.hpp`, `TableSupport.hpp`, `AbstractTableInterface.hpp` | rows with a `LoadState` each, backups of edited rows, added rows, `pendingEdits`, models, rows being loaded | draft an edit, addition, deletion; mark pending; reset; journal entries; replies; models; new scope | replies and entries meet drafts and pending edits; requests overlap; backups are removed from many places |
| BlockchainInterface | `cpp/BlockchainInterface.cpp` | node URL, status, timer, head block, last journal entry | connect, disconnect, synchronise, info / journal / row replies, errors | synchronisations overlap; late replies; gaps in the journal |
| BroadcastableTransaction | `cpp/BroadcastableTransaction.cpp` | status, block number, connection to the head block's signal | broadcast's reply, head block, block's reply | lookups overlap; forks; replies without content |
| TableEditController | `qml/TableEditController.qml` | actions, edited tables and the handlers connected to them, a 200 ms timer, a log of edits | apply, reset, submit, settle, invalidate | tables leave the list through their own signals; a reset is heard as an invalidation and starts itself again |
| TransactionManagerUI | `qml/TransactionManagerUI.qml` | list of transactions, their status, the active one | create, add action, select, delete, run, cancel, accept, fail, save, load | submission and failure concern all edited tables, whichever transaction is meant |
| Startup dialog | `qml/AppManager.Startup.js`, `AppManager.qml`, `JsUtils.js`, `AssistantDialogArea.qml`, `TypingAnimation.qml` | current dialog, pending timeout, connections | try server, try invite code, node's status and errors, timeouts | late errors and timeouts in another dialog |
| TlsPskSession | `cpp/TlsPskSession.cpp` | socket, authenticator connection | connect, read line | lines that come together |
| Transaction containers | `cpp/MutableTransaction.cpp`, `SignableTransaction.*`, `Action.*` | actions, reference block, expiration, signatures | add and delete actions, set the expiration, sign | content and signatures are separate fields of one JSON object; block and expiration are set once and kept over repeated runs |
| KeyManager | `cpp/KeyManager.cpp` | none for transactions; the wallet's keys | prepare for signing, show, sign, prepare for broadcast; create keys, shared secrets | a transaction is packed three times, and what is shown, signed and sent must agree |
| EOSIO names | `cpp/EosioName.hpp`, `KeyManager.cpp` | none | name to 64 bits and back | boundary of the 13th character; silent mangling |
| Assistant, Task | `cpp/Assistant.cpp` | tasks by log tag | log, look up | several threads, one lock |
| ComponentManager | `Qappa/ComponentManager.cpp` | caches of components, incubators | create from a file, a source or a component; finish | callbacks that ask for more objects; indices remembered across erasures |

How they interact: the user's actions are held by a transaction of the
TransactionManagerUI; TableEditController turns them into draft edits of tables; when the
transaction is run it marks the edits pending, and `BlockchainInterface` pushes the
transaction. BlockchainInterface reads the journal and tells the tables
(`newJournalEntries`), or makes them read everything (`refreshAllTables`). A table asks
for the rows that changed; when a reply matches a pending edit it signals
`pendingEditSettled`, when it runs over a draft `draftEditInvalidated`, and
TableEditController reacts. A failed transaction resets the edits of all edited tables.
When the user runs a transaction, KeyManager packs it, a window shows the packed actions
decoded again, and on acceptance KeyManager signs and packs it for `BlockchainInterface`.
Windows, dialogs and timers are made by ComponentManager.

What makes each component correct:

* a table: a pending edit can be undone until it is settled, and the table is locked as
  long; nothing the user drafted is lost without a signal; views show the rows; what is
  asked for is loaded; an addition is recognised when the chain has it;
* synchronisation: no journal entry is passed over, all are told in the end, and the status
  says whether the node answers;
* a transaction: its status comes from the right block, is settled in the end, and is not
  claimed of a broadcast that did not succeed;
* the controller and the transaction manager: every table with an edit in it is known to
  the controller, so that a reset, a submission and the lock reach it; members drafted for a
  drafted group follow the group; a failure leaves nothing pending; re-application ends;
* signing: what is shown is what is signed, what is signed is what is sent, in time and for
  the right chain;
* names: a legal name survives the conversion, and a word always prints as one;
* ComponentManager: every request is answered, and every incubator lives exactly as long as
  it is needed;
* the startup dialog (not modelled yet): a late event never moves the dialog, and every
  wait has a way on.

`PROJECT.json` lists the components with their status and the hazards with their lines.

## 2. Modules

| Module | Models | Kind |
|---|---|---|
| `EditableTable` | what each operation on rows, edits and backups makes of a table: operators on a table value | shared by the next two |
| `AbstractTable` | one table: cache, edits, models, requests, and the backend as the table sees it | the core |
| `EditTracking` | what a table promises about edits: tracked, pending, locked | abstract |
| `EditableTableProofs` | what each operation keeps of a table and changes in it: lemmas about the operators, for any table | proofs |
| `AbstractTableProofs` | inductive invariant, type correctness, pending edits are protected, loading rows are awaited | proofs |
| `TableEditsProofs` | additions, views, drafts and signals; implements `EditTracking` | proofs |
| `BlockchainInterface` | connection status, timer, calls, the place in the journal | |
| `JournalFeed` | what tables may count on about the journal | abstract |
| `BlockchainInterfaceProofs` | no entry skipped; implements `JournalFeed` | proofs |
| `BroadcastableTransaction` | one transaction after signing, the node, the chain with forks | |
| `BroadcastableTransactionProofs` | statuses from blocks are about confirmed, included transactions | proofs |
| `TableEditController` | the user's transactions, the controller, the groups table, all members tables and their register | composition |
| `TableEditControllerProofs` | every table is tracked and can be undone; drafted members have their group | proofs |
| `EosioName` | names and their words | pure algorithm |
| `KeyManager` | one transaction from draft to broadcast: containers, packing, window, signature | extends `EosioName` |
| `KeyManagerProofs` | names survive the conversion; what is shown, signed and sent agree | proofs |
| `ComponentManager` | requests for QML objects, loading, incubation, callbacks | |
| `ComponentManagerProofs` | no request lost, no incubator erased while it is needed | proofs |
| `MC...` | symmetry sets of the model-checked instances | |

`EditableTable` has no variables: `AbstractTable` extends it and applies its operators to
`table`; `TableEditController` takes two instances of it, one of numeric IDs (groups) and
one keyed by accounts (members), and applies the same operators to many tables. So the
composition runs the operations that the single table is checked and proved with. What the
constants must be for them is the definition `ConstantsFit`: `AbstractTable` assumes it,
and for the two instances it follows from `ControllerAssumption`.

Definitions named `X_Slip` stand before `X` and are `X` with a plausible mistake. No
specification uses them; each shows that a property notices the mistake.

### AbstractTable

`table` is the C++ object: `rows` is `rowList` with `rowStates`, `backups` the
BackupManager, `added` is `locallyAddedRows`, `shown[m]` what model `m` shows, `emitted`
the signals of the last step. `loadingRows`, `scope` are the members of that name.
`requests` are the calls under way with their replies. `db`, `journal` and `place` are the
backend: its rows, its journal, and how much of the journal this client has read.

Each member function is an action or an operator that actions use, under its own name.
Two handlers have loops over data: `processRowsResponse` and `resetEdits`. Each turn of
their loops is a step (`PlaceNextRow`, `ResetNextEdit`), and `busy` keeps everything else
out until the loop ends; so the loops need no recursion, and the invariants are checked
between the turns too, where signals are emitted and other objects may look.

What is abstracted: the fields of a row are one member of `Contents`; a virtual field is
none. IDs are naturals; a numeric table gives draft IDs from `BaseDraftId`, a table keyed
by names has none of its own and a drafted row has the name the backend will use.
`locallyAddedRows` is a set: equal entries with the same ID cannot be. The code handles a
batch of journal entries in one turn, the model one entry per step, which allows more
interleavings. A jump of the journal (`JournalBreaks`) puts the place anywhere, forward or
back, and sends a request for the whole table: what `JournalFeed` allows. An
out-of-range `removeAt` is undefined: the process dies (`aborted`) or goes on.

### BlockchainInterface

`calls` are slots for info, journal and other calls, `told` the ghost variable of the
entries that tables know: those signalled, and all those written when a refresh was
ordered. The nodes serve one journal. `headFresh` says whether the head block is at most
10 s old. `BeginSync` needs two free slots, so `TableCalls` leaves two: the bound must not
hold up what the code never does. `Disconnect` leaves calls alone, as the code does.

### BroadcastableTransaction

`push` is the push_transaction call; `calls` are lookups; `head`, `lib` (last irreversible
block), `home` (the transaction's block) and `homes` (all the blocks it was ever in) are
the chain. A fork takes back blocks above `lib`, and the transaction may get into another
block later, first in it or not.

### TableEditController

`client` is all that lives in the C++ tables and in the controller: `groups` (the polling
groups table), `members` (a members table for each group ID, and for each place in `Orphans`
one whose group got an ID that had a table), `registered` (the hash `groupAccountsTables`),
`orphaned` (the places that are taken: each table that is orphaned takes one of its own, and
goes on reading the backend's rows and keeping its edits), `edited`
(`data.editedTables`) and `timer` (a call of `actionsChanged` is due in 200 ms). `trxs` is
`transactionsModel`, `active` the list's current item.

The program is one thread and all connections are direct, so a click runs to its end with
every signal it sets off: `Heard` gives what the handlers connected to a table's signals
do, first `editInvalidated`, then `pendingChangedHandler`, which takes the table off the
list. Each `process...` function of the controller is an operator from `client` to
`client`, and `applyActions` folds them over the actions. `resetEdits` resets all edited
tables at once, each by the loop of `EditableTable` (`ResetLoop`, the greatest ID last): no
table's reset touches another one. Selecting, adding, deleting and
creating change the binding `actions`, so `ActionsChanged` (reset, then draft) is part of
each. The backend is seen through what a table does when a row arrives, is deleted or is
marked stale, under any interleaving with the user; `AbstractTable` has how requests and
the journal bring that about.

Details that follow the code rather than its intention: `splice` on `editedTables`
notifies nobody, so the binding `changesPending` keeps its value until the last table is
off the list (`ResetTables`); an edit of a locked table is refused and the table counts
as edited all the same; `deleteRow` signals the user's own addition; the loop of
`resetEdits` skips a neighbour and may run out of range, after which the process may be
dead; a failure resets without drafting again; deleting a transaction or an action is not
held back by the lock; when a transaction before the active one is deleted, `activeItem` is
evaluated for the next one before the list's index follows, so its actions may be drafted
in between (`ActiveMovesUp`). That evaluation and the index are one step of the model: what
the view does between them is Qt's. `blockchain` in the accept handler (line 193) is taken to be found;
if the name does not resolve in that context, the tables are marked pending and nothing is
sent. Left out are the lists `edits` and `settleEdit`, which write only to the log, and the
saved drafts. A placeholder that has no row yet counts as no row, so the last row of a table
is compared with no addition even if a placeholder for it was there; the groups view, whose
size fields register a members table for each group, is always open. No orphan is ever
destroyed: in the program the garbage collector may do so once nothing in QML refers to
it, and its handler (`BlockchainInterface.cpp:64`) then removes the register's entry for the
ID it was created with, whose table that may no longer be.

### EosioName, KeyManager

A character is a number: the 32 symbols of `charmap`, `At` for the `@` of an
authorisation, `Foreign` for all others. A word is its 13 digits, twelve of 5 bits and one
of 4, the digits being the disjoint bit fields that the C++ code shifts and masks.

`draft` is the MutableTransaction, `auth` the SignableTransaction, `pending` the packed
transaction that goes out, `head` the head block and chain known to the blockchain
interface. An action's arguments are the set of names given, the one account among them
and those left null, since only names change on the way: `action` packs them, `decodeAction`
is what the window shows. A null stays unset in `cntst.modify` only; `group.copy` and
`group.rename` turn it into an empty text, so the field is there (`Fields`). `Run` is `onRunClicked` with `prepareForSigning`, `Accept` the
handler with `signTransaction` and `prepareForBroadcast`, each with the milliseconds that
JSON conversion takes: beyond `Deadline` an exception leaves the handler and nothing
catches it (`thrown`); `decodeAction` has such a deadline too (626), which is left out, since
what is signed does not depend on it. A signature is the chain and the content it is made over.
`prepareForSigning` sets block and expiration only if they are null, so that a run after a
cancellation keeps those of the first, a block of another chain too, if the node has
changed meanwhile; no document says otherwise.

### ComponentManager

`components` are the caches with the status of each component, `requests` the calls with
their answers and the index their callback remembers, `waiting` the slots connected to
`statusChanged`, `due` those still to be called, `incubators` the vector of owned
Incubators, `incubating` those that Qt works on. All but the vector are sets, since their
order follows: slots are called in the order they were connected, which is that of the
requests, and of the incubations under way Qt advances the newest, which is the one
furthest back in the vector.
Loading, incubating, and running a callback are separate steps, so that callbacks may make
requests in between, which is where indices get stale: `nested` marks that a callback has
begun an incubation. A file that is asked for the first time is loading, or, if the engine
has its type already, ready or broken at once. Which incubation Qt advances next, and that it is synchronous without
a window, is modelled after Qt and external to this code.

## 3. Runs

| Run | Shows | Instance |
|---|---|---|
| `numeric_table` | 8 properties of a numeric table | 1 backend row, 2 draft IDs, 2 contents, 2 requests, 2 backend changes, journal jumps; 2.5 million states |
| `string_table` | 6 properties of a table keyed by names, first in draft scope | 2 rows, pages of one row, 2 requests, failing requests; 3.7 million states |
| `table_liveness` | rows get loaded, additions settle | 1 row, 1 draft with one content, 1 request at a time, which may expire, 3 backend changes of every kind; 223 thousand states |
| `sync` | 3 invariants, refinement, 2 liveness properties | 3 calls at once, pages of 2, 3 entries, failures |
| `transaction` | 3 invariants, 2 liveness properties | 3 blocks, 2 lookups, forks, failures |
| `signing` | 3 invariants, 1 action property of what is shown, signed and sent | 2 actions, 6 kinds of account names, 2 chains, 2 blocks, 2 seconds, conversions in and out of time; 388 thousand states |
| `editing` | 3 invariants, 2 action properties of the composition | 2 transactions, 2 actions of four kinds, 2 groups, 2 drafted groups, 1 voter with 2 weights, 2 backend changes, at most 3 actions and changes together, 1 place for an orphan; 842 thousand states |
| `components` | 3 invariants, 1 liveness property | 1 file, 1 source, 4 requests; 198 thousand states |
| `reset_unlocks` | finding: a reset leaves the table locked | 1 row |
| `loaded_current` | finding: outdated rows count as loaded | 1 row, 2 changes |
| `aborted_calls` | finding: aborted calls set the status | 2 nodes |
| `own_invalidation` | finding: the user's own additions count as overwritten | as `editing` |

The properties, by what they protect:

* `PendingEditsAreProtected`, `NoDraftingWhilePending`, `KeepsTrackOfEdits`: a pending row
  has a backup from before the submission, the table is locked until nothing is tracked,
  and no draft arises meanwhile. `KeepsTrackOfEdits` is the refinement of `EditTracking`.
* `PendingShowsTheDraft`, `LostDraftsAreSignalled`: what the user drafted stays until it is
  settled, or its loss to the backend is signalled. What the user gives up, by deleting a
  drafted row or resetting all edits, is no loss to the backend: that it is signalled too is
  finding 4.
* `PendingAdditionsCanSettle`, `UnmodifiedAdditionsSettle`: an addition is recognised. The
  second holds only while the backend neither modifies the row before its reply is here nor
  gives the addition the ID of a row it has deleted (`Reused`; section 4, observations).
* `ModelsShowTheRows`: views and table agree, except for placeholders.
* `LoadingRowsAreAwaited`, `ShownRowsGetLoaded`: no row waits for a request nobody made. The
  second is about rows the backend has, and excepts those that were asked for before they
  were deleted and added again (`AskedForTooEarly`): they may wait for ever (section 4,
  observations).
* `NothingSkipped`, `FeedsTheTables`, `EntriesReachTables`: the journal.
* `SynchronisingIsNotIdle`, `ConnectionComesUp`: the status.
* `LookedUpWasConfirmed`, `IrreversibleWasIncluded`, `ConfirmedIsSettled`, `StopsListening`:
  the transaction.
* `EditsAreTracked`, `FailureLeavesNothingPending`: the controller knows every table with a
  backup, in spite of the signals by which tables leave its list; so a failure resets all.
* `DraftMembersHaveTheirGroup`, `RescopesLoseNoEdits`: members drafted for a drafted group move
  with it, and when another table stands in the way neither loses its edits.
* `ShownIsSigned`, `DraftedIsShown`: packing the window's text again gives the packed action,
  and with legal names the text is that of the draft.
* `BroadcastIsSigned`: what goes out has its whole lifetime ahead, and a signature over just
  that, for the node's chain.
* `NothingIsLostOrLeaked`, `IncubatorsInUseExist`, `RequestsAreAnswered`: incubators. The
  first and the last hold while no callback begins an incubation; the second always.

Bounds. Two requests at once suffice for a reply to overtake another and for a page to
follow a page while a row is fetched; two backend changes for a row to be added and
modified, or modified twice, or deleted and added again, and for entries to be read twice;
a third, in `table_liveness`, for a row to be added, deleted and added again;
two draft IDs for one addition to precede another edit. Pages of two entries and three
written make a synchronisation read a part. Three blocks let a transaction be confirmed,
forked away and found again. Cutting the runs costs coverage in one place: requests that
fail are checked in `string_table`, requests that expire in `table_liveness`, and journal
jumps in `numeric_table`, not together. Contents and models are symmetric where no
liveness is checked. In `editing` two transactions let one be deleted or fail while the
other is active, and two actions let the second work on what the first drafted; a third
input brings the backend in. Two draft IDs are enough for every action to create a group,
and the model never wants more (`Fits`). The places for orphans bound the model, too
(`OrphanFits`: no group settles that would need one more): the group whose ID is in the way
goes and comes while a drafted group settles under it, which fills one place, all that
`editing` has; that several orphaned tables keep their edits is proved, for any number of
places (`RescopesKeepEdits`). In `signing` a second action shows that the order is kept, two seconds let the first expiration pass before the second run, and the names
are one of each kind the packing treats differently. In `components` the fourth request
is the first that can find an index gone stale by two places.

Fairness. The event loop runs what is posted, so handler loops (WF) and journal entries
and replies (SF: other handlers may come between) are fair; so is the backend's answer.
`table_liveness` has no failures, since the code does not retry. For synchronisation the
timer ticks for ever (SF), each call ends (WF), and each of the two questions is answered,
and its answer received, again and again (SF): a client of a node that never answers is
promised nothing. For a transaction: the chain grows and becomes irreversible, the client
keeps asking for the head, lookups end and do not fail for ever. In `components` files
finish loading, each frame incubates, and slots and callbacks run to their ends (WF), which
is the event loop again; incubations wait for frames only if a window provides them, since
without one objects are made at once. No fairness is assumed of the user, nor anything in
`editing` and `signing`, where all properties are safety.

## 4. Findings

Each is a run that TLC refutes, with the quoted line in `PROJECT.json`.

1. `resetEdits` clears the backups without releasing `pendingEdits` (`AbstractTable.hpp:732`):
   once a transaction has failed, its tables ignore every further draft (`reset_unlocks`).
2. `refreshRow` does nothing while an older request for the row is under way (`:482`): the
   older answer is taken for the new (`loaded_current`).
3. `disconnect()` does not abort what `connectNow` says it aborts
   (`BlockchainInterface.cpp:150`, `aborted_calls`).
4. `deleteRow` signals the user's own drafted additions as overwritten by the backend
   (`AbstractTable.hpp:829`): the controller resets and drafts everything again every 200 ms
   (`own_invalidation`).

Observations: the models do as the code does in these cases too, without a run of its own.

* `resetEdits` removes the backup of a drafted addition twice, the second time its
  neighbour's: an edited row stays a draft without backup, or `removeAt` leaves the list
  (`AbstractTable.hpp:711`).
* The early return of finding 2, when the row has been deleted and added again meanwhile: the
  older answer says that there is no row and is dropped (`:759`), nobody asks again, and the
  new row's placeholder stays Loading, so that no addition settles on it. The properties of
  `table_liveness` except these rows (`AskedForTooEarly`, `Reused`).
* A placeholder made stale before its row arrives hides the row from
  `checkPendingInsertion` (`:790`), and the addition stays pending.
* A reply from before a row was deleted puts the row back, and no entry takes it away again.
  If the backend then gives the ID to a new row, the reply for that overwrites the old one
  and is not compared with the pending additions (`:781`), which stay pending.
* "Irreversible" is claimed at the head block (`BroadcastableTransaction.cpp:75`).
* `KeyManager.cpp` gives JSON conversion 1 ms (524, 562), where `KeyManager.hpp:26` and `:50`
  speak of 1 second.
* A callback that has begun an incubation may end up erasing another's incubator
  (`ComponentManager.cpp:162`); the erased index may also be past the end.
* The 200 ms timer is not cancelled when a transaction is accepted: it resets the edits
  that are pending by then (`TableEditController.qml:69`). `TimerFires` does so in the model,
  and no property forbids it; `EditsAreTracked` and the others hold all the same, since a
  reset leaves nothing pending.

## 5. Proofs

All theorems hold for every value of the constants that meets the ASSUMEs of the modules:
any number of rows, contents, models and requests, any page size, journal and chain. Of
the IDs and of `Models` it is assumed that there are finitely many, which a container in
memory guarantees. Every safety property that a passing run checks is a theorem, both
refinements are, and each inductive invariant was checked by TLC before it was proved.

*The operations of a table* (`EditableTableProofs`). For each operator of `EditableTable`
there are lemmas of three kinds, about an arbitrary table value, so that `AbstractTable`
and both instances in `TableEditController` use the same ones.

* `...Consistent`: it keeps `Consistent(t, after)`. `PendingEditsAreProtected` is not
  inductive: `resetEdits` may drop the backup of a row it does not mean to, and that it
  never drops a pending row's backup before the row has been handled needs an argument.
  `Consistent` adds that in a locked table a backed-up row still ahead of the reset (behind
  `after`) is never a draft, so that additions ahead of it are all pending additions, whose
  backup `deleteRow` leaves to `remove()`; that backups never hold a pending state; and that
  rows the loop has passed are not pending.
* `...Settles`, `...Views`: it only takes edits away, each draft with a signal, and what the
  models show keeps agreeing with the rows.
* `...Whole`: between handlers the table stays `Whole` (consistent, rows with contents,
  drafted IDs for additions), with what may be different afterwards. `EditsUndoneWhole` has
  the loop of `resetEdits` as a whole: it leaves no backup and nothing pending.

*One table* (`AbstractTableProofs`, `TableEditsProofs`). `IInv` is `TypeOK` and
`Consistent` at the place where the loop of `resetEdits` stands; from it `Invariance`,
`TypeCorrect`, `PendingProtected` and `LoadingRowsAwaited`. `EInv` adds that every addition
shown is noted in `added`, and that the views have been told of every row but those
the loop has yet to tell them of. Every step is of one of six kinds (`StepKinds`): it drafts
one row, submits, settles, undoes one edit, drops what is left at the end of a reset, or
leaves the table alone. Each kind is shown to keep `EInv` and to be allowed by the action
properties, which gives `AdditionsCanSettle`, `ViewsShowTheRows`, `PendingShows`,
`NoDrafting` and `LostDrafts`; and to map to `Track`, `Submit`, `Release` or a stutter of
`EditTracking`, which gives `ImplementsTracking`. `PromiseKept` then takes the promise of
the abstract specification over to the table.

*All tables* (`TableEditControllerProofs`). `EditsAreTracked` alone is not inductive: a
rescope moves a members table, so it must be known that a table with edits in it is
registered, or is at a place among the orphans that is taken; and a members table of a
drafted group must not outlive the group (`Placed`). `Kept(client)` says so,
and that every table is `Whole`. It is a predicate on the value `client`, not on states, because it holds between any two actions of the transaction that
is drafted: each `process...` operator keeps it (`...Kept`), so `applyActions` does, for a
transaction of any length. A row that settles a drafted group takes exactly one addition
off the list (`TakesAddition`), the one whose members `rescopeGroupMembersTable` moves, to
the real ID or to a place that is free, so that no other table's edits are there
(`MovedOnce`); hence `RescopesKeepEdits`, for any number of orphans. Hence also
`TypeCorrect`, `EditsTracked`, `DraftMembersGrouped`, `FailureUndoesAll`, and
`PendingUndoable`: in every table of the client a pending row has its backup, locks its
table, and is reached by a reset. Each proof module that instantiates the lemmas has its
own copies of the operators; the lemmas `Same...` say that they are those of the model.

The loop of `resetEdits`, the actions of a transaction and the copied members are folds.
What a fold computes cannot be proved by induction over data here, but that every turn
keeps an invariant can: a fold over a finite set is the last member of a function on its
subsets (`FoldDefined`), and what holds of the empty subset and survives each turn holds
of the whole (`SubsetInduction`, from the well-foundedness of the naturals).

*Synchronisation.* `IInv` is `TypeOK`, `NothingSkipped` and `SynchronisingIsNotIdle`
together; `TypeOK` says of each call under way that the entries it was answered with are
written. `JournalReplyStep` shows that a reply either tells the entries exactly behind the
place, or puts the place on a written entry and makes everything known, or changes
nothing; that is what keeps the invariant however replies are ordered. Proved:
`NoEntrySkipped`, `SyncTypeCorrect`, `SyncNotIdle`, and `ImplementsJournalFeed`, where each step of the
client is a `Write`, a `Tell`, a `TellAll` or a stutter.

*Transaction.* `IInv` adds to the two properties that nothing has happened to the
transaction before the broadcast was answered, that a confirmation names a block, and that
an answer "found" came from a block the transaction was in. Proved:
`IrreversibleWasIncludedAlways`, `LookedUpWasConfirmedAlways` and `TransactionTypeCorrect`.

*Names* (`KeyManagerProofs`). `LegalNamesRoundTrip` and `WordsRoundTrip` say that each
conversion undoes the other, for every string and every word, not only the sample a run
could take. They rest on `TrimmedType`, that the place after which a word has only zeros
exists, from the well-foundedness of the naturals.

*Signing.* `ShownIsSigned` follows for packed actions of any content from `WordsRoundTrip`
(`PackedActionsRoundTrip`): a name that has been mangled is a word by then, and words survive.
`DraftedIsShown` needs that draft and packed transaction still belong together, which holds
because no action changes the draft while a transaction waits for acceptance; the
inductive invariant in `KeyManagerProofs` says so, together with the type invariant and with
there being no signature before the user accepts, from which `SpecBroadcastIsSigned`
follows: the one signature is the one just made. Assumed of the constants: the contract's action names are
legal and distinct, the contract's own account is legal.

*ComponentManager.* Indices go stale, so why is the Incubator whose callback runs never
erased by an inner callback? `CInv` has the reason: an index a callback was told is never
too small, because erasing moves Incubators to the front only, and of two callbacks that
run the inner one's Incubator is the further back; so an erasure at an index, stale or not,
hits the inner one's own Incubator or one behind it (`ErasesFacts`). From that
`InUseExist`. Until a callback begins an incubation the indices are true (`Tidy`), and
`NothingLostOrLeaked` follows. `TypeCorrect` as well. All for any number of files, sources,
requests and callbacks within callbacks.

Only model-checked are the liveness properties: `ShownRowsGetLoaded`,
`UnmodifiedAdditionsSettle`, `EntriesReachTables`, `ConnectionComesUp`, `ConfirmedIsSettled`,
`StopsListening` and `RequestsAreAnswered`. They rest on fairness, and the prover has
neither WF and SF over these actions nor ENABLED.

## 6. Not modelled

Row contents and virtual fields, JSON and QVariant conversions, logging. In the table:
an edit that changes the ID (`draftEditRow` refuses it after moving the row away) and the
edit of an addition with fields it did not name (an endless loop), which
TableEditController never asks for; the RowOps of particular tables besides `updateScope`
and `PendingAddSettled`; tables that the program never opens. In BlockchainInterface:
latency, a second chain with another journal. In the controller: the log of edits with its
settlement. In the transaction manager: saving and loading drafts. Of KeyManager the
wallet. Assistant and Task have no behaviour yet: what is done with a task that a log line
names is a TODO. The startup dialog and the TLS session behind it are not modelled yet; the
views, the compile-time libraries and vendored code are out of scope.

## 7. Plan

1. Done: `AbstractTable`, `BlockchainInterface`, `BroadcastableTransaction`, with abstract
   specifications, runs and proofs.
2. Done: `TableEditController` with the transaction list, over the tables' own operators;
   `EosioName`, `KeyManager` and `ComponentManager`.
3. Done: every safety property of the passing runs and both refinements proved; the proofs
   of the composition go by lemmas about table values, so that a further table is one more
   instance of them.
4. The startup dialog with its timers (`JsUtils.setTimeout`), the TLS session's lines and
   late errors of the node: each wait has a way on, a late event is ignored. Run: two URLs,
   one invite code, two timers.
