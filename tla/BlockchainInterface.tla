------------------------ MODULE BlockchainInterface ------------------------
(***************************************************************************)
(* The client's connection to an EOSIO node (BlockchainInterface.cpp): its *)
(* status, the timer that starts a synchronisation every syncInterval, and *)
(* the place in the backend's journal, moved by replies that may be late,  *)
(* overlap, or come in another order than they were asked for.             *)
(***************************************************************************)
EXTENDS Integers, FiniteSets, FiniteSetsExt

CONSTANTS
    Nodes,       \* URLs the user may connect to
    NoNode,      \* the empty URL
    Slots,       \* bound: calls under way at once
    PageSize,    \* entries the backend puts in one reply (100 in getTableJson)
    MaxJournal,  \* bound: entries the backend writes
    MayFail      \* whether calls may end in an error or a reply that is not sensible

ASSUME SyncAssumption ==
    /\ NoNode \notin Nodes
    /\ PageSize \in Nat \ {0}
    /\ MaxJournal \in Nat
    /\ MayFail \in BOOLEAN

Idle == "Idle"
Up   == {"Synchronized", "SynchronizedStale"}       \* above SyncStatus::Connected
SyncStatus == Up \cup {Idle, "WaitingForConnection", "RecoveringConnection"}

Calls == [kind : {"info", "journal", "rows"}, after : Nat, first : Nat, last : Nat,
          answered : BOOLEAN]
NoCall == [kind |-> "none"]

VARIABLES
    nodeUrl,
    syncStatus,
    syncTimer,          \* whether the timer runs
    headFresh,          \* the head block is at most 10 s old
    lastJournalEntry,   \* ID of the last entry read; 0 while it is invalid
    calls,              \* slot -> a call under way, or NoCall
    written,            \* entries in the backend's journal
    told                \* entries the tables were told of, or have read the effect of

vars == <<nodeUrl, syncStatus, syncTimer, headFresh, lastJournalEntry, calls, written, told>>
connection == <<nodeUrl, syncStatus, syncTimer>>

(***************************************************************************)
(* Connecting                                                              *)
(***************************************************************************)

\* beginSync asks for the chain info, and for the entries after the last one read or, if
\* none was read, for the last entry.
NewCall(kind, after) == [kind |-> kind, after |-> after, first |-> 0, last |-> 0,
                         answered |-> FALSE]
InfoCall    == NewCall("info", 0)
RowsCall    == NewCall("rows", 0)
JournalCall_OneTooFar == NewCall("journal", lastJournalEntry + 1)
JournalCall == NewCall("journal", lastJournalEntry)

FreeSlots == {s \in Slots : calls[s] = NoCall}

\* Which slots are taken does not matter.
BeginSync ==
    LET i == CHOOSE s \in FreeSlots : TRUE
        j == CHOOSE s \in FreeSlots \ {i} : TRUE
    IN  /\ \E s, t \in FreeSlots : s # t
        /\ calls' = [calls EXCEPT ![i] = InfoCall, ![j] = JournalCall]

Disconnect_TimerRunsOn ==
    /\ syncStatus' = Idle
    /\ UNCHANGED <<nodeUrl, syncTimer, headFresh, lastJournalEntry, calls, written, told>>

\* disconnect() leaves the calls under way alone.
Disconnect ==
    /\ syncStatus' = Idle
    /\ syncTimer' = FALSE
    /\ UNCHANGED <<nodeUrl, headFresh, lastJournalEntry, calls, written, told>>

ConnectNow ==
    /\ syncStatus' = "WaitingForConnection"
    /\ syncTimer' = TRUE
    /\ BeginSync

\* nodeUrlChanged leads to connectNow, which returns early on an empty or invalid URL: what
\* runs goes on running.
SetNodeUrl(url) ==
    /\ nodeUrl # url
    /\ nodeUrl' = url
    /\ IF url = NoNode THEN UNCHANGED <<syncStatus, syncTimer, calls>> ELSE ConnectNow
    /\ UNCHANGED <<headFresh, lastJournalEntry, written, told>>

Tick ==
    /\ syncTimer
    /\ BeginSync
    /\ UNCHANGED <<connection, headFresh, lastJournalEntry, written, told>>

\* A table asks for rows, or a transaction for a block.  The two slots left are for beginSync,
\* which in the code no number of calls can hold up.
TableCalls ==
    /\ Cardinality(FreeSlots) > 2
    /\ calls' = [calls EXCEPT ![CHOOSE s \in FreeSlots : TRUE] = RowsCall]
    /\ UNCHANGED <<connection, headFresh, lastJournalEntry, written, told>>

(***************************************************************************)
(* The backend                                                             *)
(***************************************************************************)

Write ==
    /\ written < MaxJournal
    /\ written' = written + 1
    /\ UNCHANGED <<connection, headFresh, lastJournalEntry, calls, told>>

\* The entries a journal call is answered with: first..last, none if last < first.  What
\* was asked is no longer needed then.
Answered(call, first, last) ==
    [kind |-> call.kind, after |-> 0, first |-> first, last |-> last, answered |-> TRUE]

NodeAnswers(s) ==
    LET call == calls[s]
    IN  /\ call # NoCall /\ ~call.answered
        /\ calls' = [calls EXCEPT ![s] =
             IF call.kind # "journal" THEN Answered(call, 0, 0)
             ELSE IF call.after = 0 THEN Answered(call, written, written)
             ELSE Answered(call, call.after + 1, Min({call.after + PageSize, written}))]
        /\ UNCHANGED <<connection, headFresh, lastJournalEntry, written, told>>

(***************************************************************************)
(* Replies                                                                 *)
(***************************************************************************)

Finished(s) == calls' = [calls EXCEPT ![s] = NoCall]

StatusOf_OnlyFresh(fresh) == IF fresh THEN "Synchronized" ELSE "RecoveringConnection"

StatusOf(fresh) == IF fresh THEN "Synchronized" ELSE "SynchronizedStale"

\* The info reply tells how old the head block is before the status is set from it.  If the
\* reply is not sensible, the status set for that is at once overwritten.
InfoReply(s, sensible, fresh) ==
    /\ calls[s] # NoCall /\ calls[s].kind = "info" /\ calls[s].answered
    /\ Finished(s)
    /\ headFresh' = IF sensible THEN fresh ELSE headFresh
    /\ syncStatus' = StatusOf(headFresh')
    /\ UNCHANGED <<nodeUrl, syncTimer, lastJournalEntry, written, told>>

RowsReply(s) ==
    /\ calls[s] # NoCall /\ calls[s].kind = "rows" /\ calls[s].answered
    /\ Finished(s)
    /\ syncStatus' = StatusOf(headFresh)
    /\ UNCHANGED <<nodeUrl, syncTimer, headFresh, lastJournalEntry, written, told>>

Follows_Overlapping(first) == lastJournalEntry # 0 /\ first <= lastJournalEntry + 1
Follows_Unchecked(first) == lastJournalEntry # 0

\* The reply goes on where the last one ended.
Follows(first) == lastJournalEntry # 0 /\ first = lastJournalEntry + 1

JournalReply_FullPage(s) ==
    LET call == calls[s]
    IN  /\ call # NoCall /\ call.kind = "journal" /\ call.answered
        /\ Finished(s)
        /\ IF call.last < call.first \/ call.last = 0
           THEN UNCHANGED <<lastJournalEntry, told>>
           ELSE /\ lastJournalEntry' = call.first + PageSize - 1
                /\ told' = IF Follows(call.first) THEN told \cup (call.first .. call.last)
                                                  ELSE 1 .. written
        /\ UNCHANGED <<connection, headFresh, written>>

\* newJournalEntries tells the tables of the entries; refreshAllTables makes them read all
\* their rows, which stand for everything written so far.
JournalReply(s) ==
    LET call == calls[s]
    IN  /\ call # NoCall /\ call.kind = "journal" /\ call.answered
        /\ Finished(s)
        /\ IF call.last < call.first \/ call.last = 0
           THEN UNCHANGED <<lastJournalEntry, told>>
           ELSE /\ lastJournalEntry' = call.last
                /\ told' = IF Follows(call.first) THEN told \cup (call.first .. call.last)
                                                  ELSE 1 .. written
        /\ UNCHANGED <<connection, headFresh, written>>

\* An error is noticed unless the call was for the journal.
CallFails(s) ==
    /\ MayFail /\ calls[s] # NoCall
    /\ Finished(s)
    /\ syncStatus' = CASE calls[s].kind = "journal" -> syncStatus
                       [] calls[s].kind # "journal" /\ syncStatus \in Up -> "RecoveringConnection"
                       [] OTHER -> "WaitingForConnection"
    /\ UNCHANGED <<nodeUrl, syncTimer, headFresh, lastJournalEntry, written, told>>

JournalNonsense(s) ==
    /\ MayFail /\ calls[s] # NoCall /\ calls[s].kind = "journal"
    /\ Finished(s)
    /\ syncStatus' = "RecoveringConnection"
    /\ UNCHANGED <<nodeUrl, syncTimer, headFresh, lastJournalEntry, written, told>>

HeadAges ==
    /\ headFresh
    /\ headFresh' = FALSE
    /\ UNCHANGED <<connection, lastJournalEntry, calls, written, told>>

(***************************************************************************)
(* The specification                                                       *)
(***************************************************************************)

Init ==
    /\ nodeUrl = NoNode
    /\ syncStatus = Idle
    /\ syncTimer = FALSE
    /\ headFresh = FALSE
    /\ lastJournalEntry = 0
    /\ calls = [s \in Slots |-> NoCall]
    /\ written = 0
    /\ told = {}

UserStep == Disconnect \/ \E url \in Nodes \cup {NoNode} : SetNodeUrl(url)

AnInfoReply(s) ==
    \E sensible, fresh \in BOOLEAN : (sensible \/ MayFail) /\ InfoReply(s, sensible, fresh)
Answers(kind) == \E s \in Slots : calls[s].kind = kind /\ NodeAnswers(s)
CallEnds(s) ==
    AnInfoReply(s) \/ RowsReply(s) \/ JournalReply(s) \/ CallFails(s) \/ JournalNonsense(s)

Next ==
    \/ UserStep
    \/ Tick \/ TableCalls \/ Write \/ HeadAges
    \/ \E s \in Slots : NodeAnswers(s) \/ CallEnds(s)

Spec == Init /\ [][Next]_vars

\* The timer ticks on, every call ends (by an answer, or by the network's error), and a node
\* that is asked for ever answers, now and then, each of the two questions of a
\* synchronisation.
Fairness ==
    /\ SF_vars(Tick)
    /\ \A s \in Slots : WF_vars(NodeAnswers(s)) /\ WF_vars(CallEnds(s))
    /\ \A kind \in {"info", "journal"} : SF_vars(Answers(kind))
    /\ SF_vars(\E s \in Slots : AnInfoReply(s))
    /\ SF_vars(\E s \in Slots : JournalReply(s))

FairSpec == Spec /\ Fairness

(***************************************************************************)
(* Properties                                                              *)
(***************************************************************************)

\* The type of every variable.
TypeOK ==
    /\ nodeUrl \in Nodes \cup {NoNode}
    /\ syncStatus \in SyncStatus
    /\ syncTimer \in BOOLEAN /\ headFresh \in BOOLEAN
    /\ written \in Nat /\ told \subseteq 1 .. written
    /\ lastJournalEntry \in 0 .. written
    /\ calls \in [Slots -> Calls \cup {NoCall}]
    /\ \A s \in Slots : calls[s] # NoCall => calls[s].last <= written

\* However the replies to overlapping synchronisations are ordered, the journal is read as
\* JournalFeed says: entries behind the place are told in order, and the place is put
\* elsewhere, forward or back, only together with a refresh of every table.
Feed == INSTANCE JournalFeed WITH place <- lastJournalEntry
FeedsTheTables == Feed!Spec

\* Every entry up to the last one read has reached the tables: the next synchronisation
\* does not ask for it again.
NothingSkipped == 1 .. lastJournalEntry \subseteq told

\* While the client synchronises, every entry of the journal reaches the tables.
EntriesReachTables ==
    \A i \in 1 .. MaxJournal : (written >= i /\ syncTimer) ~> (i \in told \/ ~syncTimer)

\* While the client synchronises, a node that answers is seen to be up.
ConnectionComesUp == syncTimer ~> (syncStatus \in Up \/ ~syncTimer)

\* A client that synchronises never counts as not connected.
SynchronisingIsNotIdle == syncTimer => syncStatus # Idle

\* disconnect() puts an end to the calls under way: none of them changes the status later.
AbortedCallsAreIgnored == ~syncTimer => syncStatus = Idle
=============================================================================
