---------------------- MODULE BlockchainInterfaceProofs ----------------------
(***************************************************************************)
(* For any number of nodes, of calls under way and of journal entries, and *)
(* whatever the order of the replies: no entry of the journal up to the    *)
(* place read has been kept from the tables, and the synchronisation       *)
(* implements JournalFeed.                                                 *)
(***************************************************************************)
EXTENDS BlockchainInterface, TLAPS

\* TypeOK bounds what a reply may carry by what is written, and that is all the other
\* conjuncts rest on: an accepted reply starts at the next entry, and any other reply comes
\* with a refresh.
IInv == TypeOK /\ NothingSkipped /\ SynchronisingIsNotIdle

\* A call under way, or a slot for one, is what TypeOK says.
CallOK(c) == c \in Calls \cup {NoCall} /\ (c # NoCall => c.last <= written)

LEMMA CallsOK == TypeOK => \A s \in Slots : CallOK(calls[s])
  BY DEF TypeOK, CallOK

\* The calls a client makes are of the type.
LEMMA NewCalls ==
    ASSUME TypeOK
    PROVE  CallOK(InfoCall) /\ CallOK(JournalCall) /\ CallOK(RowsCall) /\ CallOK(NoCall)
  <1>1. ASSUME NEW kind \in {"info", "journal", "rows"}, NEW after \in Nat
        PROVE  NewCall(kind, after) \in Calls /\ NewCall(kind, after).last = 0
    BY DEF NewCall, Calls
  <1>2. lastJournalEntry \in Nat /\ 0 <= written  BY DEF TypeOK
  <1> QED  BY <1>1, <1>2 DEF CallOK, InfoCall, JournalCall, RowsCall

\* The slots a synchronisation takes are slots.
LEMMA FreeOnes ==
    ASSUME \E s, t \in FreeSlots : s # t
    PROVE  LET i == CHOOSE s \in FreeSlots : TRUE
               j == CHOOSE s \in FreeSlots \ {i} : TRUE
           IN  i \in Slots /\ j \in Slots
  <1> DEFINE i == CHOOSE s \in FreeSlots : TRUE
             j == CHOOSE s \in FreeSlots \ {i} : TRUE
  <1>1. i \in FreeSlots  OBVIOUS
  <1> HIDE DEF i
  <1>2. \E s \in FreeSlots \ {i} : TRUE  OBVIOUS
  <1>3. j \in FreeSlots \ {i}  BY <1>2
  <1> QED  BY <1>1, <1>3 DEF FreeSlots

\* A synchronisation adds two calls to those under way.
LEMMA BeginSyncOK ==
    ASSUME TypeOK, BeginSync
    PROVE  calls' \in [Slots -> Calls \cup {NoCall}] /\ \A s \in Slots : CallOK(calls'[s])
  <1> DEFINE i == CHOOSE s \in FreeSlots : TRUE
             j == CHOOSE s \in FreeSlots \ {i} : TRUE
  <1>1. calls' = [calls EXCEPT ![i] = InfoCall, ![j] = JournalCall]  BY DEF BeginSync
  <1>2. CallOK(InfoCall) /\ CallOK(JournalCall)  BY NewCalls
  <1> HIDE DEF i, j
  <1> QED  BY <1>1, <1>2, CallsOK DEF CallOK, TypeOK

\* The smaller of two numbers is one of them and no more than either.
LEMMA MinOfTwo ==
    ASSUME NEW a \in Nat, NEW b \in Nat
    PROVE  Min({a, b}) \in {a, b} /\ Min({a, b}) <= a /\ Min({a, b}) <= b
  <1>1. \E x \in {a, b} : \A y \in {a, b} : x <= y  OBVIOUS
  <1> QED  BY <1>1 DEF Min

-----------------------------------------------------------------------------

LEMMA InitIInv == Init => IInv
  <1> SUFFICES ASSUME Init PROVE IInv  OBVIOUS
  <1>1. TypeOK
    <2>1. calls \in [Slots -> Calls \cup {NoCall}] /\ \A s \in Slots : calls[s] = NoCall
      BY DEF Init
    <2>2. \A s \in Slots : calls[s] # NoCall => calls[s].last <= written  BY <2>1
    <2>3. nodeUrl \in Nodes \cup {NoNode} /\ syncStatus \in SyncStatus
      BY DEF Init, SyncStatus
    <2>4. syncTimer \in BOOLEAN /\ headFresh \in BOOLEAN  BY DEF Init
    <2>5. written \in Nat /\ told \subseteq 1 .. written /\ lastJournalEntry \in 0 .. written
      BY DEF Init
    <2> QED  BY <2>1, <2>2, <2>3, <2>4, <2>5 DEF TypeOK
  <1>2. NothingSkipped /\ SynchronisingIsNotIdle
    BY DEF Init, NothingSkipped, SynchronisingIsNotIdle
  <1> QED  BY <1>1, <1>2 DEF IInv

\* What leaves the journal alone keeps IInv if it keeps the types of the rest.
LEMMA Elsewhere ==
    ASSUME IInv, UNCHANGED <<lastJournalEntry, written, told>>,
           nodeUrl' \in Nodes \cup {NoNode}, syncStatus' \in SyncStatus,
           syncTimer' \in BOOLEAN, headFresh' \in BOOLEAN, syncTimer' => syncStatus' # Idle,
           calls' \in [Slots -> Calls \cup {NoCall}], \A s \in Slots : CallOK(calls'[s])
    PROVE  IInv'
  BY DEF IInv, TypeOK, NothingSkipped, SynchronisingIsNotIdle, CallOK

LEMMA UserStepIInv == ASSUME IInv, UserStep PROVE IInv'
  <1> USE DEF IInv
  <1>1. CASE Disconnect
    BY <1>1, CallsOK, Elsewhere DEF Disconnect, TypeOK, SyncStatus
  <1>2. ASSUME NEW url \in Nodes \cup {NoNode}, SetNodeUrl(url) PROVE IInv'
    <2>1. CASE url = NoNode
      BY <1>2, <2>1, CallsOK, Elsewhere DEF SetNodeUrl, TypeOK, SynchronisingIsNotIdle
    <2>2. CASE url # NoNode
      <3>1. ConnectNow  BY <1>2, <2>2 DEF SetNodeUrl
      <3>2. calls' \in [Slots -> Calls \cup {NoCall}] /\ \A s \in Slots : CallOK(calls'[s])
        BY <3>1, BeginSyncOK DEF ConnectNow
      <3> QED  BY <1>2, <3>1, <3>2, Elsewhere DEF SetNodeUrl, ConnectNow, TypeOK, SyncStatus, Idle
    <2> QED  BY <2>1, <2>2
  <1> QED  BY <1>1, <1>2 DEF UserStep

LEMMA TickIInv == ASSUME IInv, Tick PROVE IInv'
  <1>1. calls' \in [Slots -> Calls \cup {NoCall}] /\ \A s \in Slots : CallOK(calls'[s])
    BY BeginSyncOK DEF Tick, IInv
  <1> QED  BY <1>1, Elsewhere DEF Tick, connection, IInv, TypeOK, SynchronisingIsNotIdle

LEMMA TableCallsIInv == ASSUME IInv, TableCalls PROVE IInv'
  <1>1. CallOK(RowsCall)  BY NewCalls DEF IInv
  <1>2. calls' \in [Slots -> Calls \cup {NoCall}] /\ \A s \in Slots : CallOK(calls'[s])
    BY <1>1, CallsOK DEF TableCalls, IInv, TypeOK, CallOK
  <1> QED  BY <1>2, Elsewhere DEF TableCalls, connection, IInv, TypeOK, SynchronisingIsNotIdle

LEMMA WriteIInv == ASSUME IInv, Write PROVE IInv'
  <1>1. calls' = calls /\ told' = told /\ lastJournalEntry' = lastJournalEntry
        /\ written' = written + 1
    BY DEF Write
  <1>2. written \in Nat /\ 1 .. written \subseteq 1 .. written'
        /\ 0 .. written \subseteq 0 .. written'
    BY <1>1 DEF IInv, TypeOK
  <1>3. \A s \in Slots : calls[s] # NoCall => calls[s].last <= written'
    <2> SUFFICES ASSUME NEW s \in Slots, calls[s] # NoCall PROVE calls[s].last <= written'
      OBVIOUS
    <2>1. calls[s] \in Calls /\ calls[s].last <= written  BY DEF IInv, TypeOK
    <2>2. calls[s].last \in Nat  BY <2>1 DEF Calls
    <2> QED  BY <1>1, <1>2, <2>1, <2>2
  <1> QED  BY <1>1, <1>2, <1>3 DEF IInv, TypeOK, NothingSkipped, SynchronisingIsNotIdle, Write,
                                   connection

LEMMA HeadAgesIInv == ASSUME IInv, HeadAges PROVE IInv'
  BY CallsOK, Elsewhere DEF HeadAges, connection, IInv, TypeOK, SynchronisingIsNotIdle

\* An answer to a question after an entry there is ends with an entry there is.
LEMMA NodeAnswersIInv == ASSUME IInv, NEW s \in Slots, NodeAnswers(s) PROVE IInv'
  <1>1. calls[s] \in Calls /\ calls[s].last <= written /\ written \in Nat
    BY DEF NodeAnswers, IInv, TypeOK
  <1>2. CallOK(calls'[s])
    <2> DEFINE call == calls[s]
    <2>1. ASSUME NEW first \in Nat, NEW last \in Nat, last <= written
          PROVE  CallOK(Answered(call, first, last))
      BY <1>1, <2>1 DEF CallOK, Calls, Answered
    <2>2. call.after \in Nat /\ PageSize \in Nat  BY <1>1, SyncAssumption DEF Calls
    <2>3. Min({call.after + PageSize, written}) \in Nat
          /\ Min({call.after + PageSize, written}) <= written
      BY <1>1, <2>2, MinOfTwo
    <2>4. CASE call.kind # "journal"
      <3>1. calls'[s] = Answered(call, 0, 0)  BY <2>4 DEF NodeAnswers, IInv, TypeOK
      <3> QED  BY <1>1, <2>1, <3>1
    <2>5. CASE call.kind = "journal" /\ call.after = 0
      <3>1. calls'[s] = Answered(call, written, written)
        BY <2>5 DEF NodeAnswers, IInv, TypeOK
      <3> QED  BY <1>1, <2>1, <3>1
    <2>6. CASE call.kind = "journal" /\ call.after # 0
      <3>1. calls'[s] = Answered(call, call.after + 1, Min({call.after + PageSize, written}))
        BY <2>6 DEF NodeAnswers, IInv, TypeOK
      <3> QED  BY <2>1, <2>2, <2>3, <3>1
    <2> QED  BY <2>4, <2>5, <2>6
  <1>3. \A t \in Slots \ {s} : calls'[t] = calls[t]  BY DEF NodeAnswers, IInv, TypeOK
  <1>4. calls' \in [Slots -> Calls \cup {NoCall}] /\ \A t \in Slots : CallOK(calls'[t])
    <2>1. \A t \in Slots : CallOK(calls'[t])  BY <1>2, <1>3, CallsOK DEF IInv
    <2>2. \E f : calls' = [calls EXCEPT ![s] = f]  BY DEF NodeAnswers
    <2> QED  BY <2>1, <2>2 DEF CallOK, IInv, TypeOK
  <1> QED  BY <1>4, Elsewhere DEF NodeAnswers, connection, IInv, TypeOK, SynchronisingIsNotIdle

\* A call that has ended leaves its slot free.
LEMMA FinishedOK ==
    ASSUME TypeOK, NEW s \in Slots, Finished(s)
    PROVE  calls' \in [Slots -> Calls \cup {NoCall}] /\ \A t \in Slots : CallOK(calls'[t])
  BY CallsOK, NewCalls DEF Finished, TypeOK, CallOK

\* The journal's reply: going on from the place read, or starting anew with a refresh.
LEMMA JournalReplyStep ==
    ASSUME IInv, NEW s \in Slots, JournalReply(s)
    PROVE  \/ UNCHANGED <<written, lastJournalEntry, told>>
           \/ /\ lastJournalEntry' \in lastJournalEntry + 1 .. written
              /\ told' = told \cup (lastJournalEntry + 1 .. lastJournalEntry')
              /\ UNCHANGED written
           \/ /\ lastJournalEntry' \in 0 .. written
              /\ told' = 1 .. written
              /\ UNCHANGED written
  <1> DEFINE call == calls[s]
  <1>1. call \in Calls /\ call.last <= written /\ written \in Nat /\ lastJournalEntry \in Nat
    BY DEF JournalReply, IInv, TypeOK
  <1>2. call.first \in Nat /\ call.last \in Nat  BY <1>1 DEF Calls
  <1>3. CASE call.last < call.first \/ call.last = 0  BY <1>3 DEF JournalReply
  <1>4. CASE ~(call.last < call.first \/ call.last = 0)
    <2>1. lastJournalEntry' = call.last /\ UNCHANGED written
          /\ told' = IF Follows(call.first) THEN told \cup (call.first .. call.last)
                                            ELSE 1 .. written
      BY <1>4 DEF JournalReply
    <2>2. CASE Follows(call.first)
      BY <1>1, <1>2, <1>4, <2>1, <2>2 DEF Follows
    <2>3. CASE ~Follows(call.first)
      BY <1>1, <1>2, <2>1, <2>3
    <2> QED  BY <2>2, <2>3
  <1> QED  BY <1>3, <1>4

LEMMA JournalReplyIInv == ASSUME IInv, NEW s \in Slots, JournalReply(s) PROVE IInv'
  <1>1. Finished(s) /\ UNCHANGED <<connection, headFresh, written>>  BY DEF JournalReply
  <1>2. calls' \in [Slots -> Calls \cup {NoCall}] /\ \A t \in Slots : CallOK(calls'[t])
    BY <1>1, FinishedOK DEF IInv
  <1>3. /\ lastJournalEntry' \in 0 .. written' /\ told' \subseteq 1 .. written'
        /\ 1 .. lastJournalEntry' \subseteq told'
    <2>1. /\ written \in Nat /\ lastJournalEntry \in 0 .. written /\ told \subseteq 1 .. written
          /\ 1 .. lastJournalEntry \subseteq told
      BY DEF IInv, TypeOK, NothingSkipped
    <2>2. CASE UNCHANGED <<written, lastJournalEntry, told>>  BY <2>1, <2>2
    <2>3. CASE /\ lastJournalEntry' \in lastJournalEntry + 1 .. written
               /\ told' = told \cup (lastJournalEntry + 1 .. lastJournalEntry')
               /\ UNCHANGED written
      BY <2>1, <2>3
    <2>4. CASE /\ lastJournalEntry' \in 0 .. written
               /\ told' = 1 .. written
               /\ UNCHANGED written
      BY <2>1, <2>4
    <2> QED  BY <2>2, <2>3, <2>4, JournalReplyStep
  <1> QED  BY <1>1, <1>2, <1>3 DEF connection, IInv, TypeOK, NothingSkipped,
                                   SynchronisingIsNotIdle, CallOK

LEMMA CallEndsIInv == ASSUME IInv, NEW s \in Slots, CallEnds(s) PROVE IInv'
  <1>0. ASSUME Finished(s)
        PROVE  calls' \in [Slots -> Calls \cup {NoCall}] /\ \A t \in Slots : CallOK(calls'[t])
    BY <1>0, FinishedOK DEF IInv
  <1>1. ASSUME NEW sensible \in BOOLEAN, NEW fresh \in BOOLEAN, InfoReply(s, sensible, fresh)
        PROVE  IInv'
    BY <1>0, <1>1, Elsewhere DEF InfoReply, StatusOf, SyncStatus, Up, Idle, IInv, TypeOK
  <1>2. CASE RowsReply(s)
    BY <1>0, <1>2, Elsewhere DEF RowsReply, StatusOf, SyncStatus, Up, Idle, IInv, TypeOK
  <1>3. CASE JournalReply(s)  BY <1>3, JournalReplyIInv
  <1>4. CASE CallFails(s)
    <2>1. syncStatus' \in SyncStatus /\ (syncTimer' => syncStatus' # Idle)
      BY <1>4 DEF CallFails, SyncStatus, Up, Idle, IInv, TypeOK, SynchronisingIsNotIdle
    <2> QED  BY <1>0, <1>4, <2>1, Elsewhere DEF CallFails, IInv, TypeOK
  <1>5. CASE JournalNonsense(s)
    BY <1>0, <1>5, Elsewhere DEF JournalNonsense, SyncStatus, Idle, IInv, TypeOK
  <1> QED  BY <1>1, <1>2, <1>3, <1>4, <1>5 DEF CallEnds, AnInfoReply

LEMMA NextIInv == IInv /\ [Next]_vars => IInv'
  <1> SUFFICES ASSUME IInv, [Next]_vars PROVE IInv'  OBVIOUS
  <1>1. CASE UserStep  BY <1>1, UserStepIInv
  <1>2. CASE Tick \/ TableCalls  BY <1>2, TickIInv, TableCallsIInv
  <1>3. CASE Write \/ HeadAges  BY <1>3, WriteIInv, HeadAgesIInv
  <1>4. ASSUME NEW s \in Slots, NodeAnswers(s) \/ CallEnds(s) PROVE IInv'
    BY <1>4, NodeAnswersIInv, CallEndsIInv
  <1>5. CASE UNCHANGED vars
    BY <1>5, CallsOK, Elsewhere DEF vars, IInv, TypeOK, SynchronisingIsNotIdle
  <1> QED  BY <1>1, <1>2, <1>3, <1>4, <1>5 DEF Next

-----------------------------------------------------------------------------

\* The inductive invariant holds in every behaviour of BlockchainInterface.
THEOREM SyncInvariance == Spec => []IInv
  BY InitIInv, NextIInv, PTL DEF Spec

\* processJournalReply never loses an entry: when the place read is moved, every entry up to
\* it is handed to the tables or covered by a refresh, however late and in whatever order
\* the replies come.
THEOREM NoEntrySkipped == Spec => []NothingSkipped
  <1>1. IInv => NothingSkipped  BY DEF IInv
  <1> QED  BY <1>1, SyncInvariance, PTL

\* The types, and with them that the client never has read further than is written.
THEOREM SyncTypeCorrect == Spec => []TypeOK
  <1>1. IInv => TypeOK  BY DEF IInv
  <1> QED  BY <1>1, SyncInvariance, PTL

\* While the synchronisation timer runs no handler, of whatever call and however late, makes the
\* status Idle: only disconnect() does, and it stops the timer.
THEOREM SyncNotIdle == Spec => []SynchronisingIsNotIdle
  <1>1. IInv => SynchronisingIsNotIdle  BY DEF IInv
  <1> QED  BY <1>1, SyncInvariance, PTL

\* beginSync and processJournalReply implement JournalFeed.
THEOREM ImplementsJournalFeed == Spec => FeedsTheTables
  <1>1. Init => Feed!Init  BY DEF Init, Feed!Init
  <1>2. IInv /\ [Next]_vars => [Feed!Next]_(Feed!vars)
    <2> SUFFICES ASSUME IInv, [Next]_vars PROVE [Feed!Next]_(Feed!vars)  OBVIOUS
    <2> USE DEF Feed!Next, Feed!Write, Feed!Tell, Feed!TellAll, Feed!vars
    <2>1. CASE UserStep  BY <2>1 DEF UserStep, Disconnect, SetNodeUrl
    <2>2. CASE Tick \/ TableCalls \/ HeadAges  BY <2>2 DEF Tick, TableCalls, HeadAges
    <2>3. CASE Write  BY <2>3 DEF Write
    <2>4. ASSUME NEW s \in Slots, NodeAnswers(s) \/ CallEnds(s)
          PROVE  [Feed!Next]_(Feed!vars)
      <3>1. CASE NodeAnswers(s)  BY <3>1 DEF NodeAnswers
      <3>2. CASE AnInfoReply(s) \/ RowsReply(s) \/ CallFails(s) \/ JournalNonsense(s)
        BY <3>2 DEF AnInfoReply, InfoReply, RowsReply, CallFails, JournalNonsense
      <3>3. CASE JournalReply(s)  BY <3>3, JournalReplyStep
      <3> QED  BY <2>4, <3>1, <3>2, <3>3 DEF CallEnds
    <2>5. CASE UNCHANGED vars  BY <2>5 DEF vars
    <2> QED  BY <2>1, <2>2, <2>3, <2>4, <2>5 DEF Next
  <1> QED  BY <1>1, <1>2, SyncInvariance, PTL DEF Spec, FeedsTheTables, Feed!Spec
=============================================================================
