-------------------- MODULE BroadcastableTransactionProofs --------------------
(***************************************************************************)
(* For a chain of any length, with any forks, and any number of overlapping*)
(* lookups: the status a transaction shows was earned.                     *)
(***************************************************************************)
EXTENDS BroadcastableTransaction, TLAPS

\* Nothing happens to the transaction before the broadcast is answered.
UntouchedBefore ==
    push.answer # "over" => status = "Pending" /\ blockNumber = 0 /\ ~listening

\* A confirmation names a block.
ConfirmationsName ==
    /\ push.answer = "confirmed" => push.block # 0
    /\ push.answer \in {"unsent", "sent", "rejected"} => push.block = 0

\* What a reply says was true when the node gave it.
RepliesAreTrue ==
    /\ home # 0 => home \in homes
    /\ \A s \in Slots : calls[s] = "found" => blockNumber \in homes

IInv == /\ TypeOK /\ UntouchedBefore /\ ConfirmationsName /\ RepliesAreTrue
        /\ LookedUpWasConfirmed /\ IrreversibleWasIncluded

LEMMA InitIInv == Init => IInv
  <1> SUFFICES ASSUME Init PROVE IInv  OBVIOUS
  <1>1. push = NoPush /\ push.answer = "unsent" /\ push.block = 0  BY DEF Init, NoPush
  <1>2. \A s \in Slots : calls[s] = "none"  BY DEF Init
  <1>3. push \in [answer : Answers, block : 0 .. MaxBlock]
    BY <1>1, TransactionAssumption DEF NoPush, Answers
  <1>4. TypeOK
    <2>1. calls \in [Slots -> {"none", "asked", "found", "notFound"}]  BY DEF Init
    <2>2. status \in TransactionStatus /\ listening \in BOOLEAN /\ first \in BOOLEAN
      BY DEF Init, TransactionStatus
    <2>3. head \in Nat /\ lib \in 0 .. head /\ home \in 0 .. head /\ homes \subseteq Nat
          /\ blockNumber = 0
      BY DEF Init
    <2> QED  BY <1>3, <2>1, <2>2, <2>3 DEF TypeOK
  <1>5. UntouchedBefore /\ ConfirmationsName  BY <1>1 DEF Init, UntouchedBefore, ConfirmationsName
  <1>6. RepliesAreTrue /\ LookedUpWasConfirmed /\ IrreversibleWasIncluded
    BY <1>2 DEF Init, RepliesAreTrue, LookedUpWasConfirmed, IrreversibleWasIncluded
  <1> QED  BY <1>4, <1>5, <1>6 DEF IInv

\* The chain's steps: homes only grows, and what is in it stays true.
LEMMA ChainStepIInv == ASSUME IInv, ChainStep PROVE IInv'
  <1> USE DEF IInv, TypeOK, UntouchedBefore, ConfirmationsName, RepliesAreTrue,
              LookedUpWasConfirmed, IrreversibleWasIncluded, client
  <1>1. CASE ProduceBlock
    <2>1. /\ head' = head + 1 /\ head' \in Nat /\ lib' = lib /\ homes \subseteq homes'
          /\ UNCHANGED <<status, blockNumber, listening, push, calls>>
      BY <1>1 DEF ProduceBlock
    <2>2. lib' \in 0 .. head' /\ home' \in 0 .. head' /\ first' \in BOOLEAN
          /\ homes' \subseteq Nat /\ (home' # 0 => home' \in homes')
      BY <1>1, <2>1 DEF ProduceBlock
    <2> QED  BY <2>1, <2>2
  <1>2. CASE Fork  BY <1>2 DEF Fork
  <1>3. CASE Finalize  BY <1>3 DEF Finalize
  <1> QED  BY <1>1, <1>2, <1>3 DEF ChainStep

\* The broadcast: until it is answered no lookup is under way.
LEMMA PushStepIInv == ASSUME IInv, PushStep PROVE IInv'
  <1> USE TransactionAssumption DEF IInv, TypeOK, TransactionStatus, Answers, UntouchedBefore,
          ConfirmationsName, RepliesAreTrue, LookedUpWasConfirmed, IrreversibleWasIncluded,
          client, chain
  <1>1. CASE Submit  BY <1>1 DEF Submit, NoPush
  <1>2. CASE NodeAnswersPush  BY <1>2 DEF NodeAnswersPush
  <1>3. CASE PushFails  BY <1>3 DEF PushFails
  <1>4. CASE BroadcastFinished
    <2>1. \A s \in Slots : calls[s] = "none"  BY <1>4 DEF BroadcastFinished
    <2>2. push' = [push EXCEPT !.answer = "over"] /\ UNCHANGED <<calls, chain>>
      BY <1>4 DEF BroadcastFinished
    <2>3. CASE push.answer = "rejected"  BY <1>4, <2>1, <2>2, <2>3 DEF BroadcastFinished
    <2>4. CASE push.answer = "confirmed"
      BY <1>4, <2>1, <2>2, <2>4 DEF BroadcastFinished, Confirmation
    <2>5. CASE push.answer = "silent"  BY <1>4, <2>1, <2>2, <2>5 DEF BroadcastFinished
    <2> QED  BY <1>4, <2>3, <2>4, <2>5 DEF BroadcastFinished
  <1> QED  BY <1>1, <1>2, <1>3, <1>4 DEF PushStep

\* A lookup starts only from Confirmed.
LEMMA HeadBlockChangedIInv == ASSUME IInv, HeadBlockChanged PROVE IInv'
  <1>1. UNCHANGED <<status, blockNumber, push, home, homes, head, lib, first>>
    BY DEF HeadBlockChanged, chain
  <1>2. listening' \in BOOLEAN /\ (listening' => listening)
    <2>1. listening' = listening \/ listening' = FALSE  BY DEF HeadBlockChanged
    <2>2. listening \in BOOLEAN  BY DEF IInv, TypeOK
    <2>3. CASE listening' = listening  BY <2>2, <2>3
    <2>4. CASE listening' = FALSE  BY <2>4
    <2> QED  BY <2>1, <2>3, <2>4
  <1>3. CASE UNCHANGED calls
    BY <1>1, <1>2, <1>3 DEF IInv, TypeOK, UntouchedBefore, ConfirmationsName, RepliesAreTrue,
         LookedUpWasConfirmed, IrreversibleWasIncluded
  <1>4. CASE Ask /\ status = "Confirmed"
    <2>1. PICK s \in Slots : calls[s] = "none" /\ calls' = [calls EXCEPT ![s] = "asked"]
      BY <1>4 DEF Ask
    <2>2. \A t \in Slots : calls'[t] = "found" => calls[t] = "found"
      BY <2>1 DEF IInv, TypeOK
    <2>3. calls' \in [Slots -> {"none", "asked", "found", "notFound"}]
      BY <2>1 DEF IInv, TypeOK
    <2> QED  BY <1>1, <1>2, <1>4, <2>2, <2>3 DEF IInv, TypeOK, UntouchedBefore,
         ConfirmationsName, RepliesAreTrue, LookedUpWasConfirmed, IrreversibleWasIncluded
  <1> QED  BY <1>3, <1>4 DEF HeadBlockChanged

\* A reply says what the status becomes, whatever came between.
LEMMA BlockStepIInv == ASSUME IInv, NEW s \in Slots, BlockStep(s) PROVE IInv'
  <1> USE DEF IInv, TypeOK, TransactionStatus, UntouchedBefore, ConfirmationsName, RepliesAreTrue,
              LookedUpWasConfirmed, IrreversibleWasIncluded, client, chain
  <1>1. CASE NodeAnswersBlock(s)  BY <1>1 DEF NodeAnswersBlock
  <1>2. CASE BlockReply(s)  BY <1>2 DEF BlockReply, StatusOf
  <1>3. CASE BlockFails(s)  BY <1>3 DEF BlockFails
  <1> QED  BY <1>1, <1>2, <1>3 DEF BlockStep

LEMMA NextIInv == IInv /\ [Next]_vars => IInv'
  <1> SUFFICES ASSUME IInv, [Next]_vars PROVE IInv'  OBVIOUS
  <1>1. CASE UNCHANGED vars
    BY <1>1 DEF vars, client, chain, IInv, TypeOK, UntouchedBefore, ConfirmationsName,
                RepliesAreTrue, LookedUpWasConfirmed, IrreversibleWasIncluded
  <1>2. CASE Next
    BY <1>2, ChainStepIInv, PushStepIInv, HeadBlockChangedIInv, BlockStepIInv DEF Next
  <1> QED  BY <1>1, <1>2

THEOREM TransactionInvariance == Spec => []IInv
  BY InitIInv, NextIInv, PTL DEF Spec

\* The types of the transaction's members, of the calls about it and of the chain.
THEOREM TransactionTypeCorrect == Spec => []TypeOK
  <1>1. IInv => TypeOK  BY DEF IInv
  <1> QED  BY <1>1, TransactionInvariance, PTL

\* BroadcastableTransaction says Irreversible only of a transaction that was in the block it
\* names, whatever forks and late replies there are.
THEOREM IrreversibleWasIncludedAlways == Spec => []IrreversibleWasIncluded
  <1>1. IInv => IrreversibleWasIncluded  BY DEF IInv
  <1> QED  BY <1>1, TransactionInvariance, PTL

\* headBlockChanged looks up confirmed transactions only.
THEOREM LookedUpWasConfirmedAlways == Spec => []LookedUpWasConfirmed
  <1>1. IInv => LookedUpWasConfirmed  BY DEF IInv
  <1> QED  BY <1>1, TransactionInvariance, PTL
=============================================================================
