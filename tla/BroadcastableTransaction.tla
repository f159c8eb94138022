----------------------- MODULE BroadcastableTransaction -----------------------
(***************************************************************************)
(* The life of a transaction after it was signed                           *)
(* (BroadcastableTransaction.cpp): it is pushed to the node, confirmed in  *)
(* a block, and looked up in that block each time the head block changes,  *)
(* until an answer settles its status.  Lookups may overlap, and the chain *)
(* may fork between them.                                                  *)
(***************************************************************************)
EXTENDS Integers

CONSTANTS
    Slots,      \* bound: blocks asked for and not yet received
    MaxBlock,   \* bound: blocks the chain grows to
    MayFail     \* whether calls may end in a network error

ASSUME TransactionAssumption == MaxBlock \in Nat /\ MayFail \in BOOLEAN

TransactionStatus == {"Pending", "Confirmed", "Irreversible", "Failed", "Unknown"}

VARIABLES
    status, blockNumber,
    listening,         \* whether headBlockChanged is connected
    push,              \* the push_transaction call and its answer
    calls,             \* slot -> "none", "asked", or what the block that came holds
    head, lib,         \* the chain's head block, and its last irreversible one
    home,              \* the block the transaction is in, 0 if it is in none
    first,             \* whether it is the first transaction of that block
    homes              \* every block it was ever in

client == <<status, blockNumber, listening>>
chain  == <<head, lib, home, first, homes>>
vars   == <<client, push, calls, chain>>

NoPush == [answer |-> "unsent", block |-> 0]
Answers == {"unsent", "sent", "confirmed", "rejected", "silent", "over"}

(***************************************************************************)
(* The node and the chain                                                  *)
(***************************************************************************)

\* submitTransaction.
Submit ==
    /\ push = NoPush
    /\ push' = [push EXCEPT !.answer = "sent"]
    /\ UNCHANGED <<client, calls, chain>>

\* The node runs the transaction and names the block being made, or rejects it; a network
\* error leaves the reply without content.
NodeAnswersPush ==
    /\ push.answer = "sent"
    /\ \/ head < MaxBlock /\ push' = [answer |-> "confirmed", block |-> head + 1]
       \/ push' = [push EXCEPT !.answer = "rejected"]
    /\ UNCHANGED <<client, calls, chain>>

PushFails ==
    /\ MayFail /\ push.answer \in {"sent", "confirmed"}
    /\ push' = [push EXCEPT !.answer = "silent"]
    /\ UNCHANGED <<client, calls, chain>>

\* A transaction the node took may get into any later block, at any place.
Taken == push.block # 0

ProduceBlock ==
    /\ head < MaxBlock
    /\ head' = head + 1
    /\ \/ UNCHANGED <<home, first, homes>>
       \/ /\ Taken /\ home = 0
          /\ home' = head'
          /\ first' \in BOOLEAN
          /\ homes' = homes \cup {head'}
    /\ UNCHANGED <<client, push, calls, lib>>

\* A fork takes back blocks that are not irreversible.
Fork ==
    /\ head' \in lib .. head - 1
    /\ home' = IF home > head' THEN 0 ELSE home
    /\ UNCHANGED <<client, push, calls, lib, first, homes>>

Finalize ==
    /\ lib < head
    /\ lib' = lib + 1
    /\ UNCHANGED <<client, push, calls, head, home, first, homes>>

(***************************************************************************)
(* The transaction                                                         *)
(***************************************************************************)

Confirmation_NotFollowed ==
    status' = "Confirmed" /\ blockNumber' = push.block /\ UNCHANGED listening

Confirmation_NextBlock ==
    status' = "Confirmed" /\ blockNumber' = push.block + 1 /\ listening' = TRUE

Confirmation == status' = "Confirmed" /\ blockNumber' = push.block /\ listening' = TRUE

\* A reply without an error starts the lookups, whatever it says.
BroadcastFinished ==
    /\ push.answer \in {"confirmed", "rejected", "silent"}
    /\ push' = [push EXCEPT !.answer = "over"]
    /\ CASE push.answer = "rejected" ->
              status' = "Failed" /\ UNCHANGED <<blockNumber, listening>>
         [] push.answer = "confirmed" -> Confirmation
         [] push.answer = "silent" ->
              listening' = TRUE /\ UNCHANGED <<status, blockNumber>>
    /\ UNCHANGED <<calls, chain>>

Ask == \E s \in Slots : calls[s] = "none" /\ calls' = [calls EXCEPT ![s] = "asked"]

HeadBlockChanged_AnyStatus ==
    /\ IF listening /\ head >= blockNumber THEN Ask ELSE UNCHANGED calls
    /\ UNCHANGED <<client, push, chain>>

HeadBlockChanged_NeverDisconnects ==
    /\ IF listening /\ status = "Confirmed" /\ head >= blockNumber THEN Ask ELSE UNCHANGED calls
    /\ UNCHANGED <<client, push, chain>>

\* An info reply brings the head block's number, and headBlockChanged is emitted.
HeadBlockChanged ==
    /\ \/ ~listening /\ UNCHANGED <<listening, calls>>
       \/ listening /\ status # "Confirmed" /\ listening' = FALSE /\ UNCHANGED calls
       \/ listening /\ status = "Confirmed" /\ UNCHANGED listening
          /\ IF head >= blockNumber THEN Ask ELSE UNCHANGED calls
    /\ UNCHANGED <<status, blockNumber, push, chain>>

\* get_block: an answer about a block the chain has; only its first transaction counts.
NodeAnswersBlock(s) ==
    /\ calls[s] = "asked" /\ blockNumber <= head
    /\ calls' = [calls EXCEPT ![s] = IF home = blockNumber /\ first THEN "found" ELSE "notFound"]
    /\ UNCHANGED <<client, push, chain>>

StatusOf_AnyBlock(answer) == "Irreversible"

StatusOf(answer) == IF answer = "found" THEN "Irreversible" ELSE "Unknown"

\* The status is set whatever it was.
BlockReply(s) ==
    /\ calls[s] \in {"found", "notFound"}
    /\ status' = StatusOf(calls[s])
    /\ calls' = [calls EXCEPT ![s] = "none"]
    /\ UNCHANGED <<blockNumber, listening, push, chain>>

\* A network error, or the error for a block that a fork took back.
BlockFails(s) ==
    /\ calls[s] # "none"
    /\ MayFail \/ (calls[s] = "asked" /\ blockNumber > head)
    /\ calls' = [calls EXCEPT ![s] = "none"]
    /\ UNCHANGED <<client, push, chain>>

(***************************************************************************)
(* The specification                                                       *)
(***************************************************************************)

Init ==
    /\ status = "Pending" /\ blockNumber = 0 /\ listening = FALSE
    /\ push = NoPush
    /\ calls = [s \in Slots |-> "none"]
    /\ head = 0 /\ lib = 0 /\ home = 0 /\ first = FALSE /\ homes = {}

ChainStep == ProduceBlock \/ Fork \/ Finalize
PushStep  == Submit \/ NodeAnswersPush \/ PushFails \/ BroadcastFinished
BlockStep(s) == NodeAnswersBlock(s) \/ BlockReply(s) \/ BlockFails(s)

Next == ChainStep \/ PushStep \/ HeadBlockChanged \/ \E s \in Slots : BlockStep(s)

Spec == Init /\ [][Next]_vars

\* The chain grows and becomes irreversible; the client goes on asking for the head block;
\* calls end, and not always in an error.
Fairness ==
    /\ WF_vars(ProduceBlock) /\ SF_vars(Finalize)
    /\ SF_vars(HeadBlockChanged)
    /\ \A s \in Slots : WF_vars(BlockStep(s))
    /\ SF_vars(\E s \in Slots : NodeAnswersBlock(s))
    /\ SF_vars(\E s \in Slots : BlockReply(s))

FairSpec == Spec /\ Fairness

(***************************************************************************)
(* Properties                                                              *)
(***************************************************************************)

\* The type of every variable.
TypeOK ==
    /\ status \in TransactionStatus /\ listening \in BOOLEAN
    /\ push \in [answer : Answers, block : 0 .. MaxBlock]
    /\ blockNumber \in {0, push.block}
    /\ calls \in [Slots -> {"none", "asked", "found", "notFound"}]
    /\ head \in Nat /\ lib \in 0 .. head /\ home \in 0 .. head /\ first \in BOOLEAN
    /\ homes \subseteq Nat

\* A status that came from a block is about a confirmed transaction: one whose broadcast
\* failed, or got no answer, is never looked up.
LookedUpWasConfirmed ==
    /\ status \in {"Confirmed", "Irreversible", "Unknown"} => blockNumber # 0
    /\ (\E s \in Slots : calls[s] # "none") =>
          status \in {"Confirmed", "Irreversible", "Unknown"}

\* Irreversible is claimed only of a transaction that has been in the block it names.
IrreversibleWasIncluded == status = "Irreversible" => blockNumber \in homes

\* A confirmed transaction gets its final status.
ConfirmedIsSettled == status = "Confirmed" ~> status # "Confirmed"

\* The transaction does not follow the head block for ever.
StopsListening == listening ~> ~listening
=============================================================================
