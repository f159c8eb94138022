----------------------------- MODULE KeyManager -----------------------------
(***************************************************************************)
(* The life of one transaction from the user's draft to the call that      *)
(* broadcasts it: MutableTransaction and its Actions, the KeyManager that  *)
(* packs, signs and packs it again, the SignableTransaction it makes of    *)
(* it, and the window in which the user confirms what that one holds.      *)
(*                                                                         *)
(* Names, which the packing squeezes into words, are as in EosioName.  Of  *)
(* the other arguments of an action only their presence is kept: JSON and  *)
(* the packing carry them through unchanged.  A digest is the thing it is  *)
(* a digest of, so is the zlib compression of the packed transaction.      *)
(***************************************************************************)
EXTENDS EosioName, FiniteSets

CONSTANTS
    Spelling,     \* action -> the name it has in the contract
    Contract,     \* Strings::Contract_name
    Active,       \* Strings::Active
    Accounts,     \* the account names the user types in
    Chains,       \* the chains the node may be on
    Lifetime,     \* seconds a transaction is given to get into a block
    Deadline,     \* milliseconds JSON conversion may take
    Conversions,  \* milliseconds it may take in this instance
    MaxActions,   \* bound: actions in a transaction
    MaxTime,      \* bound: seconds that pass
    MaxBlocks     \* bound: head blocks seen

ActionNames == {"voter.add", "voter.remove", "group.copy", "group.rename", "cntst.new",
                "cntst.modify", "cntst.tally", "cntst.delete", "dcsn.set"}

LegalActionArguments == [n \in ActionNames |->
    CASE n = "voter.add"    -> {"groupName", "voter", "weight", "tags"}
      [] n = "voter.remove" -> {"groupName", "voter"}
      [] n \in {"group.copy", "group.rename"} -> {"groupName", "newName"}
      [] n = "cntst.new"    -> {"groupId", "name", "description", "contestants", "begin", "end", "tags"}
      [] n = "cntst.modify" -> {"groupId", "contestId", "newName", "newDescription", "newTags",
                                "deleteContestants", "addContestants", "newBegin", "newEnd"}
      [] n \in {"cntst.tally", "cntst.delete"} -> {"groupId", "contestId"}
      [] n = "dcsn.set"     -> {"groupId", "contestId", "voterName", "opinions", "tags"}]

ArgumentNames == UNION {LegalActionArguments[n] : n \in ActionNames}

\* The arguments that hold an account name, and those that may be left unset (null).
AccountArguments  == {"voter", "voterName"}
OptionalArguments == {"newName", "newDescription", "newTags", "newBegin", "newEnd"}

ASSUME KeyManagerAssumption ==
    /\ Spelling \in [ActionNames -> LegalNames]
    /\ \A m, n \in ActionNames : Spelling[m] = Spelling[n] => m = n
    /\ Contract \in LegalNames /\ Active \in LegalNames
    /\ Accounts \subseteq Strings
    /\ Lifetime \in Nat \ {0} /\ Deadline \in Nat
    /\ Conversions \subseteq Nat
    /\ MaxActions \in Nat /\ MaxTime \in Nat /\ MaxBlocks \in Nat

\* A JSON object of arguments: their names, the account among them (if none: no characters),
\* and those that are null.
Arguments == [names : SUBSET ArgumentNames, account : Strings, unset : SUBSET OptionalArguments]
NoArguments == [names |-> {}, account |-> <<>>, unset |-> {}]

Actions == [account : Strings, actionName : Strings, authorizations : Seq(Strings),
            arguments : Arguments]

NoBlock == [chain |-> "none", number |-> 0]
Blocks  == [chain : Chains, number : 1..MaxBlocks] \cup {NoBlock}
None    == [status |-> "none"]

VARIABLES
    draft,    \* the MutableTransaction: actions, refBlockId, expiration (0: null)
    status,   \* of the transaction manager's entry: Draft, Authorizing or Pending
    auth,     \* the SignableTransaction, or None
    pending,  \* the packed transaction of the BroadcastableTransaction, or None
    head,     \* the blockchain interface's head block and with it its chain
    now,      \* seconds since the program started
    thrown    \* milliseconds after which a timeout_exception was thrown, or 0

vars == <<draft, status, auth, pending, head, now, thrown>>

(***************************************************************************)
(* A definition whose name ends in _<Slip> is the one it precedes with a   *)
(* plausible slip in it: no specification uses it.                         *)
(*                                                                         *)
(* Packing: from the JSON of the Qt objects into the structures of the     *)
(* contract and the backend, and back.                                     *)
(***************************************************************************)

\* The "actor@permission" format of Strings::AuthorizationTemplate.
Authorization(actor, permission) == actor \o <<At>> \o permission

AtIndex(p) == CHOOSE i \in 1..Len(p) : p[i] = At /\ \A j \in 1..i-1 : p[j] # At

permission_level_KeepsAt(p) ==
    IF \E i \in 1..Len(p) : p[i] = At
    THEN [actor      |-> name(SubSeq(p, 1, AtIndex(p) - 1)),
          permission |-> name(SubSeq(p, AtIndex(p), Len(p)))]
    ELSE [actor |-> Zero, permission |-> Zero]

permission_level(p) ==
    IF \E i \in 1..Len(p) : p[i] = At
    THEN [actor      |-> name(SubSeq(p, 1, AtIndex(p) - 1)),
          permission |-> name(SubSeq(p, AtIndex(p) + 1, Len(p)))]
    ELSE [actor |-> Zero, permission |-> Zero]

NoData == [fields |-> {}, account |-> Zero]

\* Whether some case of the switch over the action's name applies.
Known(word) == \E n \in ActionNames : string_to_uint64_t(Spelling[n]) = word

\* The fields that get a value.  Only those of cntst.modify can stay unset; in the structure of
\* group.copy or group.rename a null newName becomes an empty text.
Fields(a) ==
    IF name(a.actionName) = string_to_uint64_t(Spelling["cntst.modify"])
    THEN a.arguments.names \ a.arguments.unset
    ELSE a.arguments.names

\* The constructor of the backend's action from an Action.
action(a) ==
    [account       |-> name(a.account),
     name          |-> name(a.actionName),
     authorization |-> [i \in 1..Len(a.authorizations) |-> permission_level(a.authorizations[i])],
     data          |-> IF Known(name(a.actionName))
                       THEN [fields |-> Fields(a), account |-> name(a.arguments.account)]
                       ELSE NoData]

\* decodeAction: what the confirmation window shows of a packed action.
decodeAction(p) ==
    [account        |-> to_string(p.account),
     actionName     |-> to_string(p.name),
     authorizations |-> [i \in 1..Len(p.authorization) |->
                           Authorization(to_string(p.authorization[i].actor),
                                         to_string(p.authorization[i].permission))],
     arguments      |-> IF Known(p.name)
                        THEN [names |-> p.data.fields, account |-> to_string(p.data.account),
                              unset |-> {}]
                        ELSE NoArguments]

\* What a signature is made over, and what the backend reads: all but the signatures.
Content(trx) == [actions |-> trx.actions, refBlock |-> trx.refBlock, expiration |-> trx.expiration]

sign(trx, chain) == [chain |-> chain, content |-> Content(trx)]

\* What goes out: the content packed, and the signatures beside it.
packed_transaction(trx) == [signatures |-> trx.signatures, packed_trx |-> Content(trx)]

(***************************************************************************)
(* Drafting                                                                *)
(***************************************************************************)
EmptyDraft == [actions |-> <<>>, refBlock |-> NoBlock, expiration |-> 0]

Running == thrown = 0

validateName(n) == n \in ActionNames

validateArguments(n, arguments) == arguments.names = LegalActionArguments[n]

NewAction(n, arguments) ==
    [account        |-> Contract,
     actionName     |-> Spelling[n],
     authorizations |-> <<Authorization(IF n = "dcsn.set" THEN arguments.account ELSE Contract, Active)>>,
     arguments      |-> arguments]

AddAction(n, arguments) ==
    /\ Running /\ status = "Draft" /\ Len(draft.actions) < MaxActions
    /\ validateName(n)
    /\ validateArguments(n, arguments)
    /\ draft' = [draft EXCEPT !.actions = Append(@, NewAction(n, arguments))]
    /\ UNCHANGED <<status, auth, pending, head, now, thrown>>

RemoveAt(s, i) == SubSeq(s, 1, i - 1) \o SubSeq(s, i + 1, Len(s))

DeleteAction(i) ==
    /\ Running /\ status = "Draft"
    /\ draft' = [draft EXCEPT !.actions = RemoveAt(@, i)]
    /\ UNCHANGED <<status, auth, pending, head, now, thrown>>

\* The user turns to another transaction, a new one.
CreateTransaction ==
    /\ Running /\ status \in {"Draft", "Pending"}
    /\ draft' = EmptyDraft /\ status' = "Draft" /\ auth' = None /\ pending' = None
    /\ UNCHANGED <<head, now, thrown>>

(***************************************************************************)
(* Running, confirming, broadcasting                                       *)
(***************************************************************************)

\* What prepareForSigning sets in the draft, if that has not been done by an earlier run.
Prepared(d) ==
    [d EXCEPT !.refBlock   = IF @ = NoBlock THEN head ELSE @,
              !.expiration = IF @ = 0 THEN now + Lifetime ELSE @]

SignableFrom(d) ==
    [actions    |-> [i \in 1..Len(d.actions) |-> action(d.actions[i])],
     refBlock   |-> d.refBlock,
     expiration |-> d.expiration,
     signatures |-> <<>>]

\* onRunClicked and prepareForSigning.  The exception passes through the handler, which does
\* nothing more, and nothing above it catches it.
Run(ms) ==
    /\ Running /\ status = "Draft" /\ draft.actions # <<>>
    /\ draft' = Prepared(draft)
    /\ IF ms > Deadline
       THEN thrown' = ms /\ UNCHANGED <<status, auth>>
       ELSE auth' = SignableFrom(draft') /\ status' = "Authorizing" /\ UNCHANGED thrown
    /\ UNCHANGED <<pending, head, now>>

signTransaction_SignsFirst(trx) ==
    [trx EXCEPT !.signatures = Append(@, sign(trx, head.chain)),
                !.expiration = now + Lifetime]

\* signTransaction: the expiration is put off just before signing.
signTransaction(trx) ==
    LET bumped == [trx EXCEPT !.expiration = now + Lifetime]
    IN  [bumped EXCEPT !.signatures = Append(@, sign(bumped, head.chain))]

\* The user has accepted: sign, prepareForBroadcast, submit, in one handler.
Accept(ms) ==
    /\ Running /\ status = "Authorizing"
    /\ auth' = signTransaction(auth)
    /\ IF ms > Deadline
       THEN thrown' = ms /\ UNCHANGED <<status, pending>>
       ELSE pending' = packed_transaction(auth') /\ status' = "Pending" /\ UNCHANGED thrown
    /\ UNCHANGED <<draft, head, now>>

Cancel ==
    /\ Running /\ status = "Authorizing"
    /\ status' = "Draft" /\ auth' = None
    /\ UNCHANGED <<draft, pending, head, now, thrown>>

(***************************************************************************)
(* Meanwhile                                                               *)
(***************************************************************************)
Tick ==
    /\ Running /\ now < MaxTime
    /\ now' = now + 1
    /\ UNCHANGED <<draft, status, auth, pending, head, thrown>>

\* The node reports a new head block, or the user has chosen a node of another chain.
HeadMoves(chain) ==
    /\ Running /\ head.number < MaxBlocks
    /\ head' = [chain |-> chain, number |-> head.number + 1]
    /\ UNCHANGED <<draft, status, auth, pending, now, thrown>>

\* The arguments the user may give: those of some action, whichever name goes with them.
Offered ==
    {g \in [names   : {LegalActionArguments[n] : n \in ActionNames},
            account : Accounts \cup {<<>>},
            unset   : {{}, {"newName"}}] :
        /\ g.account # <<>> <=> g.names \cap AccountArguments # {}
        /\ g.unset \subseteq g.names}

Init ==
    /\ draft = EmptyDraft /\ status = "Draft" /\ auth = None /\ pending = None
    /\ head = NoBlock /\ now = 0 /\ thrown = 0

Next ==
    \/ \E n \in ActionNames \cup {"unknown"}, g \in Offered : AddAction(n, g)
    \/ \E i \in 1..Len(draft.actions) : DeleteAction(i)
    \/ CreateTransaction
    \/ \E ms \in Conversions : Run(ms) \/ Accept(ms)
    \/ Cancel
    \/ Tick
    \/ \E chain \in Chains : HeadMoves(chain)

Spec == Init /\ [][Next]_vars

(***************************************************************************)
(* Properties                                                              *)
(***************************************************************************)
PackedActions == [account       : Words, name : Words,
                  authorization : Seq([actor : Words, permission : Words]),
                  data          : [fields : SUBSET ArgumentNames, account : Words]]

Contents == [actions : Seq(PackedActions), refBlock : Blocks, expiration : Nat]

Signatures == [chain : Chains \cup {"none"}, content : Contents]

SignableTransactions ==
    [actions    : Seq(PackedActions), refBlock : Blocks, expiration : Nat,
     signatures : Seq(Signatures)]
PackedTransactions == [signatures : Seq(Signatures), packed_trx : Contents]

\* Every variable has its type: what the packing makes of any draft is a transaction.
TypeOK ==
    /\ draft \in [actions : Seq(Actions), refBlock : Blocks, expiration : Nat]
    /\ status \in {"Draft", "Authorizing", "Pending"}
    /\ auth \in SignableTransactions \cup {None}
    /\ pending \in PackedTransactions \cup {None}
    /\ head \in Blocks /\ now \in Nat /\ thrown \in Nat

\* What the window shows pins down what is signed, whatever was typed in: packing the shown
\* text again gives the packed action, byte for byte.  Names lose their foreign characters
\* and their excess ones in the packing, before they are shown and not after.
ShownIsSigned ==
    auth # None => \A i \in 1..Len(auth.actions) :
        action(decodeAction(auth.actions[i])) = auth.actions[i]

\* An action without the arguments that a modification leaves unset.
WithoutUnset(a) ==
    [a EXCEPT !.arguments = [names   |-> IF a.actionName = Spelling["cntst.modify"]
                                         THEN @.names \ @.unset ELSE @.names,
                             account |-> @.account, unset |-> {}]]

\* If no name was mangled, the window shows, and the backend is asked for, exactly the actions
\* of the draft, in their order; only what a modification leaves unset is gone.
DraftedIsShown ==
    status \in {"Authorizing", "Pending"} =>
        /\ Len(auth.actions) = Len(draft.actions)
        /\ \A i \in 1..Len(draft.actions) :
             draft.actions[i].arguments.account \in LegalNames =>
                decodeAction(auth.actions[i]) = WithoutUnset(draft.actions[i])

\* However long the draft lay about or the user thought, and however often the transaction was
\* cancelled and run again: it goes out with its whole lifetime ahead, and signed.  Every
\* signature is for the chain the node is on and over the very content that goes out, although
\* the expiration is rewritten after the user has seen the transaction.
BroadcastIsSigned ==
    [][pending' # pending /\ pending' # None =>
        /\ pending'.packed_trx.expiration = now + Lifetime
        /\ pending'.signatures # <<>>
        /\ \A k \in 1..Len(pending'.signatures) :
              pending'.signatures[k] = [chain |-> head.chain, content |-> pending'.packed_trx]]_vars
=============================================================================
