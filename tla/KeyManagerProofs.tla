-------------------------- MODULE KeyManagerProofs --------------------------
(***************************************************************************)
(* A name and its word pin each other down, packing what the confirmation  *)
(* window shows gives what is signed, and what is signed is what goes out, *)
(* for all names and all constants.                                        *)
(***************************************************************************)
EXTENDS KeyManager, WellFoundedInduction, SequenceTheorems, TLAPS

(***************************************************************************)
(* Names: facts for every string and every word, of which a run can only   *)
(* try some.                                                               *)
(***************************************************************************)

\* A word has a last digit that is not zero, or none at all.
LEMMA TrimmedType ==
    ASSUME NEW w \in Words
    PROVE  /\ Trimmed(w) \in 0..Length
           /\ \A i \in 1..Length : i > Trimmed(w) => w[i] = 0
           /\ Trimmed(w) > 0 => w[Trimmed(w)] # 0
<1> DEFINE T == {n \in 0..Length : \A i \in 1..Length : i > n => w[i] = 0}
<1> USE DEF Length
<1>1. Length \in T
  OBVIOUS
<1>2. T \subseteq Nat
  OBVIOUS
<1>3. PICK n \in T : \A m \in T : ~(<<m, n>> \in OpToRel(<, Nat))
  <2> HIDE DEF T
  <2> QED BY <1>1, <1>2, NatLessThanWellFounded, WFMin
<1>4. \A m \in T : ~(m < n)
  <2>1. \A m \in T : ~(<<m, n>>[1] < <<m, n>>[2])
    <3> HIDE DEF T
    <3> QED BY <1>2, <1>3, Zenon DEF OpToRel
  <2> QED BY <2>1
<1>a. n \in 0..Length /\ \A i \in 1..Length : i > n => w[i] = 0
  OBVIOUS
<1>5. n > 0 => w[n] # 0
  <2> SUFFICES ASSUME n > 0, w[n] = 0
               PROVE  FALSE
    OBVIOUS
  <2>1. n - 1 \in T
    BY <1>a
  <2> QED BY <2>1, <1>4, <1>a
<1> HIDE DEF T
<1> QED BY <1>a, <1>5 DEF Trimmed

\* What a word prints as: a name, and one without an '@'.
LEMMA ToStringType ==
    ASSUME NEW w \in Words
    PROVE  /\ to_string(w) \in LegalNames
           /\ Len(to_string(w)) = Trimmed(w)
           /\ \A i \in 1..Trimmed(w) : to_string(w)[i] = w[i] /\ w[i] # At
<1> USE DEF Length
<1>1. /\ Trimmed(w) \in 0..Length
      /\ Trimmed(w) > 0 => w[Trimmed(w)] # 0
  BY TrimmedType
<1>2. \A i \in 1..Length : w[i] \in Symbols /\ w[i] < RadixAt(i)
  BY DEF Words
<1> HIDE DEF Length
<1>3. /\ to_string(w) \in Seq(Characters)
      /\ Len(to_string(w)) = Trimmed(w)
      /\ \A i \in 1..Trimmed(w) : to_string(w)[i] = w[i]
  <2>1. \A i \in 1..Trimmed(w) : w[i] \in Characters
    BY <1>1, <1>2 DEF Length, Characters
  <2>2. 1 \in Int /\ Trimmed(w) \in Int
    BY <1>1 DEF Length
  <2> QED BY <1>1, <2>1, <2>2, SubSeqProperties DEF to_string, Length
<1>4. \A i \in 1..Trimmed(w) : w[i] # At
  <2>1. \A i \in 1..Trimmed(w) : w[i] \in Symbols
    BY <1>1, <1>2 DEF Length
  <2>2. At \notin Symbols
    BY DEF At, Symbols, Radix
  <2> QED BY <2>1, <2>2
<1> DEFINE s == to_string(w)
           n == Trimmed(w)
<1>5. s \in Strings /\ Len(s) = n /\ n \in 0..Length
      /\ (n > 0 => w[n] # 0)
      /\ \A i \in 1..n : s[i] = w[i]
  BY <1>1, <1>3 DEF Strings
<1>6. \A i \in 1..n : w[i] \in Symbols /\ w[i] < RadixAt(i)
  BY <1>1, <1>2 DEF Length
<1> HIDE DEF s, n
<1>7. Len(s) <= Length /\ \A i \in 1..Len(s) : s[i] \in Symbols /\ s[i] < RadixAt(i)
  BY <1>5, <1>6 DEF Length
<1>8. Len(s) > 0 => s[Len(s)] # 0
  BY <1>5
<1>9. s \in LegalNames
  BY <1>5, <1>7, <1>8 DEF LegalNames
<1> QED BY <1>3, <1>4, <1>9 DEF s

\* Printing a word and reading it back gives the word, in either reader: an ID that came from
\* the backend's journal or a name shown to the user stands for one account only.
THEOREM WordsRoundTrip ==
    \A w \in Words : /\ string_to_uint64_t(to_string(w)) = w
                     /\ name(to_string(w)) = w
<1> SUFFICES ASSUME NEW w \in Words
             PROVE  /\ string_to_uint64_t(to_string(w)) = w
                    /\ name(to_string(w)) = w
  OBVIOUS
<1> DEFINE s == to_string(w)
<1>1. /\ Len(s) = Trimmed(w) /\ Trimmed(w) \in 0..Length
      /\ \A i \in 1..Trimmed(w) : s[i] = w[i]
      /\ \A i \in 1..Length : i > Trimmed(w) => w[i] = 0
  BY TrimmedType, ToStringType
<1>2. \A i \in 1..Length : w[i] \in Symbols /\ w[i] < RadixAt(i)
  BY DEF Words
<1>3. ASSUME NEW i \in 1..Length
      PROVE  string_to_uint64_t(s)[i] = w[i]
  <2>1. CASE i <= Trimmed(w)
    <3>1. s[i] = w[i] /\ char_to_symbol(s[i]) = w[i]
      BY <1>1, <1>2, <2>1 DEF char_to_symbol, Length
    <3>2. w[i] % RadixAt(i) = w[i]
      BY <1>2 DEF RadixAt, Symbols, Radix, LastRadix
    <3> HIDE DEF s
    <3> QED BY <1>1, <2>1, <3>1, <3>2 DEF string_to_uint64_t
  <2>2. CASE ~(i <= Trimmed(w))
    <3> HIDE DEF s
    <3> QED BY <1>1, <2>2 DEF string_to_uint64_t, Length
  <2> QED BY <2>1, <2>2
<1>4. w = [i \in 1..Length |-> w[i]]
  BY DEF Words
<1>5. string_to_uint64_t(s) = w
  <2> HIDE DEF s
  <2> QED BY <1>3, <1>4 DEF string_to_uint64_t
<1> HIDE DEF s
<1>6. name(s) = w
  BY <1>1, <1>5 DEF name, Length
<1> QED BY <1>5, <1>6 DEF s

\* A string is read as a word whatever is in it.
LEMMA NameType ==
    ASSUME NEW str \in Strings
    PROVE  name(str) \in Words /\ string_to_uint64_t(str) \in Words
<1>1. ASSUME NEW i \in 1..Length, i <= Len(str)
      PROVE  /\ char_to_symbol(str[i]) % RadixAt(i) \in Symbols
             /\ char_to_symbol(str[i]) % RadixAt(i) < RadixAt(i)
  <2>1. char_to_symbol(str[i]) \in 0..31
    BY DEF char_to_symbol, Symbols, Radix
  <2> QED BY <2>1 DEF RadixAt, Symbols, Radix, LastRadix
<1>2. 0 \in Symbols /\ \A i \in 1..Length : 0 < RadixAt(i)
  BY DEF Symbols, RadixAt, Radix, LastRadix
<1>3. string_to_uint64_t(str) \in Words
  BY <1>1, <1>2 DEF string_to_uint64_t, Words
<1>4. Zero \in Words
  BY <1>2 DEF Zero, Words
<1> QED BY <1>3, <1>4 DEF name

\* A legal name is kept as it is by both readers, so no two legal names are the same word:
\* what the user drafts for an account, the contract is asked to do for that account.
THEOREM LegalNamesRoundTrip ==
    \A s \in LegalNames : /\ name(s) = string_to_uint64_t(s)
                          /\ to_string(name(s)) = s
<1> SUFFICES ASSUME NEW s \in LegalNames
             PROVE  /\ name(s) = string_to_uint64_t(s)
                    /\ to_string(name(s)) = s
  OBVIOUS
<1> DEFINE w == string_to_uint64_t(s)
<1>1. /\ s \in Seq(Characters) /\ Len(s) \in 0..Length
      /\ \A i \in 1..Len(s) : s[i] \in Symbols /\ s[i] < RadixAt(i)
      /\ Len(s) > 0 => s[Len(s)] # 0
  <2>1. s \in Seq(Characters) /\ Len(s) \in Nat
    BY LenProperties DEF LegalNames, Strings
  <2>2. /\ Len(s) <= Length
        /\ \A i \in 1..Len(s) : s[i] \in Symbols /\ s[i] < RadixAt(i)
        /\ Len(s) > 0 => s[Len(s)] # 0
    BY DEF LegalNames
  <2>3. Len(s) \in 0..Length
    <3> DEFINE n == Len(s)
    <3>1. n \in Nat /\ n <= Length
      BY <2>1, <2>2
    <3> HIDE DEF n
    <3>2. n \in 0..Length
      BY <3>1 DEF Length
    <3> QED BY <3>2 DEF n
  <2> QED BY <2>1, <2>2, <2>3
<1>2. w \in Words /\ name(s) = w
  <2>1. s \in Strings
    BY <1>1 DEF Strings
  <2>2. ~(Len(s) > Length)
    <3> DEFINE n == Len(s)
    <3>1. n \in 0..Length
      BY <1>1
    <3> HIDE DEF n
    <3>2. ~(n > Length)
      BY <3>1 DEF Length
    <3> QED BY <3>2 DEF n
  <2> QED BY <2>1, <2>2, NameType DEF name
<1>3. ASSUME NEW i \in 1..Length
      PROVE  w[i] = IF i <= Len(s) THEN s[i] ELSE 0
  <2>1. CASE i <= Len(s)
    <3>1. char_to_symbol(s[i]) = s[i]
      BY <1>1, <2>1 DEF char_to_symbol
    <3>2. s[i] % RadixAt(i) = s[i]
      <4>1. s[i] \in 0..31 /\ s[i] < RadixAt(i)
        BY <1>1, <2>1 DEF Symbols, Radix
      <4> QED BY <4>1 DEF RadixAt, Radix, LastRadix
    <3> QED BY <2>1, <3>1, <3>2 DEF string_to_uint64_t
  <2>2. CASE ~(i <= Len(s))
    BY <2>2 DEF string_to_uint64_t
  <2> QED BY <2>1, <2>2
<1> HIDE DEF w
<1>4. Trimmed(w) = Len(s)
  <2> DEFINE n == Len(s)
             t == Trimmed(w)
  <2>1. /\ t \in 0..13 /\ \A i \in 1..13 : i > t => w[i] = 0
        /\ t > 0 => w[t] # 0
    BY <1>2, TrimmedType DEF Length
  <2>2. /\ n \in 0..13 /\ \A i \in 1..13 : w[i] = IF i <= n THEN s[i] ELSE 0
        /\ n > 0 => s[n] # 0
    BY <1>1, <1>3 DEF Length
  <2> HIDE DEF n, t
  <2>3. ~(t < n)
    BY <2>1, <2>2
  <2>4. ~(n < t)
    BY <2>1, <2>2
  <2> QED BY <2>1, <2>2, <2>3, <2>4 DEF n, t
<1>5. to_string(w) \in Seq(Characters) /\ Len(to_string(w)) = Len(s)
      /\ \A i \in 1..Len(s) : to_string(w)[i] = w[i]
  BY <1>2, <1>4, ToStringType DEF LegalNames, Strings
<1>6. ASSUME NEW i \in 1..Len(s)
      PROVE  to_string(w)[i] = s[i]
  <2>1. i \in 1..Length /\ i <= Len(s)
    BY <1>1 DEF Length
  <2> QED BY <2>1, <1>3, <1>5
<1>7. to_string(w) = s
  BY <1>1, <1>5, <1>6, SeqEqual
<1> QED BY <1>2, <1>7 DEF w

USE KeyManagerAssumption

(***************************************************************************)
(* Permissions                                                             *)
(***************************************************************************)

\* The text of a permission is split where its two parts were joined, if the first has no '@'.
LEMMA AuthorizationSplits ==
    ASSUME NEW a \in Strings, NEW p \in Strings, \A i \in 1..Len(a) : a[i] # At
    PROVE  /\ Authorization(a, p) \in Strings
           /\ permission_level(Authorization(a, p)) = [actor |-> name(a), permission |-> name(p)]
<1> DEFINE s == Authorization(a, p)
<1>1. /\ a \in Seq(Characters) /\ p \in Seq(Characters) /\ <<At>> \in Seq(Characters)
      /\ Len(a) \in Nat /\ Len(p) \in Nat
  BY DEF Strings, Characters
<1>2. /\ a \o <<At>> \in Seq(Characters) /\ Len(a \o <<At>>) = Len(a) + 1
      /\ \A i \in 1..Len(a) : (a \o <<At>>)[i] = a[i]
      /\ (a \o <<At>>)[Len(a) + 1] = At
  BY <1>1
<1>3. /\ s \in Seq(Characters) /\ Len(s) = Len(a) + 1 + Len(p)
      /\ \A i \in 1..Len(a) : s[i] = a[i]
      /\ s[Len(a) + 1] = At
      /\ \A i \in 1..Len(p) : s[Len(a) + 1 + i] = p[i]
  BY <1>1, <1>2 DEF Authorization
<1> HIDE DEF s
<1>4. AtIndex(s) = Len(a) + 1
  <2>1. /\ Len(a) + 1 \in 1..Len(s)
        /\ s[Len(a) + 1] = At
        /\ \A j \in 1..(Len(a) + 1) - 1 : s[j] # At
    <3>1. (Len(a) + 1) - 1 = Len(a)
      BY <1>1
    <3>2. \A j \in 1..Len(a) : s[j] # At
      BY <1>3
    <3> QED BY <1>1, <1>3, <3>1, <3>2
  <2>2. \A i \in 1..Len(s) : (s[i] = At /\ \A j \in 1..i-1 : s[j] # At) => i = Len(a) + 1
    BY <1>1, <1>3, <2>1
  <2> QED BY <2>1, <2>2 DEF AtIndex
<1>5. SubSeq(s, 1, AtIndex(s) - 1) = a
  BY <1>1, <1>3, <1>4
<1>6. SubSeq(s, AtIndex(s) + 1, Len(s)) = p
  BY <1>1, <1>3, <1>4
<1>7. \E i \in 1..Len(s) : s[i] = At
  BY <1>1, <1>3
<1> QED BY <1>3, <1>5, <1>6, <1>7 DEF permission_level, s, Strings

\* Any text gives a permission.
LEMMA PermissionType ==
    ASSUME NEW p \in Strings
    PROVE  permission_level(p) \in [actor : Words, permission : Words]
<1>1. Zero \in Words
  BY DEF Zero, Words, Symbols, RadixAt, Radix, LastRadix
<1>2. CASE \E i \in 1..Len(p) : p[i] = At
  <2> DEFINE T == {i \in 1..Len(p) : p[i] = At}
  <2>1. /\ p \in Seq(Characters) /\ Len(p) \in Nat
        /\ \A i \in 1..Len(p) : p[i] \in Characters
    BY DEF Strings
  <2>2. T \subseteq Nat /\ T # {}
    BY <1>2, <2>1
  <2>3. PICK i \in T : \A j \in T : ~(<<j, i>> \in OpToRel(<, Nat))
    <3> HIDE DEF T
    <3> QED BY <2>2, NatLessThanWellFounded, WFMin
  <2>4. \A j \in T : ~(j < i)
    <3>1. \A j \in T : ~(<<j, i>>[1] < <<j, i>>[2])
      <4> HIDE DEF T
      <4> QED BY <2>2, <2>3, Zenon DEF OpToRel
    <3> QED BY <3>1
  <2>5. i \in 1..Len(p) /\ p[i] = At /\ \A j \in 1..i-1 : p[j] # At
    BY <2>1, <2>4
  <2>6. AtIndex(p) \in 1..Len(p)
    BY <2>5 DEF AtIndex
  <2>7. /\ SubSeq(p, 1, AtIndex(p) - 1) \in Strings
        /\ SubSeq(p, AtIndex(p) + 1, Len(p)) \in Strings
    BY <2>1, <2>6, SubSeqProperties DEF Strings
  <2> QED BY <1>2, <2>7, NameType DEF permission_level
<1> QED BY <1>1, <1>2 DEF permission_level

(***************************************************************************)
(* Actions                                                                 *)
(***************************************************************************)

\* What a drafted action is packed into.
LEMMA ActionType ==
    ASSUME NEW a \in Actions
    PROVE  /\ action(a) \in PackedActions
           /\ ~Known(action(a).name) => action(a).data = NoData
<1>1. /\ a.account \in Strings /\ a.actionName \in Strings
      /\ a.authorizations \in Seq(Strings)
      /\ a.arguments.names \in SUBSET ArgumentNames /\ a.arguments.account \in Strings
  BY DEF Actions, Arguments
<1>2. [i \in 1..Len(a.authorizations) |-> permission_level(a.authorizations[i])]
         \in Seq([actor : Words, permission : Words])
  <2>1. \A i \in 1..Len(a.authorizations) :
          permission_level(a.authorizations[i]) \in [actor : Words, permission : Words]
    BY <1>1, PermissionType
  <2>2. Len(a.authorizations) \in Nat
    BY <1>1
  <2> QED BY <2>1, <2>2
<1>3. NoData \in [fields : SUBSET ArgumentNames, account : Words]
  BY DEF NoData, Zero, Words, Symbols, RadixAt, Radix, LastRadix
<1>4. [fields |-> Fields(a), account |-> name(a.arguments.account)]
         \in [fields : SUBSET ArgumentNames, account : Words]
  BY <1>1, NameType DEF Fields
<1> QED BY <1>1, <1>2, <1>3, <1>4, NameType DEF action, PackedActions

\* Packed actions can be shown and packed again without a change: the window tells apart any
\* two actions that are not the same for the contract.
THEOREM PackedActionsRoundTrip ==
    \A p \in PackedActions :
        (~Known(p.name) => p.data = NoData) => action(decodeAction(p)) = p
<1> SUFFICES ASSUME NEW p \in PackedActions, ~Known(p.name) => p.data = NoData
             PROVE  action(decodeAction(p)) = p
  OBVIOUS
<1> DEFINE d == decodeAction(p)
           Level == [actor : Words, permission : Words]
<1>1. /\ p = [account |-> p.account, name |-> p.name, authorization |-> p.authorization,
               data |-> p.data]
      /\ p.account \in Words /\ p.name \in Words /\ p.authorization \in Seq(Level)
      /\ p.data \in [fields : SUBSET ArgumentNames, account : Words]
  BY DEF PackedActions
<1>2. name(d.account) = p.account /\ name(d.actionName) = p.name
  BY <1>1, WordsRoundTrip DEF decodeAction
<1>3. [i \in 1..Len(d.authorizations) |-> permission_level(d.authorizations[i])] = p.authorization
  <2>1. Len(p.authorization) \in Nat
        /\ p.authorization = [i \in 1..Len(p.authorization) |-> p.authorization[i]]
    BY <1>1
  <2>2. Len(d.authorizations) = Len(p.authorization)
    BY <2>1 DEF decodeAction
  <2>3. ASSUME NEW i \in 1..Len(p.authorization)
        PROVE  permission_level(d.authorizations[i]) = p.authorization[i]
    <3> DEFINE u == p.authorization[i].actor
               v == p.authorization[i].permission
    <3>1. /\ u \in Words /\ v \in Words
          /\ p.authorization[i] = [actor |-> u, permission |-> v]
      <4> HIDE DEF d
      <4>1. p.authorization[i] \in Level
        BY <1>1, ElementOfSeq
      <4> QED BY <4>1
    <3>2. d.authorizations[i] = Authorization(to_string(u), to_string(v))
      BY DEF decodeAction
    <3> HIDE DEF u, v, d
    <3>3. /\ to_string(u) \in Strings /\ to_string(v) \in Strings
          /\ \A j \in 1..Len(to_string(u)) : to_string(u)[j] # At
      BY <3>1, ToStringType DEF LegalNames
    <3>4. permission_level(Authorization(to_string(u), to_string(v)))
             = [actor |-> name(to_string(u)), permission |-> name(to_string(v))]
      BY <3>3, AuthorizationSplits
    <3> QED BY <3>1, <3>2, <3>4, WordsRoundTrip
  <2> HIDE DEF d
  <2> QED BY <2>1, <2>2, <2>3
<1>4. (IF Known(name(d.actionName))
       THEN [fields |-> Fields(d), account |-> name(d.arguments.account)]
       ELSE NoData) = p.data
  <2>1. CASE Known(p.name)
    <3>1. d.arguments = [names |-> p.data.fields, account |-> to_string(p.data.account),
                         unset |-> {}]
      BY <2>1 DEF decodeAction
    <3> HIDE DEF d
    <3>2. Fields(d) = p.data.fields
      BY <3>1 DEF Fields
    <3>3. name(d.arguments.account) = p.data.account
      BY <1>1, <3>1, WordsRoundTrip
    <3> QED BY <1>1, <1>2, <2>1, <3>2, <3>3
  <2>2. CASE ~Known(p.name)
    <3> HIDE DEF d
    <3> QED BY <1>2, <2>2
  <2> QED BY <2>1, <2>2
<1> HIDE DEF d
<1>5. action(d) = [account |-> p.account, name |-> p.name, authorization |-> p.authorization,
                   data |-> p.data]
  BY <1>2, <1>3, <1>4, Zenon DEF action
<1> QED BY <1>1, <1>5 DEF d

\* What addAction makes of a name and arguments it accepts.
Drafted(a) ==
    \E n \in ActionNames, g \in Arguments : a = NewAction(n, g)

LEMMA NewActionType ==
    ASSUME NEW n \in ActionNames, NEW g \in Arguments
    PROVE  NewAction(n, g) \in Actions
<1>1. g.account \in Strings /\ Contract \in Strings /\ Active \in Strings
      /\ Spelling[n] \in Strings
  BY DEF Arguments, LegalNames
<1> DEFINE who == IF n = "dcsn.set" THEN g.account ELSE Contract
<1>2. Authorization(who, Active) \in Strings
  <2>1. who \in Seq(Characters) /\ Active \in Seq(Characters) /\ <<At>> \in Seq(Characters)
    BY <1>1 DEF Strings, Characters
  <2> HIDE DEF who
  <2> QED BY <2>1 DEF Authorization, Strings
<1> HIDE DEF who
<1>3. <<Authorization(who, Active)>> \in Seq(Strings)
  BY <1>2
<1>4. NewAction(n, g) = [account |-> Contract, actionName |-> Spelling[n],
                         authorizations |-> <<Authorization(who, Active)>>, arguments |-> g]
  BY DEF NewAction, who
<1> QED BY <1>1, <1>3, <1>4 DEF Actions

\* A drafted action whose account has a legal name is shown as it was drafted.
THEOREM LegalDraftsRoundTrip ==
    ASSUME NEW a, Drafted(a), a.arguments.account \in LegalNames
    PROVE  decodeAction(action(a)) = WithoutUnset(a)
<1>1. PICK n \in ActionNames, g \in Arguments : a = NewAction(n, g)
  BY DEF Drafted
<1> DEFINE who == IF n = "dcsn.set" THEN g.account ELSE Contract
           p   == action(a)
<1>2. a = [account |-> Contract, actionName |-> Spelling[n],
           authorizations |-> <<Authorization(who, Active)>>, arguments |-> g]
  BY <1>1 DEF NewAction
<1>3. /\ who \in LegalNames /\ g.account \in LegalNames
      /\ Contract \in LegalNames /\ Active \in LegalNames /\ Spelling[n] \in LegalNames
  BY <1>2
<1> HIDE DEF who
<1>4. /\ permission_level(Authorization(who, Active))
            = [actor |-> name(who), permission |-> name(Active)]
  <2>1. who \in Strings /\ Active \in Strings
    BY <1>3 DEF LegalNames
  <2>2. \A i \in 1..Len(who) : who[i] # At
    <3>1. \A i \in 1..Len(who) : who[i] \in Symbols
      BY <1>3 DEF LegalNames
    <3>2. At \notin Symbols
      BY DEF Symbols, At, Radix
    <3> QED BY <3>1, <3>2
  <2> QED BY <2>1, <2>2, AuthorizationSplits
<1>5. name(Spelling[n]) = string_to_uint64_t(Spelling[n])
  BY <1>3, LegalNamesRoundTrip
<1>6. Known(name(Spelling[n]))
  BY <1>5 DEF Known
<1>7. p = [account |-> name(Contract), name |-> name(Spelling[n]),
           authorization |-> <<[actor |-> name(who), permission |-> name(Active)]>>,
           data |-> [fields |-> Fields(a), account |-> name(g.account)]]
  <2>1. [i \in 1..Len(a.authorizations) |-> permission_level(a.authorizations[i])]
           = <<[actor |-> name(who), permission |-> name(Active)]>>
    <3>1. a.authorizations = <<Authorization(who, Active)>>
      BY <1>2
    <3> QED BY <3>1, <1>4
  <2> QED BY <1>2, <1>6, <2>1 DEF action
<1> HIDE DEF p
<1>8. decodeAction(p) =
        [account        |-> Contract, actionName |-> Spelling[n],
         authorizations |-> <<Authorization(who, Active)>>,
         arguments      |-> [names |-> Fields(a), account |-> g.account, unset |-> {}]]
  <2>1. \A s \in {Contract, Spelling[n], who, Active, g.account} : to_string(name(s)) = s
    BY <1>3, LegalNamesRoundTrip
  <2>2. [i \in 1..Len(p.authorization) |->
           Authorization(to_string(p.authorization[i].actor), to_string(p.authorization[i].permission))]
           = <<Authorization(who, Active)>>
    <3>1. p.authorization = <<[actor |-> name(who), permission |-> name(Active)]>>
      BY <1>7
    <3>2. to_string(name(who)) = who /\ to_string(name(Active)) = Active
      BY <2>1
    <3> QED BY <3>1, <3>2
  <2> QED BY <1>6, <1>7, <2>1, <2>2 DEF decodeAction
<1>9. WithoutUnset(a) = [account |-> Contract, actionName |-> Spelling[n],
            authorizations |-> <<Authorization(who, Active)>>,
            arguments |-> [names |-> Fields(a), account |-> g.account, unset |-> {}]]
  <2> DEFINE r == [names |-> Fields(a), account |-> g.account, unset |-> {}]
             m == Spelling["cntst.modify"]
  <2>1. a.arguments = g /\ a.actionName = Spelling[n]
    BY <1>2
  <2>2. m \in LegalNames /\ (name(Spelling[n]) = string_to_uint64_t(m) <=> Spelling[n] = m)
    <3>1. m \in LegalNames
      BY DEF ActionNames
    <3> HIDE DEF m
    <3>2. name(m) = string_to_uint64_t(m) /\ to_string(name(m)) = m
          /\ to_string(name(Spelling[n])) = Spelling[n]
      BY <1>3, <3>1, LegalNamesRoundTrip
    <3> QED BY <3>1, <3>2
  <2>3. r.names = IF a.actionName = m THEN a.arguments.names \ a.arguments.unset
                  ELSE a.arguments.names
    BY <2>1, <2>2 DEF Fields
  <2>4. WithoutUnset(a) = [a EXCEPT !.arguments = r]
    BY <2>1, <2>3 DEF WithoutUnset
  <2> HIDE DEF r
  <2>5. [a EXCEPT !.arguments = r] = [account |-> Contract, actionName |-> Spelling[n],
            authorizations |-> <<Authorization(who, Active)>>, arguments |-> r]
    BY <1>2
  <2> QED BY <2>4, <2>5 DEF r
<1> QED BY <1>8, <1>9 DEF p

(***************************************************************************)
(* The invariant: what the signable transaction holds was packed from the  *)
(* draft, which no step changes once it has been packed; and a transaction *)
(* that waits for the user's consent has no signature yet.                 *)
(***************************************************************************)
PackedFromDraft ==
    auth # None => /\ Len(auth.actions) = Len(draft.actions)
                   /\ \A i \in 1..Len(draft.actions) : auth.actions[i] = action(draft.actions[i])

IInv ==
    /\ TypeOK
    /\ \A i \in 1..Len(draft.actions) : Drafted(draft.actions[i])
    /\ PackedFromDraft
    /\ auth = None <=> status = "Draft"
    /\ pending = None <=> status # "Pending"
    /\ status = "Authorizing" /\ thrown = 0 => auth.signatures = <<>>

LEMMA NoneIsNoTransaction == None \notin SignableTransactions
<1> SUFFICES ASSUME None \in SignableTransactions
             PROVE  FALSE
  OBVIOUS
<1>1. DOMAIN None = {"actions", "refBlock", "expiration", "signatures"}
  BY DEF SignableTransactions
<1>2. DOMAIN None = {"status"}
  BY DEF None
<1> QED BY <1>1, <1>2

LEMMA NoneIsNotPacked == None \notin PackedTransactions
<1> SUFFICES ASSUME None \in PackedTransactions
             PROVE  FALSE
  OBVIOUS
<1>1. DOMAIN None = {"signatures", "packed_trx"}
  BY DEF PackedTransactions
<1>2. DOMAIN None = {"status"}
  BY DEF None
<1> QED BY <1>1, <1>2

LEMMA InitIInv == Init => IInv
BY NoneIsNoTransaction DEF Init, IInv, TypeOK, EmptyDraft, Blocks, PackedFromDraft

\* What is packed from a draft is a transaction without signatures.
LEMMA SignableFromType ==
    ASSUME NEW d \in [actions : Seq(Actions), refBlock : Blocks, expiration : Nat]
    PROVE  /\ SignableFrom(d) \in SignableTransactions
           /\ SignableFrom(d).signatures = <<>>
           /\ Len(SignableFrom(d).actions) = Len(d.actions)
           /\ \A i \in 1..Len(d.actions) : SignableFrom(d).actions[i] = action(d.actions[i])
<1>1. /\ Len(d.actions) \in Nat
      /\ \A i \in 1..Len(d.actions) : action(d.actions[i]) \in PackedActions
  BY ActionType
<1>2. [i \in 1..Len(d.actions) |-> action(d.actions[i])] \in Seq(PackedActions)
  BY <1>1
<1>3. <<>> \in Seq(Signatures)
  OBVIOUS
<1> QED BY <1>1, <1>2, <1>3 DEF SignableFrom, SignableTransactions

\* Signing adds one signature, over what it leaves in the transaction.
LEMMA SigningType ==
    ASSUME NEW trx \in SignableTransactions, now \in Nat, head \in Blocks
    PROVE  /\ signTransaction(trx) \in SignableTransactions
           /\ signTransaction(trx).actions = trx.actions
           /\ signTransaction(trx).expiration = now + Lifetime
           /\ signTransaction(trx).signatures =
                Append(trx.signatures,
                       [chain |-> head.chain, content |-> Content(signTransaction(trx))])
<1> DEFINE bumped == [trx EXCEPT !.expiration = now + Lifetime]
           sig    == sign(bumped, head.chain)
           signed == [bumped EXCEPT !.signatures = Append(@, sig)]
<1>1. bumped \in SignableTransactions /\ bumped.actions = trx.actions
      /\ bumped.expiration = now + Lifetime /\ bumped.signatures = trx.signatures
  <2> DEFINE end == now + Lifetime
  <2>1. end \in Nat
    BY KeyManagerAssumption
  <2>2. bumped = [trx EXCEPT !.expiration = end]
    OBVIOUS
  <2> HIDE DEF end, bumped
  <2>3. /\ bumped \in SignableTransactions
        /\ bumped.actions = trx.actions /\ bumped.expiration = end
        /\ bumped.signatures = trx.signatures
    BY <2>1, <2>2 DEF SignableTransactions
  <2> QED BY <2>3 DEF end
<1> HIDE DEF bumped
<1>2. sig = [chain |-> head.chain, content |-> Content(bumped)]
  BY DEF sign
<1>3. Content(bumped) \in Contents
  BY <1>1 DEF Content, Contents, SignableTransactions
<1>4. head.chain \in Chains \cup {"none"}
  BY DEF Blocks, NoBlock
<1> HIDE DEF sig
<1>5. /\ trx.signatures \in Seq(Signatures)
      /\ sig \in Signatures
  BY <1>2, <1>3, <1>4 DEF SignableTransactions, Signatures
<1>6. /\ signed \in SignableTransactions
      /\ signed.actions = trx.actions
      /\ signed.expiration = now + Lifetime
      /\ signed.signatures = Append(trx.signatures, sig)
      /\ Content(signed) = Content(bumped)
  <2> DEFINE sigs == Append(bumped.signatures, sig)
  <2>1. sigs \in Seq(Signatures)
        /\ sigs = Append(trx.signatures, sig)
    BY <1>1, <1>5
  <2>2. signed = [bumped EXCEPT !.signatures = sigs]
    OBVIOUS
  <2> HIDE DEF sigs, signed
  <2>3. /\ signed \in SignableTransactions /\ signed.signatures = sigs
        /\ signed.actions = bumped.actions /\ signed.expiration = bumped.expiration
        /\ signed.refBlock = bumped.refBlock
    BY <1>1, <2>1, <2>2 DEF SignableTransactions
  <2> QED BY <1>1, <2>1, <2>3 DEF Content
<1>7. signed = signTransaction(trx)
  BY DEF signTransaction, bumped, sig
<1> HIDE DEF signed
<1> QED BY <1>2, <1>6, <1>7

\* Packing keeps the signatures and the content.
LEMMA PackingType ==
    ASSUME NEW trx \in SignableTransactions
    PROVE  /\ packed_transaction(trx) \in PackedTransactions
           /\ packed_transaction(trx).signatures = trx.signatures
           /\ packed_transaction(trx).packed_trx = Content(trx)
           /\ packed_transaction(trx).packed_trx.expiration = trx.expiration
<1>1. Content(trx) \in Contents /\ Content(trx).expiration = trx.expiration
  BY DEF Content, Contents, SignableTransactions
<1>2. trx.signatures \in Seq(Signatures)
  BY DEF SignableTransactions
<1> QED BY <1>1, <1>2 DEF packed_transaction, PackedTransactions

(***************************************************************************)
(* Every step keeps the invariant.                                         *)
(***************************************************************************)
LEMMA AddActionStep ==
    ASSUME IInv, NEW n \in ActionNames \cup {"unknown"}, NEW g \in Offered, AddAction(n, g)
    PROVE  IInv'
<1>1. n \in ActionNames /\ g \in Arguments
  <2>1. n \in ActionNames
    BY DEF AddAction, validateName
  <2>2. g.names \in SUBSET ArgumentNames /\ g.account \in Strings
        /\ g.unset \in SUBSET OptionalArguments
        /\ g = [names |-> g.names, account |-> g.account, unset |-> g.unset]
    <3>1. /\ g = [names |-> g.names, account |-> g.account, unset |-> g.unset]
          /\ g.names \in {LegalActionArguments[m] : m \in ActionNames}
          /\ g.account \in Accounts \cup {<<>>} /\ g.unset \in {{}, {"newName"}}
      BY DEF Offered
    <3>2. g.names \subseteq ArgumentNames
      BY <3>1 DEF ArgumentNames
    <3>3. <<>> \in Strings
      BY DEF Strings
    <3>4. g.unset \subseteq OptionalArguments
      BY <3>1 DEF OptionalArguments
    <3> QED BY <3>1, <3>2, <3>3, <3>4
  <2> QED BY <2>1, <2>2 DEF Arguments
<1> DEFINE a == NewAction(n, g)
<1>2. a \in Actions /\ Drafted(a)
  BY <1>1, NewActionType DEF Drafted
<1> HIDE DEF a
<1>3. /\ draft \in [actions : Seq(Actions), refBlock : Blocks, expiration : Nat]
      /\ draft' = [draft EXCEPT !.actions = Append(draft.actions, a)]
      /\ status = "Draft" /\ UNCHANGED <<status, auth, pending, head, now, thrown>>
  BY DEF AddAction, IInv, TypeOK, a
<1>4. /\ draft' \in [actions : Seq(Actions), refBlock : Blocks, expiration : Nat]
      /\ draft'.actions = Append(draft.actions, a)
  <2>1. Append(draft.actions, a) \in Seq(Actions)
    BY <1>2, <1>3
  <2> QED BY <1>3, <2>1
<1>5. \A i \in 1..Len(draft'.actions) : Drafted(draft'.actions[i])
  <2>1. draft.actions \in Seq(Actions) /\ \A i \in 1..Len(draft.actions) : Drafted(draft.actions[i])
    BY <1>3 DEF IInv
  <2> QED BY <1>2, <1>4, <2>1
<1> QED BY <1>3, <1>4, <1>5 DEF IInv, TypeOK, PackedFromDraft

LEMMA DeleteActionStep ==
    ASSUME IInv, NEW i \in 1..Len(draft.actions), DeleteAction(i)
    PROVE  IInv'
<1> DEFINE s == draft.actions
<1>1. /\ draft \in [actions : Seq(Actions), refBlock : Blocks, expiration : Nat]
      /\ draft' = [draft EXCEPT !.actions = RemoveAt(s, i)]
      /\ status = "Draft" /\ UNCHANGED <<status, auth, pending, head, now, thrown>>
      /\ \A k \in 1..Len(s) : Drafted(s[k])
  BY DEF DeleteAction, IInv, TypeOK
<1>2. s \in Seq(Actions) /\ i \in 1..Len(s)
  BY <1>1
<1> HIDE DEF s
<1>3. /\ RemoveAt(s, i) \in Seq(Actions)
      /\ \A k \in 1..Len(RemoveAt(s, i)) : \E m \in 1..Len(s) : RemoveAt(s, i)[k] = s[m]
  <2> DEFINE u == SubSeq(s, 1, i - 1)
             v == SubSeq(s, i + 1, Len(s))
  <2>1. /\ u \in Seq(Actions) /\ Len(u) = i - 1
        /\ \A k \in 1..Len(u) : u[k] = s[k]
    BY <1>2
  <2>2. /\ v \in Seq(Actions) /\ Len(v) = Len(s) - i
        /\ \A k \in 1..Len(v) : v[k] = s[i + k]
    BY <1>2
  <2> HIDE DEF u, v
  <2>3. u \o v \in Seq(Actions) /\ Len(u \o v) = Len(s) - 1
    <3>0. u \in Seq(Actions) /\ v \in Seq(Actions)
      BY <2>1, <2>2
    <3>1. u \o v \in Seq(Actions) /\ Len(u \o v) = Len(u) + Len(v)
      BY <3>0
    <3>2. Len(s) \in Nat
      BY <1>2
    <3> QED BY <1>2, <2>1, <2>2, <3>1, <3>2
  <2>4. ASSUME NEW k \in 1..Len(u \o v)
        PROVE  \E m \in 1..Len(s) : (u \o v)[k] = s[m]
    <3>1. CASE k <= Len(u)
      BY <1>2, <2>1, <2>2, <2>3, <3>1
    <3>2. CASE k > Len(u)
      <4>1. (u \o v)[k] = v[k - Len(u)] /\ k - Len(u) \in 1..Len(v)
        BY <1>2, <2>1, <2>2, <2>3, <3>2
      <4>2. (u \o v)[k] = s[k + 1] /\ k + 1 \in 1..Len(s)
        BY <1>2, <2>1, <2>2, <2>3, <3>2, <4>1
      <4> QED BY <4>2
    <3> QED BY <1>2, <2>1, <2>3, <3>1, <3>2
  <2> QED BY <2>3, <2>4 DEF RemoveAt, u, v
<1>4. /\ draft' \in [actions : Seq(Actions), refBlock : Blocks, expiration : Nat]
      /\ draft'.actions = RemoveAt(s, i)
  BY <1>1, <1>3
<1>5. \A k \in 1..Len(draft'.actions) : Drafted(draft'.actions[k])
  BY <1>1, <1>3, <1>4
<1> QED BY <1>1, <1>4, <1>5 DEF IInv, TypeOK, PackedFromDraft

LEMMA CreateTransactionStep == IInv /\ CreateTransaction => IInv'
BY NoneIsNoTransaction DEF IInv, CreateTransaction, TypeOK, EmptyDraft, Blocks, PackedFromDraft

LEMMA RunStep ==
    ASSUME IInv, NEW ms \in Conversions, Run(ms)
    PROVE  IInv'
<1>1. /\ draft \in [actions : Seq(Actions), refBlock : Blocks, expiration : Nat]
      /\ head \in Blocks /\ now \in Nat /\ ms \in Nat
      /\ draft' = Prepared(draft) /\ status = "Draft" /\ UNCHANGED <<pending, head, now>>
      /\ auth = None /\ pending = None /\ thrown = 0
  BY DEF IInv, TypeOK, Run, Running
<1>2. /\ draft' \in [actions : Seq(Actions), refBlock : Blocks, expiration : Nat]
      /\ draft'.actions = draft.actions
  <2>1. now + Lifetime \in Nat
    BY <1>1
  <2>2. draft' = [actions    |-> draft.actions,
                  refBlock   |-> IF draft.refBlock = NoBlock THEN head ELSE draft.refBlock,
                  expiration |-> IF draft.expiration = 0 THEN now + Lifetime ELSE draft.expiration]
    BY <1>1 DEF Prepared
  <2> QED BY <1>1, <2>1, <2>2
<1>3. CASE ms > Deadline
  <2>1. thrown' = ms /\ UNCHANGED <<status, auth>> /\ thrown' # 0
    BY <1>1, <1>3 DEF Run
  <2> QED BY <1>1, <1>2, <2>1 DEF IInv, TypeOK, PackedFromDraft
<1>4. CASE ~(ms > Deadline)
  <2>1. auth' = SignableFrom(draft') /\ status' = "Authorizing" /\ thrown' = thrown
    BY <1>4 DEF Run
  <2>2. /\ auth' \in SignableTransactions /\ auth'.signatures = <<>>
        /\ Len(auth'.actions) = Len(draft'.actions)
        /\ \A i \in 1..Len(draft'.actions) : auth'.actions[i] = action(draft'.actions[i])
    BY <1>2, <2>1, SignableFromType
  <2>3. auth' # None
    BY <2>2, NoneIsNoTransaction
  <2> QED BY <1>1, <1>2, <2>1, <2>2, <2>3
          DEF IInv, TypeOK, PackedFromDraft
<1> QED BY <1>3, <1>4

LEMMA AcceptStep ==
    ASSUME IInv, NEW ms \in Conversions, Accept(ms)
    PROVE  IInv'
<1>1. /\ auth \in SignableTransactions /\ auth # None /\ auth.signatures = <<>>
      /\ head \in Blocks /\ now \in Nat /\ ms \in Nat
      /\ auth' = signTransaction(auth) /\ status = "Authorizing" /\ pending = None
      /\ UNCHANGED <<draft, head, now>> /\ thrown = 0
  BY DEF IInv, TypeOK, Accept, Running
<1>2. /\ auth' \in SignableTransactions /\ auth'.actions = auth.actions
  BY <1>1, SigningType
<1>3. auth' # None
  BY <1>2, NoneIsNoTransaction
<1>4. CASE ms > Deadline
  <2>1. thrown' = ms /\ UNCHANGED <<status, pending>> /\ thrown' # 0
    BY <1>1, <1>4 DEF Accept
  <2> QED BY <1>1, <1>2, <1>3, <2>1 DEF IInv, TypeOK, PackedFromDraft
<1>5. CASE ~(ms > Deadline)
  <2>1. /\ pending' = packed_transaction(auth') /\ status' = "Pending" /\ thrown' = thrown
        /\ pending' \in PackedTransactions
        /\ pending'.signatures = auth'.signatures /\ pending'.packed_trx = Content(auth')
    BY <1>2, <1>5, PackingType DEF Accept
  <2>2. pending' # None
    BY <2>1, NoneIsNotPacked
  <2> QED BY <1>1, <1>2, <1>3, <2>1, <2>2 DEF IInv, TypeOK, PackedFromDraft
<1> QED BY <1>4, <1>5

LEMMA CancelStep == IInv /\ Cancel => IInv'
BY DEF IInv, Cancel, TypeOK, PackedFromDraft

LEMMA TickStep == IInv /\ Tick => IInv'
BY DEF IInv, Tick, TypeOK, PackedFromDraft

LEMMA HeadMovesStep ==
    ASSUME IInv, NEW chain \in Chains, HeadMoves(chain)
    PROVE  IInv'
<1>1. head' \in Blocks
  <2>1. head.number \in Nat
    BY DEF IInv, TypeOK, Blocks, NoBlock
  <2> QED BY <2>1 DEF HeadMoves, Blocks
<1> QED BY <1>1 DEF IInv, HeadMoves, TypeOK, PackedFromDraft

LEMMA StutterStep == IInv /\ UNCHANGED vars => IInv'
BY DEF IInv, vars, TypeOK, PackedFromDraft

LEMMA IInvInductive == IInv /\ [Next]_vars => IInv'
BY AddActionStep, DeleteActionStep, CreateTransactionStep, RunStep, AcceptStep, CancelStep,
   TickStep, HeadMovesStep, StutterStep DEF Next

LEMMA SpecIInv == Spec => []IInv
BY InitIInv, IInvInductive, PTL DEF Spec

\* Whatever is drafted packs into a well-formed transaction.
THEOREM SpecTypeOK == Spec => []TypeOK
BY SpecIInv, PTL DEF IInv

\* What the window shows is what is signed, whatever the user typed.
THEOREM SpecShownIsSigned == Spec => []ShownIsSigned
<1>1. IInv => ShownIsSigned
  <2> SUFFICES ASSUME IInv, auth # None, NEW i \in 1..Len(auth.actions)
               PROVE  action(decodeAction(auth.actions[i])) = auth.actions[i]
    BY DEF ShownIsSigned
  <2>1. /\ draft.actions \in Seq(Actions) /\ i \in 1..Len(draft.actions)
        /\ auth.actions[i] = action(draft.actions[i])
    BY DEF IInv, PackedFromDraft, TypeOK
  <2>2. draft.actions[i] \in Actions
    BY <2>1, ElementOfSeq
  <2> QED BY <2>1, <2>2, ActionType, PackedActionsRoundTrip
<1> QED BY <1>1, SpecIInv, PTL

\* Legal names reach the window and the contract as they were drafted.
THEOREM SpecDraftedIsShown == Spec => []DraftedIsShown
<1>1. IInv => DraftedIsShown
  <2> SUFFICES ASSUME IInv, status \in {"Authorizing", "Pending"}
               PROVE  DraftedIsShown
    BY DEF DraftedIsShown
  <2>1. /\ Len(auth.actions) = Len(draft.actions)
        /\ \A i \in 1..Len(draft.actions) : /\ auth.actions[i] = action(draft.actions[i])
                                            /\ Drafted(draft.actions[i])
    BY DEF IInv, PackedFromDraft
  <2> QED BY <2>1, LegalDraftsRoundTrip DEF DraftedIsShown
<1> QED BY <1>1, SpecIInv, PTL

\* The lifetime starts when the user accepts, and the transaction goes out signed: for the
\* node's chain, and over the content it goes out with.
THEOREM SpecBroadcastIsSigned == Spec => BroadcastIsSigned
<1> DEFINE Signed == pending' # pending /\ pending' # None =>
              /\ pending'.packed_trx.expiration = now + Lifetime
              /\ pending'.signatures # <<>>
              /\ \A k \in 1..Len(pending'.signatures) :
                   pending'.signatures[k] = [chain |-> head.chain, content |-> pending'.packed_trx]
<1>1. IInv /\ [Next]_vars => [Signed]_vars
  <2> SUFFICES ASSUME IInv, Next, pending' # pending, pending' # None
               PROVE  Signed
    OBVIOUS
  <2>1. PICK ms \in Conversions : Accept(ms)
    BY DEF Next, AddAction, DeleteAction, CreateTransaction, Run, Cancel, Tick, HeadMoves
  <2>2. /\ auth \in SignableTransactions /\ auth.signatures = <<>>
        /\ head \in Blocks /\ now \in Nat
        /\ pending' = packed_transaction(signTransaction(auth))
    BY <2>1 DEF IInv, TypeOK, Accept, Running
  <2> DEFINE signature == [chain |-> head.chain, content |-> pending'.packed_trx]
  <2>3. /\ pending'.packed_trx = Content(signTransaction(auth))
        /\ pending'.packed_trx.expiration = now + Lifetime
        /\ pending'.signatures = Append(<<>>, signature)
    BY <2>2, SigningType, PackingType
  <2> HIDE DEF signature
  <2>4. /\ Len(pending'.signatures) = 1 /\ pending'.signatures # <<>>
        /\ pending'.signatures[1] = signature
    BY <2>3
  <2>5. \A k \in 1..Len(pending'.signatures) : k = 1
    BY <2>4
  <2> QED BY <2>3, <2>4, <2>5 DEF signature
<1> QED BY <1>1, SpecIInv, PTL DEF Spec, BroadcastIsSigned
=============================================================================
