----------------------- MODULE ComponentManagerProofs -----------------------
(***************************************************************************)
(* Theorems about ComponentManager, for every number of files, sources and *)
(* requests: no Incubator that is still needed is ever erased, and while   *)
(* no callback begins an incubation nothing is lost or kept.               *)
(***************************************************************************)
EXTENDS ComponentManager, SequenceTheorems, TLAPS

(***************************************************************************)
(* The inductive invariant.                                                *)
(*                                                                         *)
(* What holds always.  An index a callback was told is never too small,    *)
(* since erasing moves Incubators to the front only; and of two callbacks  *)
(* that run, the inner one's Incubator is the further back.  So erasing at *)
(* an index, stale or not, never reaches the Incubator of an outer one.    *)
(***************************************************************************)
Vector ==
    /\ \A k \in 1..Len(incubators) :
          requests[incubators[k]].index \in Nat /\ k <= requests[incubators[k]].index + 1
    /\ \A j, k \in 1..Len(incubators) : incubators[j] = incubators[k] => j = k

InUse ==
    /\ \A r \in incubating : \E k \in 1..Len(incubators) : incubators[k] = r
    /\ \A a \in 1..Len(calling) :
          /\ calling[a] \notin incubating
          /\ requests[calling[a]].index # NoIndex =>
                \E k \in 1..Len(incubators) : incubators[k] = calling[a]
    /\ \A a, b \in 1..Len(calling), j, k \in 1..Len(incubators) :
          a < b /\ incubators[j] = calling[a] /\ incubators[k] = calling[b] => k < j

(***************************************************************************)
(* What holds until a callback begins an incubation.  The indices are      *)
(* true; every Incubator is incubating or its callback runs; and those     *)
(* whose callbacks run are behind those that are incubating.               *)
(***************************************************************************)
Tidy ==
    /\ \A k \in 1..Len(incubators) :
          /\ requests[incubators[k]].index = k - 1
          /\ incubators[k] \in incubating \/ \E a \in 1..Len(calling) : calling[a] = incubators[k]
    /\ \A j, k \in 1..Len(incubators) :
          j < k /\ incubators[k] \in incubating => incubators[j] \in incubating

\* A request waits for its component, or for its slot to be called, once, and has no Incubator
\* until then; and a component whose slots are called is no longer loading.
Waits ==
    /\ waiting \cap due = {}
    /\ \A r \in waiting \cup due :
          requests[r].index = NoIndex /\ requests[r].component # NullComponent
    /\ \A r \in due : components[requests[r].component] \in {"Ready", "Error"}

NothingLost ==
    \A r \in Made : requests[r].answer = "none" => r \in waiting \cup due \cup incubating

CInv ==
    /\ TypeOK
    /\ Vector
    /\ InUse
    /\ Waits
    /\ ~nested => Tidy /\ NothingLost

LEMMA PushFacts ==
  ASSUME NEW S, NEW s \in Seq(S), NEW r \in S
  PROVE  LET t == <<r>> \o s
         IN  /\ t \in Seq(S) /\ Len(t) = Len(s) + 1 /\ t[1] = r
             /\ \A k \in 1..Len(s) : t[k + 1] = s[k]
<1>1. <<r>> \in Seq(S) /\ Len(<<r>>) = 1 /\ <<r>>[1] = r
  OBVIOUS
<1> DEFINE t == <<r>> \o s
<1>2. /\ t \in Seq(S) /\ Len(t) = 1 + Len(s)
      /\ \A k \in 1 .. 1 + Len(s) : t[k] = IF k <= 1 THEN <<r>>[k] ELSE s[k - 1]
  BY <1>1, ConcatProperties
<1>3. Len(s) \in Nat
  OBVIOUS
<1>. HIDE DEF t
<1>4. t[1] = r
  BY <1>1, <1>2, <1>3
<1>5. ASSUME NEW k \in 1..Len(s)  PROVE t[k + 1] = s[k]
  <2>1. k + 1 \in 1 .. 1 + Len(s) /\ ~(k + 1 <= 1) /\ (k + 1) - 1 = k
    BY <1>3
  <2>. QED  BY <1>2, <2>1
<1>. QED  BY <1>2, <1>3, <1>4, <1>5 DEF t

\* Erasing from a vector: the places before `i` stay, those behind it move up.
LEMMA RemoveAtFacts ==
  ASSUME NEW S, NEW s \in Seq(S), NEW i \in 1..Len(s)
  PROVE  LET t == RemoveAt(s, i)
         IN  /\ t \in Seq(S) /\ Len(t) = Len(s) - 1
             /\ \A k \in 1 .. Len(s) - 1 : t[k] = IF k < i THEN s[k] ELSE s[k + 1]
<1> DEFINE front == SubSeq(s, 1, i - 1)
           back  == SubSeq(s, i + 1, Len(s))
           t     == front \o back
<1>0. Len(s) \in Nat /\ i \in Nat /\ i >= 1 /\ i <= Len(s)
  OBVIOUS
<1>1. /\ front \in Seq(S) /\ Len(front) = i - 1
      /\ \A k \in 1 .. i - 1 : front[k] = s[k]
  <2>1. \A k \in 1 .. i - 1 : s[k] \in S
    BY <1>0
  <2>2. /\ front \in Seq(S)
        /\ Len(front) = IF 1 <= i - 1 THEN (i - 1) - 1 + 1 ELSE 0
        /\ \A k \in 1 .. (i - 1) - 1 + 1 : front[k] = s[1 + k - 1]
    BY <1>0, <2>1, SubSeqProperties
  <2>. QED  BY <1>0, <2>2
<1>2. /\ back \in Seq(S) /\ Len(back) = Len(s) - i
      /\ \A k \in 1 .. Len(s) - i : back[k] = s[i + k]
  <2>1. \A k \in i + 1 .. Len(s) : s[k] \in S
    BY <1>0
  <2>2. /\ back \in Seq(S)
        /\ Len(back) = IF i + 1 <= Len(s) THEN Len(s) - (i + 1) + 1 ELSE 0
        /\ \A k \in 1 .. Len(s) - (i + 1) + 1 : back[k] = s[(i + 1) + k - 1]
    BY <1>0, <2>1, SubSeqProperties
  <2>. QED  BY <1>0, <2>2
<1>. HIDE DEF front, back
<1>3. /\ t \in Seq(S) /\ Len(t) = Len(front) + Len(back)
      /\ \A k \in 1 .. Len(front) + Len(back) :
            t[k] = IF k <= Len(front) THEN front[k] ELSE back[k - Len(front)]
  BY <1>1, <1>2, ConcatProperties
<1>. HIDE DEF t
<1>4. Len(t) = Len(s) - 1
  BY <1>0, <1>1, <1>2, <1>3
<1>5. ASSUME NEW k \in 1 .. Len(s) - 1
      PROVE  t[k] = IF k < i THEN s[k] ELSE s[k + 1]
  <2>1. k \in 1 .. Len(front) + Len(back)
    BY <1>0, <1>1, <1>2
  <2>2. CASE k < i
    <3>1. k <= Len(front) /\ k \in 1 .. i - 1
      BY <1>0, <1>1, <2>2
    <3>. QED  BY <1>1, <1>3, <2>1, <2>2, <3>1
  <2>3. CASE ~(k < i)
    <3>1. ~(k <= Len(front)) /\ k - Len(front) \in 1 .. Len(s) - i /\ i + (k - Len(front)) = k + 1
      BY <1>0, <1>1, <2>3
    <3>. QED  BY <1>2, <1>3, <2>1, <2>3, <3>1
  <2>. QED  BY <2>2, <2>3
<1>. QED  BY <1>3, <1>4, <1>5 DEF t, RemoveAt, front, back

(***************************************************************************)
(* What the actions do to the Incubators.  An action may make a new one,   *)
(* which goes to the end of the vector and incubates, or is done at once.  *)
(***************************************************************************)
SameIndices == \A q \in Made : requests'[q].index = requests[q].index

MakesIncubator(r) ==
    /\ incubators' = Append(incubators, r) /\ requests'[r].index = Len(incubators)
    /\ \A q \in Made : q # r => requests'[q].index = requests[q].index
    /\ r \in Made => requests[r].index = NoIndex
    /\ \A a \in 1..Len(calling) : calling[a] # r
    /\ \/ /\ incubating' = incubating \cup {r} /\ calling' = calling
          /\ nested' \/ \A a \in 1..Len(calling) : requests[calling[a]].index = NoIndex
       \/ incubating' = incubating /\ calling' = <<r>> \o calling

LEMMA MakesIncubatorKeeps ==
  ASSUME TypeOK, Vector, InUse, NEW r \in Nat, MakesIncubator(r)
  PROVE  Vector' /\ InUse' /\ (~nested' /\ Tidy => Tidy')
<1> DEFINE n == Len(incubators)
<1>1. /\ n \in Nat /\ Len(incubators') = n + 1 /\ incubators'[n + 1] = r
      /\ \A k \in 1..n : incubators'[k] = incubators[k] /\ incubators[k] \in Made
      /\ \A k \in 1 .. n + 1 : k \in 1..n \/ k = n + 1
  BY DEF MakesIncubator, TypeOK
<1>2. \A k \in 1..n : incubators[k] # r
  <2>1. NoIndex \notin Nat
    BY DEF NoIndex
  <2>. QED  BY <1>1, <2>1 DEF MakesIncubator, Vector
<1>3. \A k \in 1..n : requests'[incubators[k]].index = requests[incubators[k]].index
  BY <1>1, <1>2 DEF MakesIncubator
<1>4. requests'[r].index = n
  BY DEF MakesIncubator
<1>5. r \notin incubating
  BY <1>2 DEF InUse
<1>6. \A a \in 1..Len(calling) :
        /\ calling[a] \in Made /\ calling[a] # r
        /\ requests'[calling[a]].index = requests[calling[a]].index
  BY DEF MakesIncubator, TypeOK
<1>7. Len(calling) \in Nat
  BY DEF TypeOK
<1>. HIDE DEF n
<1>8. Vector'
  <2>1. ASSUME NEW k \in 1 .. n + 1
        PROVE  requests'[incubators'[k]].index \in Nat /\ k <= requests'[incubators'[k]].index + 1
    <3>1. CASE k = n + 1
      BY <1>1, <1>4, <3>1
    <3>2. CASE k \in 1..n
      BY <1>1, <1>3, <3>2 DEF Vector, n
    <3>. QED  BY <1>1, <3>1, <3>2
  <2>2. ASSUME NEW j \in 1 .. n + 1, NEW k \in 1 .. n + 1, incubators'[j] = incubators'[k]
        PROVE  j = k
    <3>1. CASE j \in 1..n /\ k \in 1..n
      BY <1>1, <2>2, <3>1 DEF Vector, n
    <3>2. CASE ~(j \in 1..n /\ k \in 1..n)
      BY <1>1, <1>2, <2>2, <3>2
    <3>. QED  BY <3>1, <3>2
  <2>. QED  BY <1>1, <2>1, <2>2 DEF Vector
<1>9. \A q : (\E k \in 1..n : incubators[k] = q) => \E k \in 1..Len(incubators') : incubators'[k] = q
  BY <1>1
<1>10. \E k \in 1..Len(incubators') : incubators'[k] = r
  <2>1. n + 1 \in 1..Len(incubators')
    BY <1>1
  <2>. QED  BY <1>1, <2>1
<1>11. CASE /\ incubating' = incubating \cup {r} /\ calling' = calling
            /\ nested' \/ \A a \in 1..Len(calling) : requests[calling[a]].index = NoIndex
  <2>1. InUse'
    <3>1. \A q \in incubating' : \E k \in 1..Len(incubators') : incubators'[k] = q
      BY <1>9, <1>10, <1>11 DEF InUse, n
    <3>2. \A a \in 1..Len(calling') :
            /\ calling'[a] \notin incubating'
            /\ requests'[calling'[a]].index # NoIndex =>
                  \E k \in 1..Len(incubators') : incubators'[k] = calling'[a]
      BY <1>6, <1>9, <1>11 DEF InUse, n
    <3>3. ASSUME NEW a \in 1..Len(calling'), NEW b \in 1..Len(calling'),
                 NEW j \in 1..Len(incubators'), NEW k \in 1..Len(incubators'),
                 a < b, incubators'[j] = calling'[a], incubators'[k] = calling'[b]
          PROVE  k < j
      <4>1. j \in 1..n /\ k \in 1..n
        BY <1>1, <1>6, <1>11, <3>3
      <4>2. incubators[j] = calling[a] /\ incubators[k] = calling[b]
        BY <1>1, <1>11, <3>3, <4>1
      <4>. QED  BY <1>11, <3>3, <4>1, <4>2 DEF InUse, n
    <3>. QED  BY <3>1, <3>2, <3>3 DEF InUse
  <2>2. ASSUME ~nested', Tidy  PROVE Tidy'
    <3>1. \A k \in 1..n : incubators[k] \in incubating
      <4>1. NoIndex \notin Nat
        BY DEF NoIndex
      <4>. QED  BY <1>11, <2>2, <4>1 DEF Tidy, Vector, n
    <3>2. \A k \in 1 .. n + 1 : incubators'[k] \in incubating'
      BY <1>1, <1>11, <3>1
    <3>3. ASSUME NEW k \in 1 .. n + 1  PROVE requests'[incubators'[k]].index = k - 1
      <4>1. CASE k \in 1..n
        BY <1>1, <1>3, <2>2, <4>1 DEF Tidy, n
      <4>2. CASE k = n + 1
        BY <1>1, <1>4, <4>2
      <4>. QED  BY <1>1, <4>1, <4>2
    <3>. QED  BY <1>1, <3>2, <3>3 DEF Tidy
  <2>. QED  BY <1>8, <2>1, <2>2
<1>12. CASE incubating' = incubating /\ calling' = <<r>> \o calling
  <2>0. /\ Len(calling') = Len(calling) + 1 /\ calling'[1] = r
        /\ \A a \in 1..Len(calling) : calling'[a + 1] = calling[a]
    <3>1. calling \in Seq(Nat)
      BY DEF TypeOK, Made
    <3>. QED  BY <1>12, <3>1, PushFacts
  <2>00. \A a \in 1..Len(calling') : a = 1 \/ (a - 1 \in 1..Len(calling) /\ (a - 1) + 1 = a)
    BY <1>7, <2>0
  <2>01. \A a \in 1..Len(calling') : a = 1 \/ calling'[a] = calling[a - 1]
    BY <2>0, <2>00
  <2>1. InUse'
    <3>1. \A q \in incubating' : \E k \in 1..Len(incubators') : incubators'[k] = q
      BY <1>9, <1>12 DEF InUse, n
    <3>2. ASSUME NEW a \in 1..Len(calling')
          PROVE  /\ calling'[a] \notin incubating'
                 /\ requests'[calling'[a]].index # NoIndex =>
                       \E k \in 1..Len(incubators') : incubators'[k] = calling'[a]
      <4>1. CASE a = 1
        BY <1>5, <1>10, <1>12, <2>0, <4>1
      <4>2. CASE a # 1
        <5>1. a - 1 \in 1..Len(calling) /\ calling'[a] = calling[a - 1]
          BY <2>00, <2>01, <4>2
        <5>2. requests'[calling[a - 1]].index = requests[calling[a - 1]].index
          BY <1>6, <5>1
        <5>3. /\ calling[a - 1] \notin incubating
              /\ requests[calling[a - 1]].index # NoIndex =>
                    \E k \in 1..n : incubators[k] = calling[a - 1]
          BY <5>1 DEF InUse, n
        <5>. QED  BY <1>9, <1>12, <5>1, <5>2, <5>3
      <4>. QED  BY <4>1, <4>2
    <3>3. ASSUME NEW a \in 1..Len(calling'), NEW b \in 1..Len(calling'),
                 NEW j \in 1..Len(incubators'), NEW k \in 1..Len(incubators'),
                 a < b, incubators'[j] = calling'[a], incubators'[k] = calling'[b]
          PROVE  k < j
      <4>1. b # 1 /\ b - 1 \in 1..Len(calling) /\ incubators'[k] = calling[b - 1]
        BY <1>7, <2>00, <2>01, <3>3
      <4>2. k \in 1..n /\ incubators[k] = calling[b - 1]
        BY <1>1, <1>6, <3>3, <4>1
      <4>3. CASE j = n + 1
        BY <1>1, <4>2, <4>3
      <4>4. CASE j # n + 1
        <5>1. j \in 1..n /\ incubators'[j] = incubators[j] /\ incubators[j] # r
          BY <1>1, <1>2, <3>3, <4>4
        <5>2. a # 1 /\ a - 1 \in 1..Len(calling) /\ incubators[j] = calling[a - 1]
          BY <2>0, <2>00, <2>01, <3>3, <5>1
        <5>3. a - 1 < b - 1
          BY <1>7, <3>3, <4>1, <5>2
        <5>. QED  BY <4>1, <4>2, <5>1, <5>2, <5>3 DEF InUse, n
      <4>. QED  BY <4>3, <4>4
    <3>. QED  BY <3>1, <3>2, <3>3 DEF InUse
  <2>2. ASSUME Tidy  PROVE Tidy'
    <3>1. ASSUME NEW k \in 1 .. n + 1
          PROVE  /\ requests'[incubators'[k]].index = k - 1
                 /\ \/ incubators'[k] \in incubating'
                    \/ \E a \in 1..Len(calling') : calling'[a] = incubators'[k]
      <4>1. CASE k \in 1..n
        <5>1. requests'[incubators'[k]].index = k - 1
          BY <1>1, <1>3, <2>2, <4>1 DEF Tidy, n
        <5>2. CASE incubators[k] \in incubating
          BY <1>1, <1>12, <4>1, <5>1, <5>2
        <5>3. ASSUME NEW a \in 1..Len(calling), calling[a] = incubators[k]
              PROVE  \E b \in 1..Len(calling') : calling'[b] = incubators'[k]
          <6>1. a + 1 \in 1..Len(calling')
            BY <1>7, <2>0
          <6>. QED  BY <1>1, <2>0, <4>1, <5>3, <6>1
        <5>. QED  BY <2>2, <4>1, <5>1, <5>2, <5>3 DEF Tidy, n
      <4>2. CASE k = n + 1
        <5>1. 1 \in 1..Len(calling')
          BY <1>7, <2>0
        <5>. QED  BY <1>1, <1>4, <2>0, <4>2, <5>1
      <4>. QED  BY <1>1, <4>1, <4>2
    <3>2. ASSUME NEW j \in 1 .. n + 1, NEW k \in 1 .. n + 1, j < k,
                 incubators'[k] \in incubating'
          PROVE  incubators'[j] \in incubating'
      <4>1. k \in 1..n /\ j \in 1..n
        <5>1. k # n + 1
          BY <1>1, <1>5, <1>12, <3>2
        <5>2. k \in 1..n
          BY <1>1, <5>1
        <5>. QED  BY <1>1, <3>2, <5>2
      <4>2. incubators[k] \in incubating
        BY <1>1, <1>12, <3>2, <4>1
      <4>3. incubators[j] \in incubating
        BY <2>2, <3>2, <4>1, <4>2 DEF Tidy, n
      <4>. QED  BY <1>1, <1>12, <4>1, <4>3
    <3>. QED  BY <1>1, <3>1, <3>2 DEF Tidy
  <2>. QED  BY <1>8, <2>1, <2>2
<1>. QED  BY <1>11, <1>12 DEF MakesIncubator

\* An action may leave the Incubators alone.
LeavesIncubators ==
    /\ incubators' = incubators /\ incubating' = incubating /\ calling' = calling
    /\ SameIndices

LEMMA LeavesIncubatorsKeeps ==
  ASSUME TypeOK, Vector, InUse, LeavesIncubators
  PROVE  Vector' /\ InUse' /\ (Tidy => Tidy')
<1>1. \A k \in 1..Len(incubators) :
        requests'[incubators[k]].index = requests[incubators[k]].index
  BY DEF LeavesIncubators, SameIndices, TypeOK
<1>2. \A a \in 1..Len(calling) : requests'[calling[a]].index = requests[calling[a]].index
  BY DEF LeavesIncubators, SameIndices, TypeOK
<1>3. Vector'
  BY <1>1 DEF Vector, LeavesIncubators
<1>4. InUse'
  BY <1>2 DEF InUse, LeavesIncubators
<1>5. Tidy => Tidy'
  BY <1>1 DEF Tidy, LeavesIncubators
<1>. QED  BY <1>3, <1>4, <1>5

\* A request may be answered without an Incubator: its callback runs, and will erase nothing.
AnswersAtOnce(r) ==
    /\ incubators' = incubators /\ incubating' = incubating /\ calling' = <<r>> \o calling
    /\ SameIndices
    /\ requests'[r].index = NoIndex

LEMMA AnswersAtOnceKeeps ==
  ASSUME TypeOK, Vector, InUse, NEW r \in Nat, AnswersAtOnce(r)
  PROVE  Vector' /\ InUse' /\ (Tidy => Tidy')
<1>1. \A k \in 1..Len(incubators) :
        /\ incubators[k] \in Made
        /\ requests'[incubators[k]].index = requests[incubators[k]].index
  BY DEF AnswersAtOnce, SameIndices, TypeOK
<1>2. \A k \in 1..Len(incubators) : incubators[k] # r
  <2>1. NoIndex \notin Nat
    BY DEF NoIndex
  <2>. QED  BY <1>1, <2>1 DEF AnswersAtOnce, Vector
<1>3. r \notin incubating
  BY <1>2 DEF InUse
<1>4. \A a \in 1..Len(calling) : requests'[calling[a]].index = requests[calling[a]].index
  BY DEF AnswersAtOnce, SameIndices, TypeOK
<1>5. Len(calling) \in Nat
  BY DEF TypeOK
<1>6. /\ Len(calling') = Len(calling) + 1 /\ calling'[1] = r
      /\ \A a \in 1..Len(calling) : calling'[a + 1] = calling[a]
  <2>1. calling \in Seq(Nat)
    BY DEF TypeOK, Made
  <2>. QED  BY <2>1, PushFacts DEF AnswersAtOnce
<1>7. \A a \in 1..Len(calling') : a = 1 \/ (a - 1 \in 1..Len(calling) /\ (a - 1) + 1 = a)
  BY <1>5, <1>6
<1>8. \A a \in 1..Len(calling') : a = 1 \/ calling'[a] = calling[a - 1]
  BY <1>6, <1>7
<1>9. incubators' = incubators /\ incubating' = incubating /\ requests'[r].index = NoIndex
  BY DEF AnswersAtOnce
<1>10. Vector'
  BY <1>1, <1>9 DEF Vector
<1>11. InUse'
  <2>1. ASSUME NEW a \in 1..Len(calling')
        PROVE  /\ calling'[a] \notin incubating'
               /\ requests'[calling'[a]].index # NoIndex =>
                     \E k \in 1..Len(incubators') : incubators'[k] = calling'[a]
    <3>1. CASE a = 1
      BY <1>3, <1>6, <1>9, <3>1
    <3>2. CASE a # 1
      <4>1. a - 1 \in 1..Len(calling) /\ calling'[a] = calling[a - 1]
        BY <1>7, <1>8, <3>2
      <4>2. requests'[calling[a - 1]].index = requests[calling[a - 1]].index
        BY <1>4, <4>1
      <4>. QED  BY <1>9, <4>1, <4>2 DEF InUse
    <3>. QED  BY <3>1, <3>2
  <2>2. ASSUME NEW a \in 1..Len(calling'), NEW b \in 1..Len(calling'),
               NEW j \in 1..Len(incubators'), NEW k \in 1..Len(incubators'),
               a < b, incubators'[j] = calling'[a], incubators'[k] = calling'[b]
        PROVE  k < j
    <3>1. a # 1 /\ b # 1
      BY <1>2, <1>6, <1>9, <2>2
    <3>2. /\ a - 1 \in 1..Len(calling) /\ incubators[j] = calling[a - 1]
          /\ b - 1 \in 1..Len(calling) /\ incubators[k] = calling[b - 1]
      BY <1>7, <1>8, <1>9, <2>2, <3>1
    <3>3. a - 1 < b - 1 /\ j \in 1..Len(incubators) /\ k \in 1..Len(incubators)
      BY <1>5, <1>6, <1>9, <2>2, <3>2
    <3>. QED  BY <3>2, <3>3 DEF InUse
  <2>. QED  BY <1>9, <2>1, <2>2 DEF InUse
<1>12. ASSUME Tidy  PROVE Tidy'
  <2>1. ASSUME NEW a \in 1..Len(calling)
        PROVE  \E b \in 1..Len(calling') : calling'[b] = calling[a]
    <3>1. a + 1 \in 1..Len(calling')
      BY <1>5, <1>6
    <3>. QED  BY <1>6, <3>1
  <2>2. ASSUME NEW k \in 1..Len(incubators)
        PROVE  \/ incubators[k] \in incubating
               \/ \E b \in 1..Len(calling') : calling'[b] = incubators[k]
    BY <1>12, <2>1 DEF Tidy
  <2>. QED  BY <1>1, <1>9, <1>12, <2>2 DEF Tidy
<1>. QED  BY <1>10, <1>11, <1>12

\* And the newest Incubator may be done, from the event loop: its callback runs.
Finishes(k) ==
    /\ calling = <<>> /\ calling' = <<incubators[k]>> \o calling
    /\ incubators' = incubators /\ incubating' = incubating \ {incubators[k]}
    /\ SameIndices

LEMMA FinishesKeeps ==
  ASSUME TypeOK, Vector, InUse, NEW k, NextIncubated(k), Finishes(k)
  PROVE  Vector' /\ InUse' /\ (Tidy => Tidy')
<1> DEFINE r == incubators[k]
<1>1. /\ k \in 1..Len(incubators) /\ r \in incubating /\ r \in Made
      /\ \A j \in k + 1 .. Len(incubators) : incubators[j] \notin incubating
  BY DEF NextIncubated, TypeOK
<1>2. \A j \in 1..Len(incubators) :
        /\ incubators[j] \in Made
        /\ requests'[incubators[j]].index = requests[incubators[j]].index
  BY DEF Finishes, SameIndices, TypeOK
<1>3. calling = <<>> /\ Len(calling') = 1 /\ calling'[1] = r
  <2>1. calling \in Seq(Made) /\ Len(calling) = 0
    BY DEF TypeOK, Finishes
  <2>. QED  BY <1>1, <2>1, PushFacts DEF Finishes
<1>4. incubators' = incubators /\ incubating' = incubating \ {r}
  BY DEF Finishes
<1>. HIDE DEF r
<1>5. Vector'
  BY <1>2, <1>4 DEF Vector
<1>6. InUse'
  <2>1. \A a \in 1..Len(calling') : calling'[a] = r
    BY <1>3
  <2>2. \A a, b \in 1..Len(calling') : ~(a < b)
    BY <1>3
  <2>. QED  BY <1>1, <1>4, <2>1, <2>2 DEF InUse, r
<1>7. ASSUME Tidy  PROVE Tidy'
  <2>1. \A j \in 1..Len(incubators) : incubators[j] \in incubating
    <3>1. 1..Len(calling) = {}
      BY <1>3
    <3>. QED  BY <1>7, <3>1 DEF Tidy
  <2>2. 1 \in 1..Len(calling')
    BY <1>3
  <2>3. \A j \in 1..Len(incubators) :
          incubators[j] \in incubating' \/ \E a \in 1..Len(calling') : calling'[a] = incubators[j]
    BY <1>3, <1>4, <2>1, <2>2
  <2>4. ASSUME NEW i \in 1..Len(incubators), NEW j \in 1..Len(incubators),
               i < j, incubators[j] \in incubating'
        PROVE  incubators[i] \in incubating'
    <3>1. CASE incubators[i] = r
      <4>1. i = k
        BY <1>1, <3>1 DEF Vector, r
      <4>2. j \in k + 1 .. Len(incubators)
        BY <1>1, <2>4, <4>1
      <4>. QED  BY <1>1, <1>4, <2>4, <4>2
    <3>2. CASE incubators[i] # r
      BY <1>4, <2>1, <3>2
    <3>. QED  BY <3>1, <3>2
  <2>. QED  BY <1>2, <1>4, <1>7, <2>3, <2>4 DEF Tidy
<1>. QED  BY <1>5, <1>6, <1>7

(***************************************************************************)
(* A callback returns.  The place it erases is that of its own Incubator   *)
(* or behind it, so the Incubators of the callbacks around it are in front *)
(* of that place; and while indices are true, it is the last place.        *)
(***************************************************************************)
Place(r) ==
    LET index == requests[r].index
    IN  IF index < Len(incubators) THEN index + 1 ELSE Len(incubators)

Erases(r) ==
    /\ incubators' = RemoveAt(incubators, Place(r))
    /\ incubating' = incubating \ {incubators[Place(r)]}

Returns ==
    /\ calling # <<>> /\ calling' = Tail(calling)
    /\ requests' = requests
    /\ requests[calling[1]].index = NoIndex => incubators' = incubators /\ incubating' = incubating
    /\ requests[calling[1]].index # NoIndex => Erases(calling[1])

LEMMA TailFacts ==
  ASSUME TypeOK, Returns
  PROVE  /\ calling[1] \in Made /\ 1 \in 1..Len(calling) /\ Len(calling) \in Nat
         /\ calling' \in Seq(Made) /\ Len(calling') = Len(calling) - 1
         /\ \A a \in 1..Len(calling') : calling'[a] = calling[a + 1] /\ a + 1 \in 1..Len(calling)
         /\ \A a \in 1..Len(calling) : a # 1 =>
               a - 1 \in 1..Len(calling') /\ calling'[a - 1] = calling[a]
<1>1. calling \in Seq(Made) /\ calling # <<>> /\ calling' = Tail(calling)
  BY DEF TypeOK, Returns
<1>2. /\ Len(calling) \in Nat /\ Len(calling) >= 1 /\ calling' \in Seq(Made)
      /\ Len(calling') = Len(calling) - 1
      /\ \A a \in 1..Len(calling') : calling'[a] = calling[a + 1]
  BY <1>1
<1>3. 1 \in 1..Len(calling)
  BY <1>2
<1>4. calling[1] \in Made
  BY <1>1, <1>3
<1>5. \A a \in 1..Len(calling') : a + 1 \in 1..Len(calling)
  BY <1>2
<1>6. \A a \in 1..Len(calling) : a # 1 => a - 1 \in 1..Len(calling') /\ (a - 1) + 1 = a
  BY <1>2
<1>7. \A a \in 1..Len(calling) : a # 1 => calling'[a - 1] = calling[a]
  BY <1>2, <1>6
<1>. QED  BY <1>2, <1>3, <1>4, <1>5, <1>6, <1>7

LEMMA ReturnsWithoutKeeps ==
  ASSUME TypeOK, Vector, InUse, Returns, requests[calling[1]].index = NoIndex
  PROVE  Vector' /\ InUse' /\ (Tidy => Tidy')
<1>1. incubators' = incubators /\ incubating' = incubating /\ requests' = requests
  BY DEF Returns
<1>2. Vector'
  BY <1>1 DEF Vector
<1>3. \A k \in 1..Len(incubators) : incubators[k] # calling[1]
  <2>1. NoIndex \notin Nat
    BY DEF NoIndex
  <2>. QED  BY <2>1 DEF Vector
<1>4. InUse'
  <2>1. ASSUME NEW a \in 1..Len(calling'), NEW b \in 1..Len(calling'),
               NEW j \in 1..Len(incubators'), NEW k \in 1..Len(incubators'),
               a < b, incubators'[j] = calling'[a], incubators'[k] = calling'[b]
        PROVE  k < j
    <3>1. a + 1 < b + 1 /\ a + 1 \in 1..Len(calling) /\ b + 1 \in 1..Len(calling)
      BY <2>1, TailFacts
    <3>2. incubators[j] = calling[a + 1] /\ incubators[k] = calling[b + 1]
      BY <1>1, <2>1, TailFacts
    <3>. QED  BY <1>1, <3>1, <3>2 DEF InUse
  <2>. QED  BY <1>1, <2>1, TailFacts DEF InUse
<1>5. Tidy => Tidy'
  <2>1. ASSUME NEW k \in 1..Len(incubators), NEW a \in 1..Len(calling), calling[a] = incubators[k]
        PROVE  \E b \in 1..Len(calling') : calling'[b] = incubators[k]
    <3>1. a # 1
      BY <1>3, <2>1
    <3>. QED  BY <2>1, <3>1, TailFacts
  <2>. QED  BY <1>1, <2>1 DEF Tidy
<1>. QED  BY <1>2, <1>4, <1>5

\* Where an Incubator of the vector was before the one at `place` was erased.
Before(k, place) == IF k < place THEN k ELSE k + 1

LEMMA ErasesFacts ==
  ASSUME TypeOK, Vector, InUse, Returns, requests[calling[1]].index # NoIndex,
         NEW place, place = Place(calling[1]), NEW n, n = Len(incubators)
  PROVE  /\ n \in Nat /\ place \in 1..n /\ Len(incubators') = n - 1
         /\ \E p \in 1..n : p <= place /\ incubators[p] = calling[1]
         /\ \A k \in 1 .. n - 1 : Before(k, place) \in 1..n /\ incubators'[k] = incubators[Before(k, place)]
         /\ \A k \in 1..n : k # place => \E j \in 1 .. n - 1 : Before(j, place) = k
         /\ incubators' \in Seq(Made)
<1>1. /\ incubators \in Seq(Made) /\ n \in Nat
      /\ calling[1] \in Made
  BY TailFacts DEF TypeOK
<1>2. PICK p \in 1..n : incubators[p] = calling[1]
  BY TailFacts DEF InUse
<1>3. requests[calling[1]].index \in Nat /\ p <= requests[calling[1]].index + 1
  BY <1>2 DEF Vector
<1>4. place = IF requests[calling[1]].index < n THEN requests[calling[1]].index + 1 ELSE n
  BY DEF Place
<1>5. place \in 1..n /\ p <= place
  BY <1>1, <1>3, <1>4
<1>6. incubators' = RemoveAt(incubators, place)
  BY DEF Returns, Erases
<1>7. /\ incubators' \in Seq(Made) /\ Len(incubators') = n - 1
      /\ \A k \in 1 .. n - 1 : incubators'[k] = IF k < place THEN incubators[k] ELSE incubators[k + 1]
  BY <1>1, <1>5, <1>6, RemoveAtFacts
<1>8. \A k \in 1 .. n - 1 : Before(k, place) \in 1..n /\ incubators'[k] = incubators[Before(k, place)]
  BY <1>1, <1>5, <1>7 DEF Before
<1>9. ASSUME NEW k \in 1..n, k # place  PROVE \E j \in 1 .. n - 1 : Before(j, place) = k
  <2>1. CASE k < place
    BY <1>1, <1>5, <2>1 DEF Before
  <2>2. CASE ~(k < place)
    <3>1. k - 1 \in 1 .. n - 1 /\ ~(k - 1 < place) /\ (k - 1) + 1 = k
      BY <1>1, <1>5, <1>9, <2>2
    <3>. QED  BY <3>1 DEF Before
  <2>. QED  BY <2>1, <2>2
<1>. QED  BY <1>1, <1>2, <1>5, <1>7, <1>8, <1>9

LEMMA BeforeFacts ==
  ASSUME NEW j \in Nat, NEW k \in Nat, NEW place \in Nat
  PROVE  /\ k <= Before(k, place) /\ Before(k, place) # place
         /\ Before(j, place) < Before(k, place) <=> j < k
         /\ Before(j, place) = Before(k, place) <=> j = k
BY DEF Before

LEMMA ErasesKeeps ==
  ASSUME TypeOK, Vector, InUse, Returns, requests[calling[1]].index # NoIndex
  PROVE  Vector' /\ InUse' /\ (Tidy => Tidy' /\ incubating' = incubating)
<1> DEFINE n     == Len(incubators)
           place == Place(calling[1])
<1>1. /\ n \in Nat /\ place \in 1..n /\ Len(incubators') = n - 1
      /\ \A k \in 1 .. n - 1 : Before(k, place) \in 1..n /\ incubators'[k] = incubators[Before(k, place)]
      /\ \A k \in 1..n : k # place => \E j \in 1 .. n - 1 : Before(j, place) = k
  BY ErasesFacts
<1>2. PICK p \in 1..n : p <= place /\ incubators[p] = calling[1]
  BY ErasesFacts
<1>3. incubating' = incubating \ {incubators[place]} /\ requests' = requests
  BY DEF Returns, Erases
<1>4. place = IF requests[calling[1]].index < n THEN requests[calling[1]].index + 1 ELSE n
  BY DEF Place
<1>. HIDE DEF n, place
<1>5. \A j, k \in 1 .. n - 1 :
        /\ k <= Before(k, place) /\ Before(k, place) # place
        /\ Before(j, place) < Before(k, place) <=> j < k
        /\ Before(j, place) = Before(k, place) <=> j = k
  <2>1. \A k \in 1 .. n - 1 : k \in Nat
    BY <1>1
  <2>. QED  BY <1>1, <2>1, BeforeFacts
<1>6. Vector'
  <2>1. ASSUME NEW k \in 1 .. n - 1
        PROVE  requests'[incubators'[k]].index \in Nat /\ k <= requests'[incubators'[k]].index + 1
    <3>1. /\ requests[incubators[Before(k, place)]].index \in Nat
          /\ Before(k, place) <= requests[incubators[Before(k, place)]].index + 1
      BY <1>1 DEF Vector, n
    <3>2. k <= Before(k, place) /\ Before(k, place) \in Nat /\ k \in Nat
      BY <1>1, <1>5
    <3>3. k <= requests[incubators[Before(k, place)]].index + 1
      BY <3>1, <3>2
    <3>. QED  BY <1>1, <1>3, <3>1, <3>3
  <2>2. ASSUME NEW j \in 1 .. n - 1, NEW k \in 1 .. n - 1, incubators'[j] = incubators'[k]
        PROVE  j = k
    <3>1. Before(j, place) = Before(k, place)
      BY <1>1, <2>2 DEF Vector, n
    <3>. QED  BY <1>5, <3>1
  <2>. QED  BY <1>1, <2>1, <2>2 DEF Vector
<1>7. ASSUME NEW k \in 1..n, k # place
      PROVE  \E j \in 1..Len(incubators') : incubators'[j] = incubators[k]
  BY <1>1, <1>7
<1>8. ASSUME NEW a \in 1..Len(calling), a # 1, NEW k \in 1..n, incubators[k] = calling[a]
      PROVE  k < p
  <2>1. 1 < a /\ 1 \in 1..Len(calling)
    BY <1>8, TailFacts
  <2>. QED  BY <1>2, <1>8, <2>1 DEF InUse, n
<1>9. InUse'
  <2>1. ASSUME NEW q \in incubating'
        PROVE  \E k \in 1..Len(incubators') : incubators'[k] = q
    <3>1. PICK k \in 1..n : incubators[k] = q
      BY <1>3, <2>1 DEF InUse, n
    <3>2. k # place
      BY <1>3, <2>1, <3>1
    <3>. QED  BY <1>7, <3>1, <3>2
  <2>2. ASSUME NEW a \in 1..Len(calling')
        PROVE  /\ calling'[a] \notin incubating'
               /\ requests'[calling'[a]].index # NoIndex =>
                     \E k \in 1..Len(incubators') : incubators'[k] = calling'[a]
    <3>1. a + 1 \in 1..Len(calling) /\ a + 1 # 1 /\ calling'[a] = calling[a + 1]
      BY TailFacts
    <3>2. calling'[a] \notin incubating'
      BY <1>3, <3>1 DEF InUse
    <3>3. ASSUME requests[calling[a + 1]].index # NoIndex
          PROVE  \E k \in 1..Len(incubators') : incubators'[k] = calling'[a]
      <4>1. PICK k \in 1..n : incubators[k] = calling[a + 1]
        BY <3>1, <3>3 DEF InUse, n
      <4>2. k # place
        <5>1. k < p
          BY <1>8, <3>1, <4>1
        <5>. QED  BY <1>1, <1>2, <5>1
      <4>. QED  BY <1>7, <3>1, <4>1, <4>2
    <3>. QED  BY <1>3, <3>1, <3>2, <3>3
  <2>3. ASSUME NEW a \in 1..Len(calling'), NEW b \in 1..Len(calling'),
               NEW j \in 1..Len(incubators'), NEW k \in 1..Len(incubators'),
               a < b, incubators'[j] = calling'[a], incubators'[k] = calling'[b]
        PROVE  k < j
    <3>1. a + 1 < b + 1 /\ a + 1 \in 1..Len(calling) /\ b + 1 \in 1..Len(calling)
      BY <2>3, TailFacts
    <3>2. /\ calling'[a] = calling[a + 1] /\ calling'[b] = calling[b + 1]
          /\ j \in 1 .. n - 1 /\ k \in 1 .. n - 1
      BY <1>1, TailFacts
    <3>3. /\ Before(j, place) \in 1..n /\ incubators[Before(j, place)] = calling[a + 1]
          /\ Before(k, place) \in 1..n /\ incubators[Before(k, place)] = calling[b + 1]
      BY <1>1, <2>3, <3>2
    <3>4. Before(k, place) < Before(j, place)
      BY <3>1, <3>3 DEF InUse, n
    <3>. QED  BY <1>5, <3>2, <3>4
  <2>. QED  BY <2>1, <2>2, <2>3 DEF InUse
<1>10. ASSUME Tidy  PROVE Tidy' /\ incubating' = incubating
  <2>1. requests[calling[1]].index = p - 1
    BY <1>2, <1>10 DEF Tidy, n
  <2>2. place = p
    BY <1>1, <1>4, <2>1
  <2>3. calling[1] \notin incubating
    BY TailFacts DEF InUse
  <2>4. p = n
    <3>1. SUFFICES ASSUME p # n PROVE FALSE
      OBVIOUS
    <3>2. n \in 1..n /\ p < n
      BY <1>1, <3>1
    <3>3. CASE incubators[n] \in incubating
      <4>1. incubators[p] \in incubating
        BY <1>10, <3>2, <3>3 DEF Tidy, n
      <4>. QED  BY <1>2, <2>3, <4>1
    <3>4. ASSUME NEW a \in 1..Len(calling), calling[a] = incubators[n]  PROVE FALSE
      <4>1. CASE a = 1
        BY <1>2, <3>2, <3>4, <4>1 DEF Vector, n
      <4>2. CASE a # 1
        <5>1. n < p
          BY <1>8, <3>2, <3>4, <4>2
        <5>. QED  BY <1>1, <3>2, <5>1
      <4>. QED  BY <4>1, <4>2
    <3>. QED  BY <1>10, <3>2, <3>3, <3>4 DEF Tidy, n
  <2>5. \A k \in 1 .. n - 1 : k \in 1..n /\ k # n /\ incubators'[k] = incubators[k]
    BY <1>1, <2>2, <2>4 DEF Before
  <2>6. incubating' = incubating
    BY <1>2, <1>3, <2>2, <2>3
  <2>7. ASSUME NEW k \in 1 .. n - 1, incubators[k] \notin incubating
        PROVE  \E b \in 1..Len(calling') : calling'[b] = incubators[k]
    <3>1. PICK a \in 1..Len(calling) : calling[a] = incubators[k]
      BY <1>10, <2>5, <2>7 DEF Tidy, n
    <3>2. a # 1
      BY <1>2, <2>4, <2>5, <3>1 DEF Vector, n
    <3>. QED  BY <3>1, <3>2, TailFacts
  <2>8. \A k \in 1 .. n - 1 : requests[incubators[k]].index = k - 1
    BY <1>10, <2>5 DEF Tidy, n
  <2>9. \A j, k \in 1 .. n - 1 :
          j < k /\ incubators[k] \in incubating => incubators[j] \in incubating
    BY <1>10, <2>5 DEF Tidy, n
  <2>. QED  BY <1>1, <1>3, <2>5, <2>6, <2>7, <2>8, <2>9 DEF Tidy
<1>. QED  BY <1>6, <1>9, <1>10

LEMMA ReturnsKeeps ==
  ASSUME TypeOK, Vector, InUse, Returns
  PROVE  /\ Vector' /\ InUse' /\ (Tidy => Tidy' /\ incubating' = incubating)
         /\ incubators' \in Seq(Made) /\ incubating' \subseteq incubating
<1>1. CASE requests[calling[1]].index = NoIndex
  BY <1>1, ReturnsWithoutKeeps DEF Returns, TypeOK
<1>2. CASE requests[calling[1]].index # NoIndex
  <2>1. incubators' \in Seq(Made)
    BY <1>2, ErasesFacts
  <2>2. incubating' \subseteq incubating
    BY <1>2 DEF Returns, Erases
  <2>. QED  BY <1>2, <2>1, <2>2, ErasesKeeps
<1>. QED  BY <1>1, <1>2

(***************************************************************************)
(* What finishCreation does to the requests and to the Incubators, for the *)
(* requests `Q` it is given: those made, or those and a new one.           *)
(***************************************************************************)
RequestType == [component : Files \cup Sources \cup {NullComponent},
                answer    : {"none", "object", "null"},
                index     : Nat \cup {NoIndex}]

ManagerOf(Q) == [requests |-> Q, waiting |-> waiting, incubators |-> incubators,
                 incubating |-> incubating, calling |-> calling]

Records(Q, r) ==
    /\ requests' \in Seq(RequestType) /\ Len(requests') = Len(Q)
    /\ \A q \in 1..Len(Q) : q # r => requests'[q] = Q[q]
    /\ requests'[r].component = Q[r].component

LEMMA EntryFacts ==
  ASSUME NEW Q \in Seq(RequestType), NEW r \in 1..Len(Q), NEW x \in RequestType,
         x.component = Q[r].component, requests' = [Q EXCEPT ![r] = x]
  PROVE  Records(Q, r) /\ requests'[r] = x
<1>1. /\ requests' \in Seq(RequestType) /\ Len(requests') = Len(Q)
      /\ \A q \in 1..Len(Q) : requests'[q] = IF q = r THEN x ELSE Q[q]
  BY ExceptSeq
<1>. QED  BY <1>1 DEF Records

LEMMA FinishFacts ==
  ASSUME NEW Q \in Seq(RequestType), NEW r \in 1..Len(Q),
         NEW status \in {"Ready", "Error"}, NEW object \in {"object", "null"},
         Len(incubators) \in Nat,
         Becomes(finishCreation(ManagerOf(Q), r, status, object))
  PROVE  /\ Records(Q, r) /\ waiting' = waiting
         /\ \/ /\ requests'[r].answer # "none" /\ requests'[r].index = Q[r].index
               /\ incubators' = incubators /\ incubating' = incubating /\ calling' = <<r>> \o calling
            \/ /\ requests'[r].index = Len(incubators) /\ incubators' = Append(incubators, r)
               /\ incubating' = incubating \cup {r} /\ calling' = calling
            \/ /\ requests'[r].index = Len(incubators) /\ incubators' = Append(incubators, r)
               /\ requests'[r].answer # "none"
               /\ incubating' = incubating /\ calling' = <<r>> \o calling
<1> DEFINE m == ManagerOf(Q)
<1>1. Q[r] \in RequestType /\ r \in DOMAIN Q
  OBVIOUS
<1>2. CASE status = "Error"
  <2> DEFINE x == [Q[r] EXCEPT !.answer = "null"]
  <2>1. finishCreation(m, r, status, object) = Answer(m, r, "null")
    BY <1>2 DEF finishCreation
  <2>2. /\ requests' = [Q EXCEPT ![r] = x] /\ waiting' = waiting
        /\ incubators' = incubators /\ incubating' = incubating /\ calling' = <<r>> \o calling
    BY <1>1, <2>1 DEF Answer, Becomes, ManagerOf
  <2>3. /\ x \in RequestType /\ x.component = Q[r].component /\ x.index = Q[r].index
        /\ x.answer = "null"
    BY <1>1 DEF RequestType
  <2>. HIDE DEF x
  <2>4. Records(Q, r) /\ requests'[r] = x
    BY <2>2, <2>3, EntryFacts
  <2>. QED  BY <2>2, <2>3, <2>4
<1>3. CASE status = "Ready" /\ controller
  <2> DEFINE x == [Q[r] EXCEPT !.index = Len(incubators)]
  <2>1. finishCreation(m, r, status, object)
          = [[m EXCEPT !.requests[r].index = Len(m.incubators), !.incubators = Append(@, r)]
                EXCEPT !.incubating = @ \cup {r}]
    BY <1>3 DEF finishCreation
  <2>2. /\ requests' = [Q EXCEPT ![r] = x] /\ waiting' = waiting
        /\ incubators' = Append(incubators, r)
        /\ incubating' = incubating \cup {r} /\ calling' = calling
    BY <1>1, <2>1 DEF Becomes, ManagerOf
  <2>3. x \in RequestType /\ x.component = Q[r].component /\ x.index = Len(incubators)
    BY <1>1 DEF RequestType
  <2>. HIDE DEF x
  <2>4. Records(Q, r) /\ requests'[r] = x
    BY <2>2, <2>3, EntryFacts
  <2>. QED  BY <2>2, <2>3, <2>4
<1>4. CASE status = "Ready" /\ ~controller
  <2> DEFINE y == [Q[r] EXCEPT !.index = Len(incubators)]
             x == [y EXCEPT !.answer = object]
  <2>1. finishCreation(m, r, status, object)
          = Answer([m EXCEPT !.requests[r].index = Len(m.incubators), !.incubators = Append(@, r)],
                   r, object)
    BY <1>4 DEF finishCreation
  <2>2. /\ requests' = [[Q EXCEPT ![r] = y] EXCEPT ![r].answer = object] /\ waiting' = waiting
        /\ incubators' = Append(incubators, r)
        /\ incubating' = incubating /\ calling' = <<r>> \o calling
    BY <1>1, <2>1 DEF Answer, Becomes, ManagerOf
  <2>3. /\ x \in RequestType /\ x.component = Q[r].component /\ x.index = Len(incubators)
        /\ x.answer = object
    BY <1>1 DEF RequestType
  <2>4. [[Q EXCEPT ![r] = y] EXCEPT ![r].answer = object] = [Q EXCEPT ![r] = x]
    BY <1>1
  <2>5. requests' = [Q EXCEPT ![r] = x]
    BY <2>2, <2>4
  <2>. HIDE DEF x, y
  <2>6. Records(Q, r) /\ requests'[r] = x
    BY <2>3, <2>5, EntryFacts
  <2>. QED  BY <2>2, <2>3, <2>6
<1>. QED  BY <1>2, <1>3, <1>4

\* `Q` holds the requests made, and `r` is one of them or a new one; `r` has nothing yet.
Grows(Q, r) ==
    /\ Q \in Seq(RequestType) /\ r \in 1..Len(Q) /\ Len(requests) <= Len(Q)
    /\ \A q \in 1..Len(Q) : q = r \/ q \in Made
    /\ \A q \in Made : Q[q] = requests[q]
    /\ Q[r].index = NoIndex /\ \A a \in 1..Len(calling) : calling[a] # r

LEMMA CreationKeeps ==
  ASSUME TypeOK, Vector, InUse, NEW Q, NEW r, Grows(Q, r),
         NEW status \in {"Ready", "Error"}, NEW object \in {"object", "null"},
         Becomes(finishCreation(ManagerOf(Q), r, status, object)),
         Nests \/ calling = <<>>
  PROVE  /\ Vector' /\ InUse' /\ (~nested' /\ Tidy => Tidy')
         /\ Made \subseteq Made' /\ Made' = 1..Len(Q) /\ requests' \in Seq(RequestType)
         /\ incubators' \in Seq(Made') /\ calling' \in Seq(Made') /\ incubating' \subseteq Made'
         /\ incubating \subseteq incubating' /\ waiting' = waiting
         /\ requests'[r].answer # "none" \/ r \in incubating'
         /\ \A q \in Made : q # r => requests'[q] = requests[q]
<1> DEFINE n == Len(incubators)
<1>1. /\ Q \in Seq(RequestType) /\ r \in 1..Len(Q) /\ Len(requests) <= Len(Q)
      /\ \A q \in Made : Q[q] = requests[q]
      /\ Q[r].index = NoIndex /\ \A a \in 1..Len(calling) : calling[a] # r
  BY DEF Grows
<1>2. /\ n \in Nat /\ Len(requests) \in Nat /\ Len(Q) \in Nat /\ r \in Nat
      /\ incubators \in Seq(Made) /\ calling \in Seq(Made) /\ incubating \subseteq Made
  BY <1>1 DEF TypeOK
<1>3. /\ Records(Q, r) /\ waiting' = waiting
      /\ \/ /\ requests'[r].answer # "none" /\ requests'[r].index = Q[r].index
            /\ incubators' = incubators /\ incubating' = incubating /\ calling' = <<r>> \o calling
         \/ /\ requests'[r].index = n /\ incubators' = Append(incubators, r)
            /\ incubating' = incubating \cup {r} /\ calling' = calling
         \/ /\ requests'[r].index = n /\ incubators' = Append(incubators, r)
            /\ requests'[r].answer # "none"
            /\ incubating' = incubating /\ calling' = <<r>> \o calling
  BY <1>1, <1>2, FinishFacts
<1>4. /\ Made' = 1..Len(Q) /\ Made \subseteq Made' /\ r \in Made'
      /\ requests' \in Seq(RequestType)
      /\ \A q \in Made : q # r => requests'[q] = requests[q]
  <2>1. requests' \in Seq(RequestType) /\ Made' = 1..Len(Q)
    BY <1>3 DEF Records, Made
  <2>2. \A q \in Made : q \in 1..Len(Q)
    BY <1>1, <1>2 DEF Made
  <2>3. \A q \in 1..Len(Q) : q # r => requests'[q] = Q[q]
    BY <1>3 DEF Records
  <2>. QED  BY <1>1, <2>1, <2>2, <2>3
<1>5. incubators \in Seq(Made') /\ calling \in Seq(Made') /\ incubating \subseteq Made'
  <2>1. ASSUME NEW S, NEW T, S \subseteq T, NEW s \in Seq(S)  PROVE s \in Seq(T)
    BY <2>1
  <2>. QED  BY <1>2, <1>4, <2>1
<1>6. Append(incubators, r) \in Seq(Made')
  BY <1>4, <1>5
<1>7. <<r>> \o calling \in Seq(Made')
  BY <1>4, <1>5, PushFacts
<1>8. r \in Made => requests[r].index = NoIndex
  BY <1>1
<1>9. r \notin incubating
  <2>1. NoIndex \notin Nat
    BY DEF NoIndex
  <2>. QED  BY <1>2, <1>8, <2>1 DEF InUse, Vector
<1>10. CASE requests'[r].index = Q[r].index /\ requests'[r].answer # "none"
            /\ incubators' = incubators /\ incubating' = incubating /\ calling' = <<r>> \o calling
  <2>1. AnswersAtOnce(r)
    BY <1>1, <1>4, <1>8, <1>10 DEF AnswersAtOnce, SameIndices
  <2>. QED  BY <1>2, <1>3, <1>4, <1>5, <1>7, <1>10, <2>1, AnswersAtOnceKeeps
<1>11. CASE /\ requests'[r].index = n /\ incubators' = Append(incubators, r)
            /\ incubating' = incubating \cup {r} /\ calling' = calling
  <2>1. nested' \/ \A a \in 1..Len(calling) : requests[calling[a]].index = NoIndex
    <3>1. CASE Nests
      <4>1. r \in incubating' \ incubating
        BY <1>9, <1>11
      <4>. QED  BY <3>1, <4>1 DEF Nests, InIncubatorsCallback
    <3>2. CASE calling = <<>>
      <4>1. 1..Len(calling) = {}
        BY <3>2
      <4>. QED  BY <4>1
    <3>. QED  BY <3>1, <3>2
  <2>2. MakesIncubator(r)
    BY <1>1, <1>4, <1>8, <1>11, <2>1 DEF MakesIncubator
  <2>. QED  BY <1>2, <1>3, <1>4, <1>5, <1>6, <1>11, <2>2, MakesIncubatorKeeps
<1>12. CASE /\ requests'[r].index = n /\ incubators' = Append(incubators, r)
            /\ requests'[r].answer # "none"
            /\ incubating' = incubating /\ calling' = <<r>> \o calling
  <2>1. MakesIncubator(r)
    BY <1>1, <1>4, <1>8, <1>12 DEF MakesIncubator
  <2>. QED  BY <1>2, <1>3, <1>4, <1>5, <1>6, <1>7, <1>12, <2>1, MakesIncubatorKeeps
<1>. QED  BY <1>3, <1>10, <1>11, <1>12

(***************************************************************************)
(* Each action keeps the invariant.                                        *)
(***************************************************************************)
LEMMA InitEstablishes == Init => CInv
<1> SUFFICES ASSUME Init  PROVE CInv
  OBVIOUS
<1>1. /\ requests = <<>> /\ incubators = <<>> /\ calling = <<>>
      /\ Len(requests) = 0 /\ Len(incubators) = 0 /\ Len(calling) = 0
      /\ 1..0 = {} /\ waiting = {} /\ due = {} /\ incubating = {}
  BY DEF Init
<1>2. TypeOK
  <2>1. \A S : <<>> \in Seq(S)
    OBVIOUS
  <2>2. components \in [Files \cup Sources -> {"Absent", "Loading", "Ready", "Error"}]
    BY DEF Init
  <2>. QED  BY <1>1, <2>1, <2>2 DEF Init, TypeOK
<1>3. Vector /\ InUse /\ Tidy
  BY <1>1 DEF Vector, InUse, Tidy
<1>4. Waits /\ NothingLost
  BY <1>1 DEF Waits, NothingLost, Made
<1>. QED  BY <1>2, <1>3, <1>4 DEF CInv

\* A step that touches no request and no Incubator.
LEMMA LeavesAloneKeeps ==
  ASSUME CInv, UNCHANGED <<components, requests, waiting, due, incubators, incubating, calling, nested>>,
         engine' \in BOOLEAN, controller' \in BOOLEAN
  PROVE  CInv'
<1>1. TypeOK'
  BY DEF CInv, TypeOK, Made
<1>2. Vector' /\ InUse' /\ Waits'
  BY DEF CInv, Vector, InUse, Waits
<1>3. ~nested' => Tidy' /\ NothingLost'
  BY DEF CInv, Tidy, NothingLost, Made
<1>. QED  BY <1>1, <1>2, <1>3 DEF CInv

LEMMA ComponentLoadedKeeps ==
  ASSUME CInv, NEW f \in Files, ComponentLoaded(f)
  PROVE  CInv'
<1>1. PICK status \in {"Ready", "Error"} : components' = [components EXCEPT ![f] = status]
  BY DEF ComponentLoaded
<1>2. /\ due = {} /\ due' = {r \in waiting : requests[r].component = f}
      /\ waiting' = waiting \ due'
      /\ UNCHANGED <<engine, controller, requests, incubators, incubating, calling, nested>>
  BY DEF ComponentLoaded, Idle
<1>3. components'[f] = status
  BY <1>1 DEF CInv, TypeOK
<1>4. TypeOK'
  BY <1>1, <1>2 DEF CInv, TypeOK, Made
<1>5. LeavesIncubators
  BY <1>2 DEF LeavesIncubators, SameIndices
<1>6. Vector' /\ InUse' /\ (Tidy => Tidy')
  BY <1>5, LeavesIncubatorsKeeps DEF CInv
<1>7. Waits'
  <2>1. waiting' \cup due' = waiting \cup due /\ waiting' \cap due' = {}
    BY <1>2
  <2>2. \A r \in due' : components'[requests'[r].component] \in {"Ready", "Error"}
    BY <1>1, <1>2, <1>3
  <2>. QED  BY <1>2, <2>1, <2>2 DEF CInv, Waits
<1>8. NothingLost => NothingLost'
  BY <1>2 DEF NothingLost, Made
<1>. QED  BY <1>2, <1>4, <1>6, <1>7, <1>8 DEF CInv

LEMMA CallSlotKeeps ==
  ASSUME CInv, CallSlot
  PROVE  CInv'
<1>1. PICK r \in due, object \in {"object", "null"} :
         /\ due' = due \ {r}
         /\ Becomes(finishCreation(Manager, r, components[requests[r].component], object))
  BY DEF CallSlot
<1> DEFINE status == components[requests[r].component]
<1>2. /\ TypeOK /\ Vector /\ InUse /\ Waits
      /\ calling = <<>> /\ nested' = nested
      /\ UNCHANGED <<engine, controller, components>>
  BY DEF CInv, CallSlot
<1>3. Manager = ManagerOf(requests)
  BY DEF Manager, ManagerOf
<1>4. status \in {"Ready", "Error"} /\ requests[r].index = NoIndex /\ r \notin waiting
  BY <1>2 DEF Waits
<1>5. Grows(requests, r)
  <2>1. /\ requests \in Seq(RequestType) /\ r \in 1..Len(requests) /\ Len(requests) \in Nat
        /\ Len(calling) = 0
    BY <1>2 DEF TypeOK, RequestType, Made
  <2>2. 1..Len(calling) = {}
    BY <2>1
  <2>. QED  BY <1>4, <2>1, <2>2 DEF Grows, Made
<1>6. Becomes(finishCreation(ManagerOf(requests), r, status, object))
  BY <1>1, <1>3
<1>. HIDE DEF status
<1>7. /\ Vector' /\ InUse' /\ (~nested' /\ Tidy => Tidy')
      /\ Made \subseteq Made' /\ Made' = Made /\ requests' \in Seq(RequestType)
      /\ incubators' \in Seq(Made') /\ calling' \in Seq(Made') /\ incubating' \subseteq Made'
      /\ incubating \subseteq incubating' /\ waiting' = waiting
      /\ requests'[r].answer # "none" \/ r \in incubating'
      /\ \A q \in Made : q # r => requests'[q] = requests[q]
  BY <1>2, <1>4, <1>5, <1>6, CreationKeeps DEF Made
<1>8. TypeOK'
  BY <1>1, <1>2, <1>7 DEF TypeOK, RequestType
<1>9. Waits'
  <2>1. ASSUME NEW q \in waiting' \cup due'
        PROVE  q \in waiting \cup due /\ requests'[q] = requests[q]
    <3>1. q \in waiting \cup due /\ q # r
      BY <1>1, <1>4, <1>7
    <3>. QED  BY <1>2, <1>7, <3>1 DEF TypeOK
  <2>. QED  BY <1>1, <1>2, <1>7, <2>1 DEF Waits
<1>10. NothingLost => NothingLost'
  <2>1. ASSUME NothingLost, NEW q \in Made', requests'[q].answer = "none"
        PROVE  q \in waiting' \cup due' \cup incubating'
    <3>1. CASE q = r
      BY <1>7, <2>1, <3>1
    <3>2. CASE q # r
      BY <1>1, <1>7, <2>1, <3>2 DEF NothingLost
    <3>. QED  BY <3>1, <3>2
  <2>. QED  BY <2>1 DEF NothingLost
<1>. QED  BY <1>2, <1>7, <1>8, <1>9, <1>10 DEF CInv

LEMMA FoundFacts ==
  ASSUME TypeOK, NEW c \in Files \cup Sources, NEW status \in Found(c)
  PROVE  /\ status \in {"Loading", "Ready", "Error"}
         /\ components[c] # "Absent" => status = components[c]
<1>1. components[c] \in {"Absent", "Loading", "Ready", "Error"}
  BY DEF TypeOK
<1>2. CASE components[c] # "Absent"
  BY <1>1, <1>2 DEF Found
<1>3. CASE components[c] = "Absent"
  BY <1>3 DEF Found
<1>. QED  BY <1>2, <1>3

LEMMA CreateObjectKeeps ==
  ASSUME CInv, NEW c \in Files \cup Sources \cup {NullComponent}, CreateObject(c)
  PROVE  CInv'
<1> DEFINE Q == Request(c)
           r == Len(requests) + 1
           m == [Manager EXCEPT !.requests = Request(c)]
<1>1. /\ TypeOK /\ Vector /\ InUse /\ Waits /\ Nests
      /\ UNCHANGED <<engine, controller, due>>
  BY DEF CInv, CreateObject
<1>2. m = ManagerOf(Q)
  BY DEF Manager, ManagerOf
<1>3. /\ Q \in Seq(RequestType) /\ Len(Q) = r /\ Len(requests) \in Nat /\ r \notin Made
      /\ Q[r].index = NoIndex /\ Q[r].component = c
      /\ \A q \in Made : Q[q] = requests[q]
  <2> DEFINE x == [component |-> c, answer |-> "none", index |-> NoIndex]
  <2>1. x \in RequestType /\ requests \in Seq(RequestType)
    BY <1>1 DEF RequestType, TypeOK
  <2>2. x.index = NoIndex /\ x.component = c /\ Q = Append(requests, x)
    BY DEF Request
  <2>. HIDE DEF x
  <2>. QED  BY <2>1, <2>2 DEF Made
<1>4. Grows(Q, r)
  <2>1. \A a \in 1..Len(calling) : calling[a] # r
    BY <1>1, <1>3 DEF TypeOK
  <2>2. \A q \in 1..Len(Q) : q = r \/ q \in Made
    BY <1>3 DEF Made
  <2>3. r \in 1..Len(Q) /\ Len(requests) <= Len(Q)
    BY <1>3
  <2>. QED  BY <1>3, <2>1, <2>2, <2>3 DEF Grows
<1>5. r \notin waiting \cup due
  BY <1>1, <1>3 DEF TypeOK
<1>6. nested' \in BOOLEAN /\ (~nested' => ~nested)
  <2>1. nested \in BOOLEAN
    BY <1>1 DEF TypeOK
  <2>2. nested' = (nested \/ (InIncubatorsCallback /\ incubating' \ incubating # {}))
    BY <1>1 DEF Nests
  <2>. QED  BY <2>1, <2>2
<1>7. \/ /\ ~engine \/ c = NullComponent
         /\ Becomes(Answer(m, r, "null")) /\ components' = components
      \/ /\ c # NullComponent
         /\ \E status \in Found(c), object \in {"object", "null"} :
               /\ components' = [components EXCEPT ![c] = status]
               /\ Becomes(beginCreation(m, r, status, object))
  BY DEF CreateObject
<1>. HIDE DEF Q, r, m
<1>8. ASSUME NEW status \in {"Ready", "Error"}, NEW object \in {"object", "null"},
             Becomes(finishCreation(ManagerOf(Q), r, status, object)),
             components' \in [Files \cup Sources -> {"Absent", "Loading", "Ready", "Error"}],
             \A q \in due : components'[requests[q].component] \in {"Ready", "Error"}
      PROVE  CInv'
  <2>1. /\ Vector' /\ InUse' /\ (~nested' /\ Tidy => Tidy')
        /\ Made \subseteq Made' /\ Made' = 1..Len(Q) /\ requests' \in Seq(RequestType)
        /\ incubators' \in Seq(Made') /\ calling' \in Seq(Made') /\ incubating' \subseteq Made'
        /\ incubating \subseteq incubating' /\ waiting' = waiting
        /\ requests'[r].answer # "none" \/ r \in incubating'
        /\ \A q \in Made : q # r => requests'[q] = requests[q]
    BY <1>1, <1>4, <1>8, CreationKeeps
  <2>2. TypeOK'
    BY <1>1, <1>6, <1>8, <2>1 DEF TypeOK, RequestType
  <2>3. Waits'
    <3>1. ASSUME NEW q \in waiting' \cup due'
          PROVE  q \in waiting \cup due /\ requests'[q] = requests[q]
      <4>1. q \in waiting \cup due /\ q # r
        BY <1>1, <1>5, <2>1
      <4>. QED  BY <1>1, <2>1, <4>1 DEF TypeOK
    <3>. QED  BY <1>1, <1>8, <2>1, <3>1 DEF Waits
  <2>4. NothingLost => NothingLost'
    <3>1. ASSUME NothingLost, NEW q \in Made', requests'[q].answer = "none"
          PROVE  q \in waiting' \cup due' \cup incubating'
      <4>1. CASE q = r
        BY <2>1, <3>1, <4>1
      <4>2. CASE q # r
        <5>1. q \in Made
          BY <1>4, <2>1, <4>2 DEF Grows
        <5>. QED  BY <1>1, <2>1, <3>1, <4>2, <5>1 DEF NothingLost
      <4>. QED  BY <4>1, <4>2
    <3>. QED  BY <3>1 DEF NothingLost
  <2>. QED  BY <1>6, <2>1, <2>2, <2>3, <2>4 DEF CInv
<1>9. ASSUME ~engine \/ c = NullComponent,
             Becomes(Answer(m, r, "null")), components' = components
      PROVE  CInv'
  <2>1. Becomes(finishCreation(ManagerOf(Q), r, "Error", "null"))
    BY <1>2, <1>9 DEF finishCreation
  <2>. QED  BY <1>1, <1>8, <1>9, <2>1 DEF TypeOK, Waits
<1>10. ASSUME c # NullComponent, NEW status \in Found(c), NEW object \in {"object", "null"},
              components' = [components EXCEPT ![c] = status],
              Becomes(beginCreation(m, r, status, object))
       PROVE  CInv'
  <2>1. c \in Files \cup Sources
    BY <1>10
  <2>2. /\ status \in {"Loading", "Ready", "Error"}
        /\ components[c] # "Absent" => status = components[c]
    BY <1>1, <2>1, FoundFacts
  <2>3. components' \in [Files \cup Sources -> {"Absent", "Loading", "Ready", "Error"}]
    BY <1>1, <1>10, <2>2 DEF TypeOK
  <2>4. ASSUME NEW d \in Files \cup Sources, components[d] # "Absent"
        PROVE  components'[d] = components[d]
    BY <1>1, <1>10, <2>2, <2>4 DEF TypeOK
  <2>5. ASSUME NEW q \in due  PROVE components'[requests[q].component] \in {"Ready", "Error"}
    <3>1. /\ components[requests[q].component] \in {"Ready", "Error"}
          /\ requests[q].component # NullComponent
      BY <1>1 DEF Waits
    <3>2. requests[q].component \in Files \cup Sources
      <4>1. q \in 1..Len(requests) /\ requests \in Seq(RequestType)
        BY <1>1 DEF TypeOK, RequestType, Made
      <4>2. requests[q] \in RequestType
        BY <4>1
      <4>. QED  BY <3>1, <4>2 DEF RequestType
    <3>. QED  BY <2>4, <3>1, <3>2
  <2>6. CASE status = "Loading"
    <3>1. beginCreation(m, r, status, object) = [ManagerOf(Q) EXCEPT !.waiting = @ \cup {r}]
      BY <1>2, <2>6 DEF beginCreation
    <3>2. /\ requests' = Q /\ waiting' = waiting \cup {r} /\ incubators' = incubators
          /\ incubating' = incubating /\ calling' = calling
      BY <1>10, <3>1 DEF Becomes, ManagerOf
    <3>3. Made \subseteq Made' /\ r \in Made'
      BY <1>3, <3>2 DEF Made, r
    <3>4. LeavesIncubators
      BY <1>3, <3>2 DEF LeavesIncubators, SameIndices
    <3>5. Vector' /\ InUse' /\ (Tidy => Tidy')
      BY <1>1, <3>4, LeavesIncubatorsKeeps
    <3>6. TypeOK'
      <4>1. ASSUME NEW s \in Seq(Made)  PROVE s \in Seq(Made')
        BY <3>3
      <4>2. incubators' \in Seq(Made') /\ calling' \in Seq(Made')
        BY <1>1, <3>2, <4>1 DEF TypeOK
      <4>3. waiting' \subseteq Made' /\ due' \subseteq Made' /\ incubating' \subseteq Made'
        BY <1>1, <3>2, <3>3 DEF TypeOK
      <4>4. requests' \in Seq(RequestType)
        BY <1>3, <3>2
      <4>. QED  BY <1>1, <1>6, <2>3, <4>2, <4>3, <4>4 DEF TypeOK, RequestType
    <3>7. Waits'
      <4>1. waiting' \cap due' = {}
        BY <1>1, <1>5, <3>2 DEF Waits
      <4>2. \A q \in waiting \cup due : requests'[q] = requests[q]
        BY <1>1, <1>3, <3>2 DEF TypeOK
      <4>3. requests'[r].index = NoIndex /\ requests'[r].component # NullComponent
        BY <1>3, <1>10, <3>2
      <4>. QED  BY <1>1, <2>5, <3>2, <4>1, <4>2, <4>3 DEF Waits
    <3>8. NothingLost => NothingLost'
      <4>1. \A q \in Made' : q = r \/ q \in Made
        BY <1>4, <3>2 DEF Grows, Made
      <4>. QED  BY <1>1, <1>3, <3>2, <4>1 DEF NothingLost
    <3>. QED  BY <1>6, <3>5, <3>6, <3>7, <3>8 DEF CInv
  <2>7. CASE status \in {"Ready", "Error"}
    <3>1. beginCreation(m, r, status, object) = finishCreation(ManagerOf(Q), r, status, object)
      BY <1>2, <2>7 DEF beginCreation
    <3>. QED  BY <1>8, <1>10, <2>3, <2>5, <2>7, <3>1
  <2>. QED  BY <2>2, <2>6, <2>7
<1>. QED  BY <1>7, <1>9, <1>10

LEMMA statusChangedKeeps ==
  ASSUME CInv, NEW object \in {"object", "null"}, statusChanged(object)
  PROVE  CInv'
<1>1. PICK k \in 1..Len(incubators) :
         NextIncubated(k) /\ Becomes(Answer(Incubated(incubators[k]), incubators[k], object))
  BY DEF statusChanged
<1> DEFINE r == incubators[k]
<1>2. /\ TypeOK /\ Vector /\ InUse /\ Waits /\ calling = <<>> /\ due = {}
      /\ UNCHANGED <<engine, controller, components, due, nested>>
  BY DEF CInv, statusChanged, Idle
<1>3. r \in Made /\ requests \in Seq(RequestType) /\ incubating \subseteq Made
  BY <1>2 DEF TypeOK, RequestType
<1>4. /\ requests' = [requests EXCEPT ![r].answer = object] /\ waiting' = waiting
      /\ incubators' = incubators /\ incubating' = incubating \ {r} /\ calling' = <<r>> \o calling
  BY <1>1 DEF Becomes, Answer, Incubated, Manager
<1> DEFINE x == [requests[r] EXCEPT !.answer = object]
<1>5. /\ x \in RequestType /\ x.component = requests[r].component
      /\ x.index = requests[r].index /\ x.answer = object
  <2>1. requests[r] \in RequestType
    BY <1>3 DEF Made
  <2>. QED  BY <2>1 DEF RequestType
<1>6. requests' = [requests EXCEPT ![r] = x]
  BY <1>3, <1>4
<1>. HIDE DEF x
<1>7. Records(requests, r) /\ requests'[r] = x
  BY <1>3, <1>5, <1>6, EntryFacts DEF Made
<1>8. /\ Made' = Made /\ requests' \in Seq(RequestType)
      /\ \A q \in Made : q # r => requests'[q] = requests[q]
  BY <1>7 DEF Records, Made
<1>9. Finishes(k)
  BY <1>2, <1>4, <1>5, <1>7, <1>8 DEF Finishes, SameIndices
<1>10. Vector' /\ InUse' /\ (Tidy => Tidy')
  BY <1>1, <1>2, <1>9, FinishesKeeps
<1>11. TypeOK'
  <2>1. calling' \in Seq(Made)
    <3>1. calling \in Seq(Made)
      BY <1>2 DEF TypeOK
    <3>. QED  BY <1>3, <1>4, <3>1, PushFacts
  <2>. QED  BY <1>2, <1>4, <1>8, <2>1 DEF TypeOK, RequestType
<1>12. Waits'
  <2>1. \A q \in waiting : requests'[q].index = requests[q].index
                           /\ requests'[q].component = requests[q].component
    BY <1>2, <1>5, <1>7, <1>8 DEF TypeOK
  <2>. QED  BY <1>2, <1>4, <2>1 DEF Waits
<1>13. NothingLost => NothingLost'
  <2>1. requests'[r].answer # "none"
    BY <1>5, <1>7
  <2>. QED  BY <1>2, <1>4, <1>8, <2>1 DEF NothingLost
<1>. QED  BY <1>2, <1>10, <1>11, <1>12, <1>13 DEF CInv

LEMMA CallbackReturnsKeeps ==
  ASSUME CInv, CallbackReturns
  PROVE  CInv'
<1> DEFINE m == [Manager EXCEPT !.calling = Tail(@)]
<1>1. /\ TypeOK /\ Vector /\ InUse /\ Waits /\ calling # <<>>
      /\ UNCHANGED <<engine, controller, components, due, nested>>
      /\ Becomes(Erase(m, Head(calling)))
  BY DEF CInv, CallbackReturns
<1>2. Head(calling) = calling[1]
  BY <1>1 DEF TypeOK
<1>3. m = [requests |-> requests, waiting |-> waiting, incubators |-> incubators,
           incubating |-> incubating, calling |-> Tail(calling)]
  <2>1. ASSUME NEW t
        PROVE  [Manager EXCEPT !.calling = t]
                  = [requests |-> requests, waiting |-> waiting, incubators |-> incubators,
                     incubating |-> incubating, calling |-> t]
    BY DEF Manager
  <2>2. m = [Manager EXCEPT !.calling = Tail(calling)]
    BY DEF Manager
  <2>. QED  BY <2>1, <2>2
<1>. HIDE DEF m
<1>4. Returns /\ waiting' = waiting
  <2>1. CASE requests[calling[1]].index = NoIndex
    <3>1. Erase(m, calling[1]) = m
      BY <1>3, <2>1 DEF Erase
    <3>2. Becomes(m)
      BY <1>1, <1>2, <3>1
    <3>3. /\ incubators' = incubators /\ incubating' = incubating
          /\ requests' = requests /\ waiting' = waiting /\ calling' = Tail(calling)
      BY <1>3, <3>2 DEF Becomes
    <3>. QED  BY <1>1, <2>1, <3>3 DEF Returns
  <2>2. CASE requests[calling[1]].index # NoIndex
    <3> DEFINE place == Place(calling[1])
    <3>1. Erase(m, calling[1]) = [m EXCEPT !.incubators = RemoveAt(@, place),
                                           !.incubating = @ \ {m.incubators[place]}]
      BY <1>3, <2>2 DEF Erase, Place
    <3>. HIDE DEF place
    <3>2. /\ incubators' = RemoveAt(incubators, place)
          /\ incubating' = incubating \ {incubators[place]}
          /\ requests' = requests /\ waiting' = waiting /\ calling' = Tail(calling)
      BY <1>1, <1>2, <1>3, <3>1 DEF Becomes
    <3>. QED  BY <1>1, <2>2, <3>2 DEF Returns, Erases, place
  <2>. QED  BY <2>1, <2>2
<1>5. /\ Vector' /\ InUse' /\ (Tidy => Tidy' /\ incubating' = incubating)
      /\ incubators' \in Seq(Made) /\ incubating' \subseteq incubating
  BY <1>1, <1>4, ReturnsKeeps
<1>6. requests' = requests /\ Made' = Made /\ calling' \in Seq(Made)
  BY <1>1, <1>4, TailFacts DEF Returns, Made
<1>7. TypeOK'
  BY <1>1, <1>4, <1>5, <1>6 DEF TypeOK
<1>8. Waits'
  BY <1>1, <1>4, <1>6 DEF Waits
<1>9. Tidy /\ NothingLost => NothingLost'
  BY <1>1, <1>4, <1>5, <1>6 DEF NothingLost
<1>. QED  BY <1>1, <1>5, <1>7, <1>8, <1>9 DEF CInv

LEMMA NextKeeps == CInv /\ [Next]_vars => CInv'
<1> SUFFICES ASSUME CInv, [Next]_vars  PROVE CInv'
  OBVIOUS
<1>1. ASSUME NEW c \in Files \cup Sources \cup {NullComponent}, CreateObject(c)  PROVE CInv'
  BY <1>1, CreateObjectKeeps
<1>2. ASSUME NEW f \in Files, ComponentLoaded(f)  PROVE CInv'
  BY <1>2, ComponentLoadedKeeps
<1>3. CASE CallSlot
  BY <1>3, CallSlotKeeps
<1>4. ASSUME NEW object \in {"object", "null"}, statusChanged(object)  PROVE CInv'
  BY <1>4, statusChangedKeeps
<1>5. CASE CallbackReturns
  BY <1>5, CallbackReturnsKeeps
<1>6. CASE WindowShown
  <2>1. /\ UNCHANGED <<components, requests, waiting, due, incubators, incubating, calling, nested>>
        /\ engine' \in BOOLEAN /\ controller' \in BOOLEAN
    BY <1>6 DEF WindowShown, CInv, TypeOK
  <2>. QED  BY <2>1, LeavesAloneKeeps
<1>7. CASE EngineDestroyed
  <2>1. /\ UNCHANGED <<components, requests, waiting, due, incubators, incubating, calling, nested>>
        /\ engine' \in BOOLEAN /\ controller' \in BOOLEAN
    BY <1>7 DEF EngineDestroyed, CInv, TypeOK
  <2>. QED  BY <2>1, LeavesAloneKeeps
<1>8. CASE UNCHANGED vars
  <2>1. /\ UNCHANGED <<components, requests, waiting, due, incubators, incubating, calling, nested>>
        /\ engine' \in BOOLEAN /\ controller' \in BOOLEAN
    BY <1>8 DEF vars, CInv, TypeOK
  <2>. QED  BY <2>1, LeavesAloneKeeps
<1>. QED  BY <1>1, <1>2, <1>3, <1>4, <1>5, <1>6, <1>7, <1>8 DEF Next

(***************************************************************************)
(* The theorems.                                                           *)
(***************************************************************************)

\* The invariant holds in every state, whatever callbacks ask for and in whatever order Qt
\* incubates, loads and calls.
THEOREM Invariance == Spec => []CInv
<1>. QED  BY InitEstablishes, NextKeeps, PTL DEF Spec

\* Every variable keeps its type, whatever is asked for; no component that is asked for is null.
THEOREM TypeCorrect == Spec => []TypeOK
<1>1. CInv => TypeOK
  BY DEF CInv
<1>. QED  BY <1>1, Invariance, PTL

\* The erasures by index never destroy the Incubator whose callback runs, nor one Qt works on:
\* also when a nested incubation has made the indices stale.
THEOREM InUseExist == Spec => []IncubatorsInUseExist
<1>1. ASSUME CInv  PROVE IncubatorsInUseExist
  <2>1. ASSUME NEW r \in incubating  PROVE r \in Elements(incubators)
    BY <1>1 DEF CInv, InUse, Elements
  <2>2. ASSUME NEW r \in Elements(calling), requests[r].index # NoIndex
        PROVE  r \in Elements(incubators)
    <3>1. PICK a \in 1..Len(calling) : calling[a] = r
      BY DEF Elements
    <3>. QED  BY <1>1, <2>2, <3>1 DEF CInv, InUse, Elements
  <2>. QED  BY <2>1, <2>2 DEF IncubatorsInUseExist
<1>2. CInv => IncubatorsInUseExist
  BY <1>1
<1>. QED  BY <1>2, Invariance, PTL

\* Until a callback of an incubation begins another: an unanswered request waits or incubates,
\* and the vector holds exactly the Incubators that are incubating or whose callbacks run.
THEOREM NothingLostOrLeaked == Spec => []NothingIsLostOrLeaked
<1>1. ASSUME CInv, ~nested
      PROVE  /\ \A r \in Made : requests[r].answer = "none" => r \in waiting \cup due \cup incubating
             /\ Elements(incubators) =
                   incubating \cup {r \in Elements(calling) : requests[r].index # NoIndex}
  <2>1. Tidy /\ NothingLost /\ InUse /\ Vector
    BY <1>1 DEF CInv
  <2>2. ASSUME NEW k \in 1..Len(incubators)
        PROVE  incubators[k] \in
                  incubating \cup {r \in Elements(calling) : requests[r].index # NoIndex}
    <3>1. requests[incubators[k]].index # NoIndex
      BY <2>1 DEF Vector, NoIndex
    <3>2. incubators[k] \in incubating \/ \E a \in 1..Len(calling) : calling[a] = incubators[k]
      BY <2>1 DEF Tidy
    <3>. QED  BY <3>1, <3>2 DEF Elements
  <2>3. ASSUME NEW r \in incubating  PROVE r \in Elements(incubators)
    BY <2>1 DEF InUse, Elements
  <2>4. ASSUME NEW r \in Elements(calling), requests[r].index # NoIndex
        PROVE  r \in Elements(incubators)
    <3>1. PICK a \in 1..Len(calling) : calling[a] = r
      BY DEF Elements
    <3>. QED  BY <2>1, <2>4, <3>1 DEF InUse, Elements
  <2>. QED  BY <2>1, <2>2, <2>3, <2>4 DEF NothingLost, Elements
<1>2. CInv => NothingIsLostOrLeaked
  BY <1>1 DEF NothingIsLostOrLeaked
<1>. QED  BY <1>2, Invariance, PTL
=============================================================================
