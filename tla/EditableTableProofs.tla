------------------------ MODULE EditableTableProofs ------------------------
(***************************************************************************)
(* What the handlers of EditableTable make of a table, for every table and *)
(* every ID: each of them keeps it consistent.                             *)
(***************************************************************************)
EXTENDS EditableTable, TLAPS, WellFoundedInduction, FiniteSetTheorems

(***************************************************************************)
(* What holds of a table at all times.  `after` is how far resetEdits has  *)
(* come: every ID up to it is done, and 0 stands for no reset under way.   *)
(* A pending row has a backup and the table is locked; backups are of rows *)
(* that were not pending; and, which is what makes the rest inductive, in  *)
(* a locked table no row still to be reset is at once backed up and a      *)
(* draft, so the backup that resetEdits drops by mistake behind a drafted  *)
(* addition is never the backup of a pending row.                          *)
(***************************************************************************)
Consistent(t, after) ==
    /\ t \in TableType
    /\ \A i \in Ids : t.rows[i].state \in PendingStates
                        => t.backups[i] # NoRow /\ t.pendingEdits
    /\ \A i \in Ids : t.backups[i].state \notin PendingStates
    /\ t.pendingEdits => \A i \in Ids : t.backups[i] # NoRow /\ i > after
                                          => t.rows[i].state \notin DraftStates
    /\ \A i \in Ids : i <= after => t.rows[i].state \notin PendingStates


LEMMA IdsPositive ==
  ASSUME ConstantsFit
  PROVE  /\ Ids \subseteq Nat \ {0}
         /\ BackendIds \subseteq Ids
         /\ 0 \notin Ids
         /\ IsFiniteSet(Ids)
  BY DEF ConstantsFit, Ids

LEMMA NoRowFacts == /\ NoRow.state = "none"
                    /\ NoRow.content = Blank
                    /\ NoRow \notin Row
                    /\ \A r \in Row \cup {NoRow} : r.state = "none" <=> r = NoRow
                    /\ "none" \notin PendingStates \cup DraftStates \cup LoadStates
  BY DEF NoRow, Row, LoadStates, DraftStates, PendingStates

(***************************************************************************)
(* Finite sets, and folds over them                                        *)
(***************************************************************************)

\* Induction over the subsets of a finite set, from each to the one with one element more.
LEMMA SubsetInduction ==
  ASSUME NEW S, IsFiniteSet(S), NEW W, {} \in W,
         \A s \in (SUBSET S) \ {{}} : \E x \in s : s \ {x} \in W => s \in W
  PROVE  S \in W
<1> DEFINE Missed == {n \in Nat : \E s \in SUBSET S : s \notin W /\ Cardinality(s) = n}
           less   == {p \in Nat \X Nat : p[1] < p[2]}
<1>1. SUFFICES ASSUME S \notin W  PROVE FALSE
  OBVIOUS
<1>2. Cardinality(S) \in Missed
  BY <1>1, FS_CardinalityType
<1>3. IsWellFoundedOn(less, Nat)
  BY NatLessThanWellFounded DEF OpToRel
<1>. HIDE DEF less
<1>4. PICK n \in Missed : \A m \in Missed : <<m, n>> \notin less
  <2>. HIDE DEF Missed
  <2>1. Missed \subseteq Nat
    BY DEF Missed
  <2>. QED  BY <1>2, <1>3, <2>1, WFMin
<1>5. PICK s \in SUBSET S : s \notin W /\ Cardinality(s) = n
  BY <1>4
<1>6. s # {}
  BY <1>5
<1>7. PICK x \in s : s \ {x} \in W => s \in W
  BY <1>6
<1>8. /\ IsFiniteSet(s) /\ IsFiniteSet(s \ {x})
      /\ Cardinality(s \ {x}) = Cardinality(s) - 1 /\ Cardinality(s \ {x}) \in Nat
  <2>1. IsFiniteSet(s)
    BY FS_Subset
  <2>2. IsFiniteSet(s \ {x}) /\ Cardinality(s \ {x}) = Cardinality(s) - 1
    BY <2>1, FS_RemoveElement
  <2>. QED  BY <2>1, <2>2, FS_CardinalityType
<1>9. n \in Nat /\ n - 1 \in Missed /\ n - 1 < n
  BY <1>4, <1>5, <1>7, <1>8
<1>10. <<n - 1, n>> \in less
  BY <1>9 DEF less
<1>. QED  BY <1>4, <1>9, <1>10

LEMMA GreatestOfFinite ==
  ASSUME NEW S \in SUBSET Nat, IsFiniteSet(S), S # {}
  PROVE  Max(S) \in S /\ \A y \in S : y <= Max(S)
<1> DEFINE Bounded == {s \in SUBSET S : s = {} \/ \E x \in s : \A y \in s : y <= x}
<1>1. {} \in Bounded
  OBVIOUS
<1>2. ASSUME NEW s \in (SUBSET S) \ {{}}
      PROVE  \E x \in s : s \ {x} \in Bounded => s \in Bounded
  <2>1. PICK x \in s : TRUE
    OBVIOUS
  <2>2. ASSUME s \ {x} \in Bounded  PROVE \E z \in s : \A y \in s : y <= z
    <3>1. CASE s \ {x} = {}
      <4>1. \A y \in s : y <= x
        BY <3>1
      <4>. QED  BY <4>1
    <3>2. CASE s \ {x} # {}
      <4>1. PICK z \in s \ {x} : \A y \in s \ {x} : y <= z
        BY <2>2, <3>2
      <4>2. x \in Nat /\ z \in Nat /\ \A y \in s : y \in Nat
        BY <4>1
      <4>3. CASE x <= z
        <5>1. \A y \in s : y <= z
          BY <4>1, <4>3
        <5>. QED  BY <4>1, <5>1
      <4>4. CASE z < x
        <5>1. \A y \in s : y <= x
          BY <4>1, <4>2, <4>4
        <5>. QED  BY <5>1
      <4>. QED  BY <4>2, <4>3, <4>4
    <3>. QED  BY <3>1, <3>2
  <2>3. s \ {x} \in Bounded => s \in Bounded
    BY <2>2
  <2>. QED  BY <2>3
<1>3. S \in Bounded
  <2>. HIDE DEF Bounded
  <2>. QED  BY <1>1, <1>2, SubsetInduction
<1>4. PICK x \in S : \A y \in S : y <= x
  BY <1>3
<1>5. \E z \in S : \A y \in S : z >= y
  BY <1>4
<1>6. Max(S) \in S /\ \A y \in S : Max(S) >= y
  BY <1>5 DEF Max
<1>7. \A y \in S : y \in Nat
  OBVIOUS
<1>. QED  BY <1>6, <1>7

Picks(pick, S) == \A s \in (SUBSET S) \ {{}} : pick[s] \in s

IsFold(F, S, base, pick, step) == \A s \in SUBSET S :
    F[s] = IF s = {} THEN base ELSE step[<<pick[s], F[s \ {pick[s]}]>>]

\* A fold over a finite set is defined if every turn leads from V to V.
LEMMA FoldDefined ==
  ASSUME NEW S, IsFiniteSet(S), NEW V, NEW base \in V, NEW pick, Picks(pick, S),
         NEW step \in [S \X V -> V]
  PROVE  \E F \in [SUBSET S -> V] : IsFold(F, S, base, pick, step)
<1> DEFINE rhs(F, s) == IF s = {} THEN base ELSE step[<<pick[s], F[s \ {pick[s]}]>>]
           Good(F, n) == \A s \in SUBSET S : Cardinality(s) <= n => F[s] = rhs(F, s)
           W == {s \in SUBSET S : \E F \in [SUBSET S -> V] : Good(F, Cardinality(s))}
<1>0. ASSUME NEW s \in SUBSET S
      PROVE  /\ IsFiniteSet(s) /\ Cardinality(s) \in Nat
             /\ s # {} => Cardinality(s) # 0
  BY FS_Subset, FS_CardinalityType, FS_EmptySet
<1>1. {} \in W
  <2> DEFINE F == [s \in SUBSET S |-> base]
  <2>1. F \in [SUBSET S -> V]
    OBVIOUS
  <2>2. Cardinality({}) = 0
    BY FS_EmptySet
  <2>3. ASSUME NEW s \in SUBSET S, Cardinality(s) <= 0  PROVE F[s] = rhs(F, s)
    <3>1. s = {}
      BY <1>0, <2>3
    <3>. QED  BY <3>1
  <2>4. Good(F, 0)
    BY <2>3
  <2>. HIDE DEF Good
  <2>. QED  BY <2>1, <2>2, <2>4
<1>2. ASSUME NEW s \in (SUBSET S) \ {{}}
      PROVE  \E x \in s : s \ {x} \in W => s \in W
  <2>1. PICK x \in s : TRUE
    OBVIOUS
  <2> DEFINE n == Cardinality(s \ {x})
  <2>2. n \in Nat /\ Cardinality(s) = n + 1
    <3>1. Cardinality(s \ {x}) = Cardinality(s) - 1
      BY <1>0, FS_RemoveElement
    <3>2. Cardinality(s) \in Nat /\ Cardinality(s \ {x}) \in Nat
      BY <1>0
    <3>. QED  BY <3>1, <3>2
  <2>. HIDE DEF n
  <2>3. ASSUME NEW F \in [SUBSET S -> V], Good(F, n)
        PROVE  \E E \in [SUBSET S -> V] : Good(E, n + 1)
    <3> DEFINE E == [q \in SUBSET S |-> IF Cardinality(q) <= n THEN F[q] ELSE rhs(F, q)]
    <3>1. ASSUME NEW q \in SUBSET S  PROVE rhs(F, q) \in V
      <4>1. CASE q = {}
        BY <4>1
      <4>2. CASE q # {}
        <5>1. pick[q] \in S /\ F[q \ {pick[q]}] \in V
          BY <4>2 DEF Picks
        <5>. QED  BY <4>2, <5>1
      <4>. QED  BY <4>1, <4>2
    <3>2. E \in [SUBSET S -> V]
      <4>. HIDE DEF rhs
      <4>. QED  BY <3>1
    <3>3. ASSUME NEW q \in SUBSET S, Cardinality(q) <= n + 1  PROVE rhs(E, q) = rhs(F, q)
      <4>1. CASE q = {}
        BY <4>1
      <4>2. CASE q # {}
        <5>1. /\ pick[q] \in q
              /\ Cardinality(q \ {pick[q]}) = Cardinality(q) - 1
          BY <1>0, <4>2, FS_RemoveElement DEF Picks
        <5>2. Cardinality(q) \in Nat
          BY <1>0
        <5>3. Cardinality(q \ {pick[q]}) <= n
          BY <2>2, <3>3, <5>1, <5>2
        <5>4. E[q \ {pick[q]}] = F[q \ {pick[q]}]
          BY <5>3
        <5>. HIDE DEF E
        <5>. QED  BY <4>2, <5>4
      <4>. QED  BY <4>1, <4>2
    <3>4. ASSUME NEW q \in SUBSET S, Cardinality(q) <= n + 1  PROVE E[q] = rhs(E, q)
      <4>1. E[q] = rhs(F, q)
        <5>. HIDE DEF rhs
        <5>. QED  BY <2>3
      <4>. HIDE DEF E, rhs
      <4>. QED  BY <3>3, <3>4, <4>1
    <3>5. Good(E, n + 1)
      <4>. HIDE DEF E, rhs
      <4>. QED  BY <3>4
    <3>. HIDE DEF E, Good
    <3>. QED  BY <3>2, <3>5
  <2>4. s \ {x} \in W => s \in W
    <3>. HIDE DEF Good
    <3>. QED  BY <2>2, <2>3 DEF n
  <2>. QED  BY <2>4
<1>3. S \in W
  <2>. HIDE DEF W
  <2>. QED  BY <1>1, <1>2, SubsetInduction
<1>4. PICK F \in [SUBSET S -> V] : Good(F, Cardinality(S))
  <2>. HIDE DEF Good
  <2>. QED  BY <1>3
<1>5. ASSUME NEW s \in SUBSET S  PROVE Cardinality(s) <= Cardinality(S)
  BY FS_Subset
<1>6. \A s \in SUBSET S : F[s] = rhs(F, s)
  <2>. HIDE DEF rhs
  <2>. QED  BY <1>4, <1>5
<1>. QED  BY <1>6 DEF IsFold

(***************************************************************************)
(* The parts of the handlers keep a table consistent.                      *)
(***************************************************************************)

LEMMA EmitConsistent ==
  ASSUME NEW t, NEW after \in Nat, Consistent(t, after), NEW id \in Ids,
         NEW name \in {"draftEditInvalidated", "pendingEditSettled"}
  PROVE  /\ Consistent(Emit(t, name, id), after)
         /\ Emit(t, name, id).rows = t.rows
         /\ Emit(t, name, id).backups = t.backups
  BY DEF Consistent, Emit, TableType, Signals

LEMMA QuietConsistent ==
  ASSUME NEW t, NEW after \in Nat, Consistent(t, after)
  PROVE  /\ Consistent(Quiet(t), after)
         /\ Quiet(t).rows = t.rows /\ Quiet(t).backups = t.backups
         /\ Quiet(t).added = t.added /\ Quiet(t).pendingEdits = t.pendingEdits
  BY DEF Consistent, Quiet, TableType

LEMMA UpdateModelsConsistent ==
  ASSUME NEW t, NEW after \in Nat, Consistent(t, after), NEW ids \in SUBSET Ids
  PROVE  Consistent(UpdateModels(t, ids), after)
  BY DEF Consistent, UpdateModels, TableType

\* A backup may go once its row is not pending.
LEMMA DeleteBackupRowConsistent ==
  ASSUME NEW t, NEW after \in Nat, Consistent(t, after), NEW id \in Ids,
         t.rows[id].state \notin PendingStates
  PROVE  /\ Consistent(DeleteBackupRow(t, id), after)
         /\ DeleteBackupRow(t, id).rows = t.rows
         /\ DeleteBackupRow(t, id).backups[id] = NoRow
  BY NoRowFacts DEF Consistent, DeleteBackupRow, TableType

\* A row may take any typed value that is not pending, unless it is a draft put over a
\* backup in a locked table.
LEMMA SetRowConsistent ==
  ASSUME NEW t, NEW after \in Nat, Consistent(t, after), NEW id \in Ids,
         NEW row \in Row \cup {NoRow}, row.state \notin PendingStates,
         row.state \notin DraftStates \/ ~t.pendingEdits
  PROVE  LET u == [t EXCEPT !.rows[id] = row]
         IN  /\ Consistent(u, after)
             /\ u.rows = [t.rows EXCEPT ![id] = row] /\ u.rows[id] = row
             /\ u.backups = t.backups /\ u.added = t.added
             /\ u.pendingEdits = t.pendingEdits
  BY DEF Consistent, TableType

LEMMA SetShownConsistent ==
  ASSUME NEW t, NEW after \in Nat, Consistent(t, after),
         NEW shown \in [Models -> SUBSET Ids]
  PROVE  LET u == [t EXCEPT !.shown = shown]
         IN  /\ Consistent(u, after)
             /\ u.rows = t.rows /\ u.backups = t.backups
             /\ u.added = t.added /\ u.pendingEdits = t.pendingEdits
  BY DEF Consistent, TableType

LEMMA SetAddedConsistent ==
  ASSUME NEW t, NEW after \in Nat, Consistent(t, after), NEW added \in SUBSET Added
  PROVE  LET u == [t EXCEPT !.added = added]
         IN  /\ Consistent(u, after)
             /\ u.rows = t.rows /\ u.backups = t.backups /\ u.pendingEdits = t.pendingEdits
  BY DEF Consistent, TableType

LEMMA DeleteRowConsistent ==
  ASSUME NEW t, NEW after \in Nat, Consistent(t, after), NEW id \in Ids
  PROVE  /\ Consistent(DeleteRow(t, id), after)
         /\ DeleteRow(t, id).rows = [t.rows EXCEPT ![id] = NoRow]
         /\ DeleteRow(t, id).added = t.added
<1> DEFINE state == t.rows[id].state
           gone  == [t EXCEPT !.rows[id] = NoRow]
           told  == CASE state = "PendingDelete" ->
                            DeleteBackupRow(Emit(gone, "pendingEditSettled", id), id)
                      [] state \in DraftStates ->
                            DeleteBackupRow(Emit(gone, "draftEditInvalidated", id), id)
                      [] OTHER -> gone
<1>1. /\ Consistent(gone, after) /\ gone.rows = [t.rows EXCEPT ![id] = NoRow]
      /\ gone.added = t.added /\ gone.rows[id] = NoRow
  <2>1. NoRow.state \notin PendingStates \cup DraftStates
    BY NoRowFacts
  <2>. QED  BY <2>1, SetRowConsistent
<1>2. ASSUME NEW name \in {"draftEditInvalidated", "pendingEditSettled"}
      PROVE  LET u == DeleteBackupRow(Emit(gone, name, id), id)
             IN  Consistent(u, after) /\ u.rows = gone.rows /\ u.added = gone.added
  <2>. HIDE DEF gone
  <2>1. /\ Consistent(Emit(gone, name, id), after) /\ Emit(gone, name, id).rows = gone.rows
    BY <1>1, EmitConsistent
  <2>0. Emit(gone, name, id).rows[id].state \notin PendingStates
    BY <1>1, <2>1, NoRowFacts
  <2>2. Emit(gone, name, id).added = gone.added
    BY <1>1 DEF Emit, Consistent, TableType
  <2>3. ASSUME NEW u, Consistent(u, after) PROVE DeleteBackupRow(u, id).added = u.added
    BY <2>3 DEF DeleteBackupRow, Consistent, TableType
  <2>. QED  BY <2>0, <2>1, <2>2, <2>3, DeleteBackupRowConsistent
<1>3. Consistent(told, after) /\ told.rows = gone.rows /\ told.added = gone.added
  BY <1>1, <1>2
<1> DEFINE shown == [m \in Models |-> told.shown[m] \ {id}]
<1>4. DeleteRow(t, id) = [told EXCEPT !.shown = shown]
  BY <1>3 DEF DeleteRow, Consistent, TableType
<1>5. shown \in [Models -> SUBSET Ids]
  BY <1>3 DEF Consistent, TableType
<1>6. told.rows = [t.rows EXCEPT ![id] = NoRow] /\ told.added = t.added
  BY <1>1, <1>3
<1>. HIDE DEF told, gone, state, shown
<1>7. QED  BY <1>3, <1>4, <1>5, <1>6, SetShownConsistent

\* Min and FirstOf pick one of what they are given: a set of naturals has a least element.
LEMMA LeastOfNat ==
  ASSUME NEW S \in SUBSET Nat, S # {}
  PROVE  Min(S) \in S /\ \A y \in S : Min(S) <= y
<1> DEFINE less == {p \in Nat \X Nat : p[1] < p[2]}
<1>1. IsWellFoundedOn(less, Nat)
  BY NatLessThanWellFounded DEF OpToRel
<1>. HIDE DEF less
<1>2. PICK x \in S : \A y \in S : <<y, x>> \notin less
  BY <1>1, WFMin
<1>3. ASSUME NEW y \in S  PROVE x <= y
  <2>1. <<y, x>> \in less <=> y < x
    BY DEF less
  <2>. QED  BY <1>2, <2>1
<1>. QED  BY <1>3 DEF Min

LEMMA FirstOfMember ==
  ASSUME ConstantsFit, NEW additions \in SUBSET Added, additions # {}
  PROVE  FirstOf(additions) \in additions
<1> DEFINE keys == {a.id : a \in additions}
<1>1. keys \in SUBSET Nat /\ keys # {}
  BY IdsPositive DEF Added
<1>2. Min(keys) \in keys /\ \A k \in keys : Min(keys) <= k
  <2>. HIDE DEF keys
  <2>. QED  BY <1>1, LeastOfNat
<1>3. PICK first \in additions : \A b \in additions : first.id <= b.id
  BY <1>2
<1>. QED  BY <1>3 DEF FirstOf

LEMMA CheckPendingInsertionConsistent ==
  ASSUME ConstantsFit, NEW t, NEW after \in Nat, Consistent(t, after), NEW id \in Ids, NEW content,
         t.rows[id].state \notin PendingStates
  PROVE  Consistent(CheckPendingInsertion(t, id, content), after)
<1> DEFINE matches == MatchingAdditions(t, id, content)
           match   == FirstOf(matches)
           taken   == [t EXCEPT !.added = @ \ {match}]
           dropped == IF match.id # id THEN DeleteRow(taken, match.id) ELSE taken
           told    == Emit(dropped, "pendingEditSettled", match.id)
<1>1. SUFFICES ASSUME matches # {}
               PROVE  Consistent(DeleteBackupRow(told, match.id), after)
  BY DEF CheckPendingInsertion
<1>2. match.id \in Ids
  <2>1. matches \in SUBSET Added
    BY DEF MatchingAdditions, Consistent, TableType
  <2>. QED  BY <1>1, <2>1, FirstOfMember DEF Added
<1>3. Consistent(taken, after) /\ taken.rows = t.rows
  <2>1. t.added \ {match} \in SUBSET Added
    BY DEF Consistent, TableType
  <2>. QED  BY <2>1, SetAddedConsistent
<1>4. Consistent(dropped, after) /\ dropped.rows[match.id].state \notin PendingStates
  <2>. HIDE DEF match, taken
  <2>1. CASE match.id # id
    <3>1. /\ Consistent(DeleteRow(taken, match.id), after)
          /\ DeleteRow(taken, match.id).rows = [taken.rows EXCEPT ![match.id] = NoRow]
      BY <1>2, <1>3, DeleteRowConsistent
    <3>2. DeleteRow(taken, match.id).rows[match.id] = NoRow
      BY <1>2, <3>1 DEF Consistent, TableType
    <3>. QED  BY <2>1, <3>1, <3>2, NoRowFacts
  <2>2. CASE match.id = id
    BY <1>3, <2>2
  <2>. QED  BY <2>1, <2>2
<1>. HIDE DEF match, dropped
<1>5. Consistent(told, after) /\ told.rows = dropped.rows
  BY <1>2, <1>4, EmitConsistent
<1>. QED  BY <1>2, <1>4, <1>5, DeleteBackupRowConsistent

LEMMA CheckOverwrittenEditConsistent ==
  ASSUME NEW t, NEW after \in Nat, Consistent(t, after), NEW id \in Ids, NEW oldState,
         t.rows[id].state \notin PendingStates
  PROVE  Consistent(CheckOverwrittenEdit(t, id, oldState), after)
<1> DEFINE mine == {a \in t.added : a.id = id}
           kept == IF oldState = "DraftAdd" /\ mine # {}
                   THEN [t EXCEPT !.added = @ \ {FirstOf(mine)}] ELSE t
           name == IF oldState = "PendingEdit" THEN "pendingEditSettled"
                                               ELSE "draftEditInvalidated"
<1>1. Consistent(kept, after) /\ kept.rows = t.rows
  <2>1. t.added \ {FirstOf(mine)} \in SUBSET Added
    BY DEF Consistent, TableType
  <2>. QED  BY <2>1, SetAddedConsistent
<1>. HIDE DEF kept
<1>2. Consistent(Emit(kept, name, id), after) /\ Emit(kept, name, id).rows = t.rows
  BY <1>1, EmitConsistent
<1>3. Consistent(DeleteBackupRow(Emit(kept, name, id), id), after)
  BY <1>2, DeleteBackupRowConsistent
<1>. QED  BY <1>3 DEF CheckOverwrittenEdit, kept

LEMMA PlaceRowConsistent ==
  ASSUME ConstantsFit, NEW t, NEW after \in Nat, Consistent(t, after), NEW id \in Ids,
         NEW content \in Contents
  PROVE  Consistent(PlaceRow(t, id, content), after)
<1> DEFINE row    == [state |-> "Loaded", content |-> content]
           placed == [t EXCEPT !.rows[id] = row]
           edited == IF t.rows[id].state \in {"none", "PendingAdd", "Loading"}
                     THEN CheckPendingInsertion(placed, id, content)
                     ELSE CheckOverwrittenEdit(placed, id, t.rows[id].state)
<1>1. row \in Row /\ row.state \notin PendingStates \cup DraftStates
  BY DEF Row, LoadStates, PendingStates, DraftStates
<1>2. Consistent(placed, after) /\ placed.rows[id].state \notin PendingStates
  <2>. HIDE DEF row
  <2>. QED  BY <1>1, SetRowConsistent
<1>3. Consistent(edited, after)
  <2>. HIDE DEF placed
  <2>. QED  BY <1>2, CheckPendingInsertionConsistent, CheckOverwrittenEditConsistent
<1>4. PlaceRow(t, id, content) = UpdateModels(edited, {id})
  BY DEF PlaceRow
<1>. HIDE DEF edited
<1>. QED  BY <1>3, <1>4, UpdateModelsConsistent

(***************************************************************************)
LEMMA SaveBackupConsistent ==
  ASSUME NEW t, NEW after \in Nat, Consistent(t, after), NEW id \in Ids,
         NEW row \in Row, row.state \notin PendingStates, ~t.pendingEdits
  PROVE  /\ Consistent(SaveBackup(t, id, row), after)
         /\ SaveBackup(t, id, row).rows = t.rows
         /\ SaveBackup(t, id, row).pendingEdits = t.pendingEdits
  BY DEF Consistent, SaveBackup, TableType

LEMMA EditAdditionConsistent ==
  ASSUME NEW t, NEW after \in Nat, Consistent(t, after), NEW id \in Ids,
         NEW content \in Contents
  PROVE  /\ Consistent(EditAddition(t, id, content), after)
         /\ EditAddition(t, id, content).rows = t.rows
         /\ EditAddition(t, id, content).pendingEdits = t.pendingEdits
<1> DEFINE mine  == {a \in t.added : a.id = id}
           added == (t.added \ {FirstOf(mine)}) \cup {[id |-> id, content |-> content]}
<1>1. added \in SUBSET Added
  BY DEF Consistent, TableType, Added
<1>2. EditAddition(t, id, content) = IF mine = {} THEN t ELSE [t EXCEPT !.added = added]
  BY DEF EditAddition
<1>. HIDE DEF mine, added
<1>. QED  BY <1>1, <1>2, SetAddedConsistent

(***************************************************************************)
(* So do drafting, submitting and undoing edits.                           *)
(***************************************************************************)

LEMMA DraftEditedConsistent ==
  ASSUME NEW t, Consistent(t, 0), ~t.pendingEdits, NEW id \in Ids, CanBeEdited(t, id),
         NEW content \in Contents
  PROVE  Consistent(DraftEdited(t, id, content), 0)
<1> DEFINE old   == t.rows[id]
           saved == CASE old.state = "DraftEdit" -> t
                      [] old.state = "DraftAdd" -> EditAddition(t, id, content)
                      [] OTHER -> [SaveBackup(t, id, old) EXCEPT !.rows[id].state = "DraftEdit"]
           final == [Quiet(saved) EXCEPT !.rows[id].content = content]
<1>1. old \in Row /\ old.state \notin PendingStates
  BY DEF CanBeEdited, Consistent, TableType
<1>2. /\ Consistent(saved, 0) /\ ~saved.pendingEdits
      /\ saved.rows[id] \in Row /\ saved.rows[id].state \notin PendingStates
  <2>1. CASE old.state = "DraftEdit"
    BY <1>1, <2>1
  <2>2. CASE old.state = "DraftAdd"
    BY <1>1, <2>2, EditAdditionConsistent
  <2>3. CASE old.state \notin {"DraftEdit", "DraftAdd"}
    <3> DEFINE kept == SaveBackup(t, id, old)
               row  == [old EXCEPT !.state = "DraftEdit"]
    <3>1. Consistent(kept, 0) /\ kept.rows = t.rows /\ ~kept.pendingEdits
      BY <1>1, SaveBackupConsistent
    <3>2. row \in Row /\ row.state = "DraftEdit" /\ row.state \notin PendingStates
      BY <1>1 DEF Row, LoadStates, DraftStates, PendingStates
    <3>3. saved = [kept EXCEPT !.rows[id] = row]
      BY <2>3, <3>1 DEF Consistent, TableType
    <3>. HIDE DEF kept, row, saved
    <3>. QED  BY <3>1, <3>2, <3>3, SetRowConsistent
  <2>. QED  BY <2>1, <2>2, <2>3
<1>. HIDE DEF saved
<1>3. Consistent(final, 0)
  <2> DEFINE row == [saved.rows[id] EXCEPT !.content = content]
  <2>1. /\ Consistent(Quiet(saved), 0) /\ Quiet(saved).rows = saved.rows
        /\ ~Quiet(saved).pendingEdits
    BY <1>2, QuietConsistent
  <2>2. row \in Row /\ row.state \notin PendingStates
    BY <1>1, <1>2 DEF Row
  <2>3. final = [Quiet(saved) EXCEPT !.rows[id] = row]
    BY <2>1 DEF Consistent, TableType
  <2>. HIDE DEF row, final
  <2>. QED  BY <2>1, <2>2, <2>3, SetRowConsistent
<1>4. DraftEdited(t, id, content) = UpdateModels(final, {id})
  BY DEF DraftEdited, saved
<1>. HIDE DEF final
<1>. QED  BY <1>3, <1>4, UpdateModelsConsistent

LEMMA DraftAddedConsistent ==
  ASSUME NEW t, Consistent(t, 0), ~t.pendingEdits, NEW id \in Ids, NEW content \in Contents
  PROVE  Consistent(DraftAdded(t, id, content), 0)
<1> DEFINE row    == [state |-> "DraftAdd", content |-> content]
           placed == [Quiet(t) EXCEPT !.rows[id] = row]
           noted  == placed.added \cup {[id |-> id, content |-> content]}
           with   == [placed EXCEPT !.added = noted]
<1>1. Consistent(Quiet(t), 0) /\ ~Quiet(t).pendingEdits
  BY QuietConsistent
<1>2. row \in Row /\ row.state \notin PendingStates
  BY <1>1 DEF Row, LoadStates, DraftStates, PendingStates
<1>. HIDE DEF row
<1>3. /\ Consistent(placed, 0) /\ placed.rows[id] = row /\ ~placed.pendingEdits
      /\ placed.added = Quiet(t).added
  BY <1>1, <1>2, SetRowConsistent
<1>4. DraftAdded(t, id, content) = UpdateModels(SaveBackup(with, id, row), {id})
  BY <1>1, <1>3 DEF DraftAdded, row, Consistent, TableType
<1>. HIDE DEF placed
<1>5. Consistent(with, 0) /\ ~with.pendingEdits
  <2>1. noted \in SUBSET Added
    BY <1>1, <1>3 DEF Consistent, TableType, Added
  <2>. HIDE DEF noted
  <2>. QED  BY <1>3, <2>1, SetAddedConsistent
<1>. HIDE DEF with
<1>. QED  BY <1>2, <1>4, <1>5, SaveBackupConsistent, UpdateModelsConsistent

LEMMA DraftDeletedConsistent ==
  ASSUME NEW table, Consistent(table, 0), ~table.pendingEdits, NEW id \in Ids,
         table.rows[id] # NoRow
  PROVE  Consistent(DraftDeleted(table, id), 0)
<1> DEFINE t == Quiet(table)
           forgotten == [t EXCEPT !.added = {a \in @ : a.id # id}]
           kept == SaveBackup(t, id, t.rows[id])
           row  == [t.rows[id] EXCEPT !.state = "DraftDelete"]
           u    == DraftDeleted(table, id)
<1>1. /\ Consistent(t, 0) /\ ~t.pendingEdits
      /\ t.rows[id] \in Row /\ t.rows[id].state \notin PendingStates
  BY QuietConsistent DEF Consistent, TableType
<1>2. u = IF t.rows[id].state = "DraftAdd"
        THEN DeleteBackupRow(DeleteRow(forgotten, id), id)
        ELSE UpdateModels([kept EXCEPT !.rows[id].state = "DraftDelete"], {id})
  BY DEF DraftDeleted
<1>. HIDE DEF t, u
<1>0. SUFFICES Consistent(u, 0)
  BY DEF u
<1>3. CASE t.rows[id].state = "DraftAdd"
  <2> DEFINE left == {a \in t.added : a.id # id}
  <2>1. left \in SUBSET Added /\ forgotten = [t EXCEPT !.added = left]
    BY <1>1 DEF Consistent, TableType
  <2>2. Consistent(forgotten, 0)
    <3>. HIDE DEF left, forgotten
    <3>. QED  BY <1>1, <2>1, SetAddedConsistent
  <2>. HIDE DEF forgotten
  <2>3. /\ Consistent(DeleteRow(forgotten, id), 0)
        /\ DeleteRow(forgotten, id).rows = [forgotten.rows EXCEPT ![id] = NoRow]
    BY <2>2, DeleteRowConsistent
  <2>4. DeleteRow(forgotten, id).rows[id].state \notin PendingStates
    BY <2>2, <2>3, NoRowFacts DEF Consistent, TableType
  <2>. QED  BY <1>2, <1>3, <2>3, <2>4, DeleteBackupRowConsistent
<1>4. CASE t.rows[id].state # "DraftAdd"
  <2>1. Consistent(kept, 0) /\ kept.rows = t.rows /\ ~kept.pendingEdits
    BY <1>1, SaveBackupConsistent
  <2>2. row \in Row /\ row.state \notin PendingStates
    BY <1>1 DEF Row, LoadStates, DraftStates, PendingStates
  <2>3. u = UpdateModels([kept EXCEPT !.rows[id] = row], {id})
    BY <1>2, <1>4, <2>1 DEF Consistent, TableType
  <2>. HIDE DEF kept, row
  <2>. QED  BY <2>1, <2>2, <2>3, SetRowConsistent, UpdateModelsConsistent
<1>. QED  BY <1>3, <1>4

LEMMA MarkedPendingConsistent ==
  ASSUME ConstantsFit, NEW t, Consistent(t, 0)
  PROVE  Consistent(MarkedPending(t), 0)
<1> DEFINE edited == Backups(t) \cap Present(t)
           rows   == [i \in Ids |->
                        IF i \in edited
                        THEN [t.rows[i] EXCEPT !.state = PendingOf(t.rows[i].state)]
                        ELSE t.rows[i]]
           marked == [Quiet(t) EXCEPT !.rows = rows,
                        !.pendingEdits = @ \/ Backups(t) # {}]
<1>1. /\ Consistent(t, 0) /\ Consistent(Quiet(t), 0)
      /\ Quiet(t).rows = t.rows /\ Quiet(t).backups = t.backups
      /\ Quiet(t).pendingEdits = t.pendingEdits
  BY QuietConsistent
<1>2. ASSUME NEW i \in Ids
      PROVE  /\ rows[i] \in Row \cup {NoRow}
             /\ rows[i].state \in PendingStates
                  => t.backups[i] # NoRow /\ (t.pendingEdits \/ Backups(t) # {})
             /\ t.backups[i] # NoRow => rows[i].state \notin DraftStates
  <2>1. CASE i \in edited
    <3>1. t.rows[i] \in Row /\ t.backups[i] # NoRow
      BY <1>1, <2>1 DEF Consistent, TableType, Present, Backups
    <3>2. /\ PendingOf(t.rows[i].state) \in LoadStates
          /\ PendingOf(t.rows[i].state) \notin DraftStates
      BY <3>1 DEF PendingOf, Row, LoadStates, DraftStates, PendingStates
    <3>. QED  BY <2>1, <3>1, <3>2 DEF Row, Backups
  <2>2. CASE i \notin edited
    <3>1. rows[i] = t.rows[i]
      BY <2>2
    <3>2. t.backups[i] # NoRow => t.rows[i] = NoRow
      BY <2>2 DEF Present, Backups
    <3>. HIDE DEF rows
    <3>3. t.backups[i] # NoRow => t.rows[i].state \notin DraftStates
      BY <3>2, NoRowFacts
    <3>. QED  BY <1>1, <3>1, <3>3 DEF Consistent, TableType
  <2>. QED  BY <2>1, <2>2
<1>3. Consistent(marked, 0)
  <2>1. rows \in [Ids -> Row \cup {NoRow}]
    BY <1>2
  <2>2. /\ marked.rows = rows /\ marked.backups = t.backups
        /\ marked.pendingEdits = (t.pendingEdits \/ Backups(t) # {})
        /\ marked \in TableType
    <3>. HIDE DEF rows
    <3>. QED  BY <1>1, <2>1 DEF Consistent, TableType, Backups
  <2>3. \A i \in Ids : ~ i <= 0
    BY IdsPositive
  <2>. HIDE DEF marked, rows
  <2>. QED  BY <1>1, <1>2, <2>2, <2>3 DEF Consistent, Backups
<1>4. MarkedPending(t) = UpdateModels(marked, edited) /\ edited \in SUBSET Ids
  BY DEF MarkedPending, Present
<1>. HIDE DEF marked, edited
<1>. QED  BY <1>3, <1>4, UpdateModelsConsistent

\* What the loop of resetEdits leaves of a table t in which every pending row up to `id`
\* is gone.
LEMMA ResetAdvances ==
  ASSUME ConstantsFit, NEW t, NEW after \in Nat, Consistent(t, after), NEW id \in Ids, id >= after,
         \A i \in Ids : i <= id => t.rows[i].state \notin PendingStates
  PROVE  Consistent(t, id)
<1>1. \A i \in Ids : i > id => i > after
  BY IdsPositive
<1>. QED  BY <1>1 DEF Consistent

\* A backup may be dropped by mistake, as long as its row is not pending.
LEMMA DropBackupConsistent ==
  ASSUME NEW t, NEW after \in Nat, Consistent(t, after), NEW id \in Ids,
         t.rows[id].state \notin PendingStates
  PROVE  Consistent([t EXCEPT !.backups[id] = NoRow], after)
  BY NoRowFacts DEF Consistent, TableType

LEMMA RevertRowConsistent ==
  ASSUME ConstantsFit, NEW t, NEW after \in Nat, Consistent(t, after), NEW id \in Ids, id > after,
         t.rows[id] # NoRow, t.backups[id] # NoRow,
         \A i \in Ids : i < id => t.rows[i].state \notin PendingStates
  PROVE  Consistent(RevertRow(t, id), id)
<1> DEFINE bak  == t.backups[id]
           used == IF t.rows[id].state \in {"DraftEdit", "PendingEdit"}
                   THEN bak.content ELSE t.rows[id].content
           row  == [state |-> bak.state, content |-> used]
           u    == RevertRow(t, id)
<1>1. row \in Row /\ row.state \notin PendingStates
  BY DEF Consistent, TableType, Row
<1>2. /\ u \in TableType /\ u.rows = [t.rows EXCEPT ![id] = row]
      /\ u.backups = t.backups /\ u.pendingEdits = t.pendingEdits
  <2>1. [t.rows EXCEPT ![id] = row] =
          [t.rows EXCEPT ![id] = [[@ EXCEPT !.state = bak.state] EXCEPT !.content = used]]
    BY DEF Consistent, TableType, Row
  <2>2. u = [t EXCEPT !.rows = [t.rows EXCEPT ![id] = row]]
    BY <2>1 DEF RevertRow, Consistent, TableType, Row
  <2>. HIDE DEF u, row
  <2>. QED  BY <1>1, <2>2 DEF Consistent, TableType
<1>3. /\ \A i \in Ids : i # id => u.rows[i] = t.rows[i]
      /\ u.rows[id].state \notin PendingStates
  <2>. HIDE DEF u, row
  <2>. QED  BY <1>1, <1>2 DEF Consistent, TableType
<1>4. \A i \in Ids : /\ i > id => i # id /\ i > after
                     /\ i <= id => i = id \/ i < id
  BY IdsPositive
<1>. HIDE DEF u, row
<1>5. ASSUME NEW i \in Ids
      PROVE  /\ u.rows[i].state \in PendingStates => u.backups[i] # NoRow /\ u.pendingEdits
             /\ u.backups[i].state \notin PendingStates
             /\ u.pendingEdits /\ u.backups[i] # NoRow /\ i > id
                  => u.rows[i].state \notin DraftStates
             /\ i <= id => u.rows[i].state \notin PendingStates
  <2>1. CASE i = id
    BY <1>2, <1>3, <1>4, <2>1 DEF Consistent
  <2>2. CASE i # id
    BY <1>2, <1>3, <1>4, <2>2 DEF Consistent
  <2>. QED  BY <2>1, <2>2
<1>6. Consistent(u, id)
  BY <1>2, <1>5 DEF Consistent
<1>. QED  BY <1>6 DEF u

\* One turn of the loop of resetEdits, at the backup of row `id`.
LEMMA ResetOneConsistent ==
  ASSUME ConstantsFit, NEW t, NEW after \in Nat, Consistent(t, after), NEW id \in Ids, id > after,
         t.backups[id] # NoRow,
         \A i \in Ids : i < id => t.rows[i].state \notin PendingStates
  PROVE  Consistent(ResetOne(t, id), id)
<1> DEFINE gone == DeleteRow(t, id)
           next == ResetOne(t, id)
<1>1. SUFFICES Consistent(next, id)
  OBVIOUS
<1>2. /\ Consistent(gone, id) /\ gone.rows = [t.rows EXCEPT ![id] = NoRow]
      /\ gone.rows[id].state \notin PendingStates
  <2>1. Consistent(gone, after) /\ gone.rows = [t.rows EXCEPT ![id] = NoRow]
    BY DeleteRowConsistent
  <2>2. \A i \in Ids : i <= id => gone.rows[i].state \notin PendingStates
    <3>1. \A i \in Ids : i <= id => i = id \/ i < id
      BY IdsPositive
    <3>. QED  BY <2>1, <3>1, NoRowFacts DEF Consistent, TableType
  <2>3. id >= after /\ id <= id
    BY IdsPositive
  <2>4. Consistent(gone, id)
    BY <2>1, <2>2, <2>3, ResetAdvances
  <2>. QED  BY <2>1, <2>2, <2>3, <2>4
<1>3. CASE t.rows[id] = NoRow
  <2>1. next = RemoveAtIndex(t, id)
    BY <1>3, NoRowFacts DEF ResetOne
  <2>2. next = [t EXCEPT !.backups[id] = NoRow]
    BY <2>1 DEF RemoveAtIndex
  <2>3. \A i \in Ids : i <= id => t.rows[i].state \notin PendingStates
    <3>1. \A i \in Ids : i <= id => i = id \/ i < id
      BY IdsPositive
    <3>. QED  BY <1>3, <3>1, NoRowFacts
  <2>4. id \in Nat /\ id >= after /\ id <= id
    BY IdsPositive
  <2>. HIDE DEF next
  <2>. QED  BY <2>2, <2>3, <2>4, ResetAdvances, DropBackupConsistent
<1>4. CASE t.rows[id].state \in {"DraftAdd", "PendingAdd"}
  <2>1. \/ next = gone
        \/ ~IndexOutOfRange(gone, id) /\ next = RemoveAtIndex(gone, id)
    BY <1>4, NoRowFacts DEF ResetOne, RunsOut
  <2>2. CASE next = gone
    BY <1>2, <2>2
  <2>3. CASE ~IndexOutOfRange(gone, id) /\ next = RemoveAtIndex(gone, id)
    <3>1. CASE gone.backups[id] # NoRow
      <4>1. next = [gone EXCEPT !.backups[id] = NoRow]
        BY <2>3, <3>1 DEF RemoveAtIndex
      <4>. HIDE DEF gone, next
      <4>. QED  BY <1>2, <4>1, DropBackupConsistent, IdsPositive
    <3>2. CASE gone.backups[id] = NoRow
      <4> DEFINE victim == Min(BackupsAfter(gone, id))
      <4>. HIDE DEF gone
      <4>1. victim \in Ids /\ victim > id /\ gone.backups[victim] # NoRow
        <5>1. BackupsAfter(gone, id) \in SUBSET Nat /\ BackupsAfter(gone, id) # {}
          BY <2>3, <3>2, IdsPositive DEF BackupsAfter, Backups, IndexOutOfRange
        <5>2. victim \in BackupsAfter(gone, id)
          BY <5>1, LeastOfNat
        <5>. QED  BY <5>2 DEF BackupsAfter, Backups
      <4>2. next = [gone EXCEPT !.backups[victim] = NoRow]
        BY <2>3, <3>2 DEF RemoveAtIndex
      <4>. HIDE DEF victim, next
      <4>3. gone.rows[victim].state \notin PendingStates
        <5>1. SUFFICES ASSUME t.rows[victim].state \in PendingStates  PROVE FALSE
          BY <1>2, <4>1 DEF Consistent, TableType
        <5>2. t.pendingEdits
          BY <4>1, <5>1 DEF Consistent
        <5>3. t.rows[id].state = "PendingAdd"
          BY <1>4, <5>2 DEF Consistent, DraftStates
        <5>4. gone.backups = t.backups
          BY <5>3 DEF gone, DeleteRow, DraftStates, Consistent, TableType
        <5>. QED  BY <3>2, <5>4
      <4>. QED  BY <1>2, <4>1, <4>2, <4>3, DropBackupConsistent, IdsPositive
    <3>. QED  BY <3>1, <3>2
  <2>. QED  BY <2>1, <2>2, <2>3
<1>5. CASE t.rows[id] # NoRow /\ t.rows[id].state \notin {"DraftAdd", "PendingAdd"}
  <2>1. next = RevertRow(t, id)
    BY <1>5 DEF ResetOne
  <2>. QED  BY <1>5, <2>1, RevertRowConsistent
<1>. QED  BY <1>3, <1>4, <1>5

LEMMA EditsDroppedConsistent ==
  ASSUME NEW t, NEW after \in Nat, Consistent(t, after),
         \A i \in Ids : t.rows[i].state \notin PendingStates
  PROVE  /\ Consistent(EditsDropped(t), 0)
         /\ EditsDropped(t).rows = t.rows
         /\ \A i \in Ids : EditsDropped(t).backups[i] = NoRow
         /\ EditsDropped(t).added = {}
<1> DEFINE told  == UpdateModels(t, Backups(t))
           clear == [i \in Ids |-> NoRow]
           u     == EditsDropped(t)
<1>1. Consistent(told, after) /\ told.rows = t.rows
  BY UpdateModelsConsistent DEF Backups, UpdateModels, Consistent, TableType
<1>2. u = [told EXCEPT !.backups = clear, !.added = {}]
  BY DEF EditsDropped
<1>. HIDE DEF told, u
<1>4. /\ u \in TableType /\ u.rows = t.rows /\ u.added = {}
      /\ \A i \in Ids : u.backups[i] = NoRow
  BY <1>1, <1>2 DEF Consistent, TableType
<1>5. Consistent(u, 0)
  BY <1>4, NoRowFacts DEF Consistent
<1>. QED  BY <1>4, <1>5 DEF u

LEMMA MarkedStaleConsistent ==
  ASSUME NEW t, Consistent(t, 0), NEW id \in Ids
  PROVE  Consistent(MarkedStale(t, id), 0)
<1> DEFINE state    == t.rows[id].state
           bak      == t.backups[id]
           restored == IF bak = NoRow THEN Quiet(t) ELSE [Quiet(t) EXCEPT !.rows[id] = bak]
           told     == IF state \in DraftStates
                       THEN DeleteBackupRow(Emit(restored, "draftEditInvalidated", id), id)
                       ELSE Quiet(t)
           stale    == [told EXCEPT !.rows[id].state = "Stale"]
<1>2. /\ Consistent(Quiet(t), 0) /\ Quiet(t).rows = t.rows
      /\ Quiet(t).backups = t.backups /\ Quiet(t).pendingEdits = t.pendingEdits
  BY QuietConsistent
<1>3. \/ MarkedStale(t, id) = Quiet(t)
      \/ MarkedStale(t, id) = stale /\ state \notin {"none", "PendingEdit", "PendingDelete"}
  BY DEF MarkedStale
<1>4. ASSUME state # "none"  PROVE Consistent(stale, 0)
  <2>1. CASE state \notin DraftStates
    <3> DEFINE row == [t.rows[id] EXCEPT !.state = "Stale"]
    <3>1. row \in Row /\ row.state \notin PendingStates \cup DraftStates
      BY <1>4, NoRowFacts DEF Consistent, TableType, Row, LoadStates, PendingStates, DraftStates
    <3>2. stale = [Quiet(t) EXCEPT !.rows[id] = row]
      BY <1>2, <2>1 DEF Consistent, TableType
    <3>. HIDE DEF row, stale
    <3>. QED  BY <1>2, <3>1, <3>2, SetRowConsistent
  <2>2. CASE state \in DraftStates
    <3> DEFINE used == IF bak = NoRow THEN t.rows[id] ELSE bak
               row  == [used EXCEPT !.state = "Stale"]
               base == [Quiet(t) EXCEPT !.rows[id] = row]
               gone == DeleteBackupRow(Emit(base, "draftEditInvalidated", id), id)
    <3>1. used \in Row /\ row \in Row /\ row.state \notin PendingStates \cup DraftStates
      BY <1>4, NoRowFacts DEF Consistent, TableType, Row, LoadStates, PendingStates, DraftStates
    <3>. HIDE DEF row
    <3>2. Consistent(base, 0) /\ base.rows[id] = row
      BY <1>2, <3>1, SetRowConsistent
    <3>3. /\ Consistent(Emit(base, "draftEditInvalidated", id), 0)
          /\ Emit(base, "draftEditInvalidated", id).rows = base.rows
      <4>. HIDE DEF base
      <4>. QED  BY <3>2, EmitConsistent
    <3>4. Consistent(gone, 0)
      <4>. HIDE DEF base
      <4>. QED  BY <3>1, <3>2, <3>3, DeleteBackupRowConsistent
    <3>5. stale = gone
      <4> DEFINE q == Quiet(t)
                 e == q.emitted \cup {[signal |-> "draftEditInvalidated", id |-> id]}
                 b == [q.backups EXCEPT ![id] = NoRow]
                 p == q.pendingEdits /\ \E i \in Ids : b[i] # NoRow
      <4>. HIDE DEF q, used
      <4>1. restored = [q EXCEPT !.rows = [q.rows EXCEPT ![id] = used]]
        BY <1>2 DEF q, used, Consistent, TableType
      <4>2. told = [q EXCEPT !.rows = [q.rows EXCEPT ![id] = used], !.emitted = e,
                             !.backups = b, !.pendingEdits = p]
        BY <1>2, <2>2, <4>1 DEF q, DeleteBackupRow, Emit, Consistent, TableType
      <4>3. gone = [q EXCEPT !.rows = [q.rows EXCEPT ![id] = row], !.emitted = e,
                             !.backups = b, !.pendingEdits = p]
        BY <1>2 DEF q, DeleteBackupRow, Emit, Consistent, TableType
      <4>4. stale = [told EXCEPT !.rows = [told.rows EXCEPT ![id] = [told.rows[id] EXCEPT !.state = "Stale"]]]
        OBVIOUS
      <4>. HIDE DEF told, gone, stale, e, b, p
      <4>5. q \in TableType
        BY <1>2 DEF q, Consistent
      <4>6. told.rows = [q.rows EXCEPT ![id] = used] /\ told.rows[id] = used
        BY <4>2, <4>5 DEF TableType
      <4>7. [told.rows EXCEPT ![id] = row] = [q.rows EXCEPT ![id] = row]
        BY <4>5, <4>6 DEF TableType
      <4>8. stale = [told EXCEPT !.rows = [told.rows EXCEPT ![id] = row]]
        BY <4>4, <4>6 DEF row
      <4>. QED  BY <4>2, <4>3, <4>5, <4>7, <4>8 DEF TableType
    <3>. HIDE DEF stale, gone
    <3>. QED  BY <3>4, <3>5
  <2>. QED  BY <2>1, <2>2
<1>. HIDE DEF stale
<1>. QED  BY <1>2, <1>3, <1>4

(***************************************************************************)
(* What the parts of the handlers have in common when they make u of a     *)
(* table t: apart from the drafting functions and resetEdits, they only    *)
(* take edits away.  A row is left alone, or it is no edit any more, and   *)
(* if it was a draft that has been signalled; no backup is made or         *)
(* changed; the lock is released only when no backup is left; and an       *)
(* addition is forgotten only together with its row.                       *)
(***************************************************************************)
Notice(i) == [signal |-> "draftEditInvalidated", id |-> i]

AddedStates == {"DraftAdd", "PendingAdd"}

TakesEdits(t, u) ==
    /\ \A i \in Ids : u.rows[i] # t.rows[i] =>
          /\ u.rows[i].state \notin DraftStates \cup PendingStates
          /\ t.rows[i].state \in DraftStates => Notice(i) \in u.emitted
    /\ \A i \in Ids : u.backups[i] \in {t.backups[i], NoRow}
    /\ \/ u.pendingEdits = t.pendingEdits
       \/ ~u.pendingEdits /\ \A i \in Ids : u.backups[i] = NoRow
    /\ \A a \in t.added : a \in u.added \/ u.rows[a.id].state \notin AddedStates

Settles(t, u) ==
    /\ u \in TableType /\ u.open = t.open
    /\ t.emitted \subseteq u.emitted
    /\ TakesEdits(t, u)

(***************************************************************************)
(* What the views of a table are told.  `ids` are rows they are about to   *)
(* be told of, and `after` is how far resetEdits has come.  A row may be   *)
(* hidden from a view only as a placeholder: what has no content, and is   *)
(* waited for; or was put back by resetEdits, which tells the views last.  *)
(***************************************************************************)
Hidden(t, i, after) ==
    /\ t.rows[i].content = Blank
    /\ \/ t.rows[i].state \in {"Loading", "Stale"}
       \/ t.backups[i] # NoRow /\ i <= after

ViewsTold(t, ids, after) ==
    /\ \A m \in t.open :
          /\ t.shown[m] \subseteq Present(t)
          /\ \A i \in Present(t) \ (t.shown[m] \cup ids) : Hidden(t, i, after)
    /\ \A i \in Ids : t.backups[i] # NoRow /\ i <= after => t.rows[i] # NoRow

LEMMA StateFacts ==
  /\ "Loaded" \notin DraftStates \cup PendingStates \cup AddedStates
  /\ "Loading" \notin DraftStates \cup PendingStates \cup AddedStates
  /\ "Stale" \notin DraftStates \cup PendingStates \cup AddedStates
  /\ "none" \notin DraftStates \cup PendingStates \cup AddedStates
  /\ DraftStates \cap PendingStates = {}
  /\ AddedStates \subseteq DraftStates \cup PendingStates
  BY DEF DraftStates, PendingStates, AddedStates

LEMMA SettlesReflexive ==
  ASSUME NEW t \in TableType
  PROVE  Settles(t, t)
  BY DEF Settles, TakesEdits

LEMMA SettlesTransitive ==
  ASSUME NEW t \in TableType, NEW u, NEW w, Settles(t, u), Settles(u, w)
  PROVE  Settles(t, w)
<1>1. \A i \in Ids : w.rows[i] # t.rows[i] =>
         /\ w.rows[i].state \notin DraftStates \cup PendingStates
         /\ t.rows[i].state \in DraftStates => Notice(i) \in w.emitted
  BY DEF Settles, TakesEdits
<1>2. \A a \in t.added : a \in w.added \/ w.rows[a.id].state \notin AddedStates
  <2>1. \A a \in t.added : a.id \in Ids
    BY DEF TableType, Added
  <2>. QED  BY <2>1, StateFacts DEF Settles, TakesEdits
<1>3. \/ w.pendingEdits = t.pendingEdits
      \/ ~w.pendingEdits /\ \A i \in Ids : w.backups[i] = NoRow
  BY DEF Settles, TakesEdits
<1>. QED  BY <1>1, <1>2, <1>3 DEF Settles, TakesEdits

LEMMA EmitSettles ==
  ASSUME NEW t \in TableType, NEW id \in Ids,
         NEW name \in {"draftEditInvalidated", "pendingEditSettled"}
  PROVE  /\ Settles(t, Emit(t, name, id))
         /\ Emit(t, name, id).rows = t.rows /\ Emit(t, name, id).added = t.added
         /\ Emit(t, name, id).backups = t.backups /\ Emit(t, name, id).shown = t.shown
         /\ [signal |-> name, id |-> id] \in Emit(t, name, id).emitted
  BY DEF Emit, Settles, TakesEdits, TableType, Signals

LEMMA DeleteBackupRowSettles ==
  ASSUME NEW t \in TableType, NEW id \in Ids
  PROVE  LET u == DeleteBackupRow(t, id)
         IN  /\ Settles(t, u)
             /\ u.rows = t.rows /\ u.added = t.added /\ u.shown = t.shown
             /\ u.emitted = t.emitted
             /\ u.backups = [t.backups EXCEPT ![id] = NoRow]
<1> DEFINE left == [t.backups EXCEPT ![id] = NoRow]
           lock == t.pendingEdits /\ \E i \in Ids : left[i] # NoRow
           u    == DeleteBackupRow(t, id)
<1>1. u = [t EXCEPT !.backups = left, !.pendingEdits = lock]
  BY DEF DeleteBackupRow, TableType
<1>2. left \in [Ids -> Row \cup {NoRow}] /\ \A i \in Ids : left[i] \in {t.backups[i], NoRow}
  BY DEF TableType
<1>3. /\ lock \in BOOLEAN
      /\ lock = t.pendingEdits \/ (~lock /\ \A i \in Ids : left[i] = NoRow)
  BY DEF TableType
<1>. HIDE DEF left, lock, u
<1>4. /\ u \in TableType /\ u.open = t.open
      /\ u.rows = t.rows /\ u.added = t.added /\ u.shown = t.shown /\ u.emitted = t.emitted
      /\ u.backups = left /\ u.pendingEdits = lock
  BY <1>1, <1>2, <1>3 DEF TableType
<1>5. Settles(t, u)
  BY <1>2, <1>3, <1>4 DEF Settles, TakesEdits
<1>. QED  BY <1>4, <1>5 DEF u, left

\* A row that is no edit, or whose loss is signalled, may take a value that is none.
LEMMA SetRowSettles ==
  ASSUME NEW t \in TableType, NEW id \in Ids, NEW row \in Row \cup {NoRow},
         row.state \notin DraftStates \cup PendingStates,
         t.rows[id].state \in DraftStates => Notice(id) \in t.emitted
  PROVE  LET u == [t EXCEPT !.rows[id] = row]
         IN  /\ Settles(t, u)
             /\ u.rows = [t.rows EXCEPT ![id] = row] /\ u.added = t.added
             /\ u.shown = t.shown /\ u.backups = t.backups /\ u.emitted = t.emitted
             /\ u.pendingEdits = t.pendingEdits
<1> DEFINE rows == [t.rows EXCEPT ![id] = row]
           u    == [t EXCEPT !.rows[id] = row]
<1>1. u = [t EXCEPT !.rows = rows] /\ rows \in [Ids -> Row \cup {NoRow}]
  BY DEF TableType
<1>2. rows[id] = row /\ \A i \in Ids : i # id => rows[i] = t.rows[i]
  BY DEF TableType
<1>. HIDE DEF rows, u
<1>3. /\ u \in TableType /\ u.rows = rows /\ u.added = t.added /\ u.open = t.open
      /\ u.shown = t.shown /\ u.backups = t.backups /\ u.emitted = t.emitted
      /\ u.pendingEdits = t.pendingEdits
  BY <1>1 DEF TableType
<1>4. Settles(t, u)
  BY <1>2, <1>3 DEF Settles, TakesEdits
<1>. QED  BY <1>3, <1>4 DEF u, rows

LEMMA SetAddedSettles ==
  ASSUME NEW t \in TableType, NEW added \in SUBSET t.added,
         \A a \in t.added : a \in added \/ t.rows[a.id].state \notin AddedStates
  PROVE  LET u == [t EXCEPT !.added = added]
         IN  /\ Settles(t, u)
             /\ u.rows = t.rows /\ u.shown = t.shown /\ u.backups = t.backups
             /\ u.emitted = t.emitted /\ u.added = added
  BY DEF Settles, TakesEdits, TableType

LEMMA SetShownSettles ==
  ASSUME NEW t \in TableType, NEW shown \in [Models -> SUBSET Ids]
  PROVE  LET u == [t EXCEPT !.shown = shown]
         IN  /\ Settles(t, u)
             /\ u.rows = t.rows /\ u.added = t.added /\ u.backups = t.backups
             /\ u.emitted = t.emitted /\ u.shown = shown
  BY DEF Settles, TakesEdits, TableType

LEMMA UpdateModelsSettles ==
  ASSUME NEW t \in TableType, NEW ids \in SUBSET Ids
  PROVE  LET u == UpdateModels(t, ids)
         IN  /\ Settles(t, u)
             /\ u.rows = t.rows /\ u.added = t.added /\ u.backups = t.backups
             /\ u.emitted = t.emitted
             /\ u.shown = [m \in Models |-> IF m \in t.open THEN t.shown[m] \cup ids
                                                            ELSE t.shown[m]]
<1> DEFINE shown == [m \in Models |-> IF m \in t.open THEN t.shown[m] \cup ids ELSE t.shown[m]]
<1>1. shown \in [Models -> SUBSET Ids]
  BY DEF TableType
<1>2. UpdateModels(t, ids) = [t EXCEPT !.shown = shown]
  BY DEF UpdateModels, TableType
<1>. HIDE DEF shown
<1>3. LET u == [t EXCEPT !.shown = shown]
      IN  /\ Settles(t, u)
          /\ u.rows = t.rows /\ u.added = t.added /\ u.backups = t.backups
          /\ u.emitted = t.emitted /\ u.shown = shown
  BY <1>1, SetShownSettles
<1>. QED  BY <1>2, <1>3 DEF shown

\* What deleteRow does: the row goes, with its backup if the loss is signalled.
LEMMA DeleteRowSettles ==
  ASSUME NEW t \in TableType, NEW id \in Ids
  PROVE  LET u == DeleteRow(t, id)
         IN  /\ Settles(t, u)
             /\ u.rows = [t.rows EXCEPT ![id] = NoRow] /\ u.added = t.added
             /\ u.shown = [m \in Models |-> t.shown[m] \ {id}]
             /\ \A i \in Ids : i # id => u.backups[i] = t.backups[i]
             /\ t.rows[id].state \in DraftStates => u.backups[id] = NoRow
             /\ t.rows[id].state = "PendingAdd" => u.backups = t.backups
<1> DEFINE state == t.rows[id].state
           gone  == [t EXCEPT !.rows[id] = NoRow]
           shown == [m \in Models |-> t.shown[m] \ {id}]
           told  == CASE state = "PendingDelete" ->
                            DeleteBackupRow(Emit(gone, "pendingEditSettled", id), id)
                      [] state \in DraftStates ->
                            DeleteBackupRow(Emit(gone, "draftEditInvalidated", id), id)
                      [] OTHER -> gone
           rows  == [t.rows EXCEPT ![id] = NoRow]
<1>1. /\ gone \in TableType /\ gone.rows = rows /\ gone.added = t.added /\ gone.open = t.open
      /\ gone.shown = t.shown /\ gone.backups = t.backups /\ gone.emitted = t.emitted
      /\ gone.pendingEdits = t.pendingEdits
  BY DEF TableType
<1>2. rows[id] = NoRow /\ \A i \in Ids : i # id => rows[i] = t.rows[i]
  BY DEF TableType
<1>3. ASSUME NEW name \in {"draftEditInvalidated", "pendingEditSettled"}
      PROVE  LET u == DeleteBackupRow(Emit(gone, name, id), id)
             IN  /\ Settles(gone, u)
                 /\ u.rows = rows /\ u.added = t.added /\ u.shown = t.shown
                 /\ u.backups = [t.backups EXCEPT ![id] = NoRow]
                 /\ [signal |-> name, id |-> id] \in u.emitted
  <2> DEFINE e == Emit(gone, name, id)
             u == DeleteBackupRow(e, id)
  <2>. HIDE DEF gone, rows
  <2>1. /\ Settles(gone, e) /\ e.rows = rows /\ e.added = t.added /\ e.shown = t.shown
        /\ e.backups = t.backups /\ [signal |-> name, id |-> id] \in e.emitted
    BY <1>1, EmitSettles
  <2>2. e \in TableType
    BY <2>1 DEF Settles, TakesEdits
  <2>. HIDE DEF e
  <2>3. /\ Settles(e, u) /\ u.rows = e.rows /\ u.added = e.added /\ u.shown = e.shown
        /\ u.emitted = e.emitted /\ u.backups = [e.backups EXCEPT ![id] = NoRow]
    BY <2>2, DeleteBackupRowSettles
  <2>. HIDE DEF u
  <2>4. Settles(gone, u)
    BY <1>1, <2>1, <2>3, SettlesTransitive
  <2>. QED  BY <2>1, <2>3, <2>4 DEF u, e
<1>4. /\ Settles(gone, told) /\ told.rows = rows /\ told.added = t.added
      /\ told.shown = t.shown
      /\ \A i \in Ids : i # id => told.backups[i] = t.backups[i]
      /\ state \in DraftStates => told.backups[id] = NoRow /\ Notice(id) \in told.emitted
      /\ state = "PendingAdd" => told.backups = t.backups
  <2>0. \A b \in [Ids -> Row \cup {NoRow}] :
           /\ [b EXCEPT ![id] = NoRow][id] = NoRow
           /\ \A i \in Ids : i # id => [b EXCEPT ![id] = NoRow][i] = b[i]
    OBVIOUS
  <2>1. CASE state = "PendingDelete"
    <3>1. state \notin DraftStates
      BY <2>1 DEF DraftStates
    <3>2. told = DeleteBackupRow(Emit(gone, "pendingEditSettled", id), id)
      BY <2>1, <3>1
    <3>. HIDE DEF told, gone, rows, state
    <3>. QED  BY <1>3, <2>0, <2>1, <3>1, <3>2 DEF TableType
  <2>2. CASE state \in DraftStates
    <3>1. state \notin {"PendingDelete", "PendingAdd"}
      BY <2>2 DEF DraftStates
    <3>2. told = DeleteBackupRow(Emit(gone, "draftEditInvalidated", id), id)
      BY <2>2, <3>1
    <3>. HIDE DEF told, gone, rows, state
    <3>. QED  BY <1>3, <2>0, <2>2, <3>1, <3>2 DEF TableType, Notice
  <2>3. CASE state \notin DraftStates \cup {"PendingDelete"}
    <3>1. told = gone
      BY <2>3
    <3>. HIDE DEF told, gone, rows, state
    <3>. QED  BY <1>1, <2>3, <3>1, SettlesReflexive
  <2>. QED  BY <2>1, <2>2, <2>3
<1>5. Settles(t, told)
  <2>1. NoRow.state \notin DraftStates \cup PendingStates
    BY NoRowFacts
  <2>2. t.emitted \subseteq told.emitted /\ told.open = t.open
    BY <1>1, <1>4 DEF Settles, TakesEdits
  <2>. HIDE DEF told, gone, rows
  <2>3. \A i \in Ids : told.rows[i] # t.rows[i] =>
          /\ told.rows[i].state \notin DraftStates \cup PendingStates
          /\ t.rows[i].state \in DraftStates => Notice(i) \in told.emitted
    BY <1>2, <1>4, <2>1 DEF state
  <2>. QED  BY <1>1, <1>4, <2>2, <2>3 DEF Settles, TakesEdits
<1>6. DeleteRow(t, id) = [told EXCEPT !.shown = shown]
  <2>1. told.shown = t.shown /\ told \in TableType
    BY <1>4 DEF Settles, TakesEdits
  <2>. QED  BY <2>1 DEF DeleteRow, TableType
<1>7. shown \in [Models -> SUBSET Ids] /\ told \in TableType
  BY <1>4 DEF Settles, TakesEdits, TableType
<1> DEFINE u == DeleteRow(t, id)
<1>. HIDE DEF told, gone, rows, state, shown, u
<1>8. /\ Settles(told, u) /\ u.rows = told.rows /\ u.added = told.added
      /\ u.shown = shown /\ u.backups = told.backups
  BY <1>6, <1>7, SetShownSettles DEF u
<1>9. Settles(t, u)
  BY <1>5, <1>8, SettlesTransitive
<1>. QED  BY <1>4, <1>8, <1>9 DEF u, state, shown, rows

\* At most one row of t other than `id` is gone in u, and the views have been told.
AnotherRowGoes(t, u, id) ==
    \/ u.rows = t.rows /\ u.shown = t.shown
    \/ \E j \in Ids \ {id} : /\ u.rows = [t.rows EXCEPT ![j] = NoRow]
                             /\ u.shown = [m \in Models |-> t.shown[m] \ {j}]

\* checkPendingInsertion forgets an addition with its row.  The row the backend has sent is
\* placed by then.
LEMMA CheckPendingInsertionSettles ==
  ASSUME ConstantsFit, NEW t \in TableType, NEW id \in Ids, NEW content,
         t.rows[id].state \notin DraftStates \cup PendingStates, t.rows[id] # NoRow
  PROVE  LET u == CheckPendingInsertion(t, id, content)
         IN  /\ Settles(t, u) /\ u.rows[id] = t.rows[id]
             /\ AnotherRowGoes(t, u, id)
<1> DEFINE matches == MatchingAdditions(t, id, content)
           match   == FirstOf(matches)
           taken   == [t EXCEPT !.added = @ \ {match}]
           dropped == IF match.id # id THEN DeleteRow(taken, match.id) ELSE taken
           told    == Emit(dropped, "pendingEditSettled", match.id)
           u       == DeleteBackupRow(told, match.id)
<1>1. CASE ~(t.pendingEdits /\ matches # {})
  <2>1. CheckPendingInsertion(t, id, content) = t
    BY <1>1 DEF CheckPendingInsertion
  <2>. QED  BY <2>1, SettlesReflexive DEF AnotherRowGoes
<1>2. CASE t.pendingEdits /\ matches # {}
  <2>1. CheckPendingInsertion(t, id, content) = u
    BY <1>2 DEF CheckPendingInsertion
  <2>2. match \in t.added /\ match.id \in Ids
    <3>1. matches \in SUBSET Added /\ matches \subseteq t.added
      BY DEF MatchingAdditions, TableType
    <3>. QED  BY <1>2, <3>1, FirstOfMember DEF Added
  <2>. HIDE DEF match
  <2>3. /\ taken \in TableType /\ taken.rows = t.rows /\ taken.shown = t.shown
        /\ taken.open = t.open /\ taken.backups = t.backups /\ taken.emitted = t.emitted
        /\ taken.added = t.added \ {match} /\ taken.pendingEdits = t.pendingEdits
    BY DEF TableType
  <2>. HIDE DEF taken
  <2>4. /\ Settles(taken, dropped) /\ dropped.rows[id] = t.rows[id] /\ AnotherRowGoes(t, dropped, id)
        /\ match.id # id => dropped.rows[match.id] = NoRow
    <3>1. CASE match.id = id
      BY <2>3, <3>1, SettlesReflexive DEF AnotherRowGoes
    <3>2. CASE match.id # id
      <4>1. /\ Settles(taken, dropped)
            /\ dropped.rows = [t.rows EXCEPT ![match.id] = NoRow]
            /\ dropped.shown = [m \in Models |-> t.shown[m] \ {match.id}]
        BY <2>2, <2>3, <3>2, DeleteRowSettles
      <4>2. dropped.rows[id] = t.rows[id] /\ dropped.rows[match.id] = NoRow
        BY <2>2, <3>2, <4>1 DEF TableType
      <4>. HIDE DEF dropped
      <4>. QED  BY <2>2, <3>2, <4>1, <4>2 DEF AnotherRowGoes
    <3>. QED  BY <3>1, <3>2
  <2>5. Settles(t, dropped)
    <3>. HIDE DEF dropped
    <3>1. \A a \in t.added : a \in dropped.added \/ dropped.rows[a.id].state \notin AddedStates
      <4>1. CASE match.id = id
        BY <2>3, <2>4, <4>1, StateFacts DEF Settles, TakesEdits
      <4>2. CASE match.id # id
        BY <2>3, <2>4, <4>2, StateFacts, NoRowFacts DEF Settles, TakesEdits
      <4>. QED  BY <4>1, <4>2
    <3>. QED  BY <2>3, <2>4, <3>1 DEF Settles, TakesEdits
  <2>. HIDE DEF dropped
  <2>6. /\ Settles(dropped, told) /\ told.rows = dropped.rows /\ told.shown = dropped.shown
        /\ told \in TableType
    <3>1. dropped \in TableType
      BY <2>5 DEF Settles, TakesEdits
    <3>2. /\ Settles(dropped, told) /\ told.rows = dropped.rows /\ told.shown = dropped.shown
      BY <2>2, <3>1, EmitSettles
    <3>. HIDE DEF told
    <3>. QED  BY <3>2 DEF Settles, TakesEdits
  <2>. HIDE DEF told
  <2>7. /\ Settles(told, u) /\ u.rows = told.rows /\ u.shown = told.shown
    BY <2>2, <2>6, DeleteBackupRowSettles
  <2>. HIDE DEF u
  <2>8. Settles(t, u)
    BY <2>5, <2>6, <2>7, SettlesTransitive
  <2>. QED  BY <2>1, <2>4, <2>6, <2>7, <2>8 DEF AnotherRowGoes
<1>. QED  BY <1>1, <1>2

\* placed is the table with the row in its place; t is the table before.
LEMMA CheckOverwrittenEditSettles ==
  ASSUME ConstantsFit, NEW t \in TableType, NEW id \in Ids, NEW content \in Contents,
         t.rows[id].state \notin {"none", "PendingAdd", "Loading"}
  PROVE  LET placed == [t EXCEPT !.rows[id] = [state |-> "Loaded", content |-> content]]
             u      == CheckOverwrittenEdit(placed, id, t.rows[id].state)
         IN  Settles(t, u) /\ u.rows = placed.rows /\ u.shown = t.shown
<1> DEFINE oldState == t.rows[id].state
           placed == [t EXCEPT !.rows[id] = [state |-> "Loaded", content |-> content]]
           rows == [t.rows EXCEPT ![id] = [state |-> "Loaded", content |-> content]]
           mine == {a \in t.added : a.id = id}
           kept == IF oldState = "DraftAdd" /\ mine # {}
                   THEN [placed EXCEPT !.added = @ \ {FirstOf(mine)}] ELSE placed
           name == IF oldState = "PendingEdit" THEN "pendingEditSettled"
                                               ELSE "draftEditInvalidated"
           told == Emit(kept, name, id)
           gone == DeleteBackupRow(told, id)
           u    == CheckOverwrittenEdit(placed, id, oldState)
<1>. SUFFICES Settles(t, u) /\ u.rows = placed.rows /\ u.shown = t.shown
  OBVIOUS
<1>0. [state |-> "Loaded", content |-> content] \in Row
  BY DEF Row, LoadStates
<1>1. /\ placed \in TableType /\ placed.rows = rows /\ placed.added = t.added
      /\ placed.open = t.open /\ placed.shown = t.shown /\ placed.backups = t.backups
      /\ placed.emitted = t.emitted /\ placed.pendingEdits = t.pendingEdits
  BY <1>0 DEF TableType
<1>2. /\ rows[id].state = "Loaded"
      /\ \A i \in Ids : i # id => rows[i] = t.rows[i]
  BY DEF TableType
<1>3. u = IF oldState \in DraftStates \cup {"PendingEdit", "PendingDelete"} THEN gone ELSE placed
  <2>1. placed.added = t.added
    BY <1>1
  <2>. HIDE DEF placed
  <2>. QED  BY <2>1 DEF CheckOverwrittenEdit
<1>. HIDE DEF placed, rows, u
<1>4. /\ kept \in TableType /\ kept.rows = rows
      /\ kept.open = t.open /\ kept.shown = t.shown /\ kept.backups = t.backups
      /\ kept.emitted = t.emitted /\ kept.pendingEdits = t.pendingEdits
      /\ \A a \in t.added : a \in kept.added \/ a.id = id
  <2>1. CASE oldState = "DraftAdd" /\ mine # {}
    <3>1. FirstOf(mine).id = id
      <4>1. mine \in SUBSET Added /\ \A a \in mine : a.id = id
        BY DEF TableType
      <4>. HIDE DEF mine
      <4>. QED  BY <2>1, <4>1, FirstOfMember
    <3>2. kept = [placed EXCEPT !.added = t.added \ {FirstOf(mine)}]
      BY <1>1, <2>1
    <3>. HIDE DEF kept, mine
    <3>. QED  BY <1>1, <3>1, <3>2 DEF TableType
  <2>2. CASE ~(oldState = "DraftAdd" /\ mine # {})
    BY <1>1, <2>2
  <2>. QED  BY <2>1, <2>2
<1>. HIDE DEF kept
<1>5. /\ Settles(kept, told) /\ told.rows = rows /\ told.shown = t.shown
      /\ [signal |-> name, id |-> id] \in told.emitted
  BY <1>4, EmitSettles
<1>6. told \in TableType
  BY <1>5 DEF Settles, TakesEdits
<1>. HIDE DEF told
<1>7. /\ Settles(told, gone) /\ gone.rows = rows /\ gone.shown = t.shown
      /\ gone.emitted = told.emitted
  BY <1>5, <1>6, DeleteBackupRowSettles
<1>. HIDE DEF gone
<1>8. oldState \in DraftStates => Notice(id) \in gone.emitted
  BY <1>5, <1>7 DEF DraftStates, Notice
<1>9. Settles(t, gone)
  <2>1. Settles(kept, gone)
    BY <1>4, <1>5, <1>7, SettlesTransitive
  <2>2. \A i \in Ids : gone.rows[i] # t.rows[i] =>
          /\ gone.rows[i].state \notin DraftStates \cup PendingStates
          /\ t.rows[i].state \in DraftStates => Notice(i) \in gone.emitted
    BY <1>2, <1>7, <1>8, StateFacts
  <2>3. \A a \in t.added : a \in gone.added \/ gone.rows[a.id].state \notin AddedStates
    <3>1. \A a \in t.added : a.id = id => gone.rows[a.id].state \notin AddedStates
      BY <1>2, <1>7, StateFacts
    <3>. QED  BY <1>4, <2>1, <3>1 DEF Settles, TakesEdits
  <2>. QED  BY <1>4, <2>1, <2>2, <2>3 DEF Settles, TakesEdits
<1>10. CASE oldState \in DraftStates \cup {"PendingEdit", "PendingDelete"}
  BY <1>1, <1>3, <1>7, <1>9, <1>10
<1>11. CASE oldState \notin DraftStates \cup {"PendingEdit", "PendingDelete"}
  <2>1. \A i \in Ids : placed.rows[i] # t.rows[i] =>
          /\ placed.rows[i].state \notin DraftStates \cup PendingStates
          /\ t.rows[i].state \in DraftStates => Notice(i) \in placed.emitted
    BY <1>1, <1>2, <1>11, StateFacts
  <2>2. Settles(t, placed)
    BY <1>1, <2>1 DEF Settles, TakesEdits
  <2>. QED  BY <1>1, <1>3, <1>11, <2>2
<1>. QED  BY <1>10, <1>11

\* Placing a row of a reply: the row is loaded, the views are told of it, and if it is one
\* that was added under a draft ID, that one goes.
LEMMA PlaceRowSettles ==
  ASSUME ConstantsFit, NEW t \in TableType, NEW id \in Ids, NEW content \in Contents
  PROVE  /\ Settles(t, PlaceRow(t, id, content))
         /\ ViewsTold(t, {}, 0) => ViewsTold(PlaceRow(t, id, content), {}, 0)
<1> DEFINE row    == [state |-> "Loaded", content |-> content]
           placed == [t EXCEPT !.rows[id] = row]
           edited == IF t.rows[id].state \in {"none", "PendingAdd", "Loading"}
                     THEN CheckPendingInsertion(placed, id, content)
                     ELSE CheckOverwrittenEdit(placed, id, t.rows[id].state)
           rows   == [t.rows EXCEPT ![id] = row]
           u      == PlaceRow(t, id, content)
<1>0. row \in Row /\ row.state \notin DraftStates \cup PendingStates
  BY StateFacts DEF Row, LoadStates
<1>1. rows[id] = row /\ \A i \in Ids : i # id => rows[i] = t.rows[i]
  BY DEF TableType
<1>. HIDE DEF row
<1>2. /\ Settles(t, edited) /\ edited.rows[id] = row
      /\ \/ edited.rows = rows /\ edited.shown = t.shown
         \/ \E j \in Ids \ {id} : /\ edited.rows = [rows EXCEPT ![j] = NoRow]
                                  /\ edited.shown = [m \in Models |-> t.shown[m] \ {j}]
  <2>1. CASE t.rows[id].state \in {"none", "PendingAdd", "Loading"}
    <3>1. t.rows[id].state \notin DraftStates
      BY <2>1 DEF DraftStates
    <3>2. /\ Settles(t, placed) /\ placed.rows = rows /\ placed.shown = t.shown
      BY <1>0, <3>1, SetRowSettles
    <3>3. placed \in TableType /\ placed.rows[id] = row
      BY <1>1, <3>2 DEF Settles, TakesEdits
    <3>. HIDE DEF placed, rows
    <3>6. placed.rows[id].state \notin DraftStates \cup PendingStates /\ placed.rows[id] # NoRow
      BY <1>0, <3>3, NoRowFacts
    <3>4. LET w == CheckPendingInsertion(placed, id, content)
          IN  /\ Settles(placed, w) /\ w.rows[id] = placed.rows[id]
              /\ AnotherRowGoes(placed, w, id)
      BY <3>3, <3>6, CheckPendingInsertionSettles
    <3>5. edited = CheckPendingInsertion(placed, id, content)
      BY <2>1
    <3>. HIDE DEF edited
    <3>7. Settles(placed, edited) /\ edited.rows[id] = row /\ AnotherRowGoes(placed, edited, id)
      BY <3>3, <3>4, <3>5
    <3>8. Settles(t, edited)
      BY <3>2, <3>7, SettlesTransitive
    <3>. QED  BY <3>2, <3>7, <3>8 DEF AnotherRowGoes
  <2>2. CASE t.rows[id].state \notin {"none", "PendingAdd", "Loading"}
    <3>1. edited = CheckOverwrittenEdit(placed, id, t.rows[id].state)
      BY <2>2
    <3>2. placed.rows = rows
      BY DEF TableType
    <3>. HIDE DEF edited, rows
    <3>3. /\ Settles(t, edited) /\ edited.rows = placed.rows /\ edited.shown = t.shown
      BY <2>2, <3>1, CheckOverwrittenEditSettles DEF row
    <3>. QED  BY <1>1, <3>2, <3>3
  <2>. QED  BY <2>1, <2>2
<1>3. u = UpdateModels(edited, {id})
  BY DEF PlaceRow, row
<1>. HIDE DEF edited, rows, u
<1>4. edited \in TableType /\ edited.open = t.open
  BY <1>2 DEF Settles, TakesEdits
<1>5. /\ Settles(edited, u) /\ u.rows = edited.rows
      /\ u.shown = [m \in Models |-> IF m \in edited.open THEN edited.shown[m] \cup {id}
                                                          ELSE edited.shown[m]]
  BY <1>3, <1>4, UpdateModelsSettles
<1>6. Settles(t, u)
  BY <1>2, <1>5, SettlesTransitive
<1>7. ASSUME ViewsTold(t, {}, 0)  PROVE ViewsTold(u, {}, 0)
  <2>1. u.open = t.open /\ u \in TableType
    BY <1>6 DEF Settles, TakesEdits
  <2>2. \A i \in Ids : ~(i <= 0)
    BY IdsPositive
  <2>3. \A m \in t.open : m \in Models
    BY DEF TableType
  <2>4. PICK D \in SUBSET (Ids \ {id}) :
          /\ \A i \in Ids : u.rows[i] = IF i = id THEN row ELSE IF i \in D THEN NoRow ELSE t.rows[i]
          /\ \A m \in t.open : u.shown[m] = (t.shown[m] \ D) \cup {id}
    <3>1. CASE edited.rows = rows /\ edited.shown = t.shown
      <4>1. /\ \A i \in Ids : u.rows[i] = IF i = id THEN row ELSE IF i \in {} THEN NoRow ELSE t.rows[i]
            /\ \A m \in t.open : u.shown[m] = (t.shown[m] \ {}) \cup {id}
        BY <1>1, <1>4, <1>5, <2>3, <3>1
      <4>. QED  BY <4>1
    <3>2. ASSUME NEW j \in Ids \ {id}, edited.rows = [rows EXCEPT ![j] = NoRow],
                 edited.shown = [m \in Models |-> t.shown[m] \ {j}]
          PROVE  \E D \in SUBSET (Ids \ {id}) :
                   /\ \A i \in Ids : u.rows[i] = IF i = id THEN row ELSE IF i \in D THEN NoRow ELSE t.rows[i]
                   /\ \A m \in t.open : u.shown[m] = (t.shown[m] \ D) \cup {id}
      <4>1. rows \in [Ids -> Row \cup {NoRow}]
        BY <1>0 DEF rows, TableType
      <4>2. /\ \A i \in Ids : u.rows[i] = IF i = id THEN row ELSE IF i \in {j} THEN NoRow ELSE t.rows[i]
            /\ \A m \in t.open : u.shown[m] = (t.shown[m] \ {j}) \cup {id}
        BY <1>1, <1>4, <1>5, <2>3, <3>2, <4>1
      <4>. QED  BY <4>2
    <3>. QED  BY <1>2, <3>1, <3>2
  <2>. QED  BY <1>0, <1>7, <2>1, <2>2, <2>4, NoRowFacts DEF ViewsTold, Present, Hidden
<1>. QED  BY <1>6, <1>7 DEF u

LEMMA QuietSettles ==
  ASSUME NEW t \in TableType
  PROVE  LET u == Quiet(t)
         IN  /\ u \in TableType /\ u.rows = t.rows /\ u.backups = t.backups
             /\ u.added = t.added /\ u.pendingEdits = t.pendingEdits
             /\ u.open = t.open /\ u.shown = t.shown
  BY DEF Quiet, TableType

\* With no reset under way nothing is hidden but what is waited for.
LEMMA HiddenAtRest ==
  ASSUME ConstantsFit, NEW t, NEW i \in Ids
  PROVE  Hidden(t, i, 0) <=> /\ t.rows[i].content = Blank
                             /\ t.rows[i].state \in {"Loading", "Stale"}
  BY IdsPositive DEF Hidden

LEMMA ViewsQuiet ==
  ASSUME NEW t \in TableType, ViewsTold(t, {}, 0)
  PROVE  ViewsTold(Quiet(t), {}, 0)
  BY QuietSettles DEF ViewsTold, Present, Hidden

LEMMA ViewsOfSameRows ==
  ASSUME ConstantsFit, NEW t \in TableType, NEW u, u.open = t.open, u.shown = t.shown,
         \A i \in Ids : u.rows[i] = NoRow => t.rows[i] = NoRow,
         \A i \in Ids : t.rows[i] = NoRow \/ Hidden(t, i, 0) => u.rows[i] = NoRow \/ Hidden(u, i, 0),
         ViewsTold(t, {}, 0)
  PROVE  ViewsTold(u, {}, 0)
<1>1. Present(t) \subseteq Present(u)
  BY DEF Present
<1>2. ASSUME NEW m \in t.open, NEW i \in Present(u) \ t.shown[m]
      PROVE  Hidden(u, i, 0)
  <2>1. t.rows[i] = NoRow \/ Hidden(t, i, 0)
    BY <1>2 DEF ViewsTold, Present
  <2>. QED  BY <1>2, <2>1 DEF Present
<1>. QED  BY <1>1, <1>2, IdsPositive DEF ViewsTold

\* The models have been told of every row that is another one now.
LEMMA ViewsOfTold ==
  ASSUME ConstantsFit, NEW t \in TableType, NEW u, u.open = t.open, NEW ids \in SUBSET Ids,
         \A m \in t.open : u.shown[m] = t.shown[m] \cup ids,
         \A i \in ids : u.rows[i] # NoRow,
         \A i \in Ids \ ids : u.rows[i] = t.rows[i],
         ViewsTold(t, {}, 0)
  PROVE  ViewsTold(u, {}, 0)
<1>1. Present(u) = Present(t) \cup ids
  BY DEF Present
<1>2. ASSUME NEW i \in Ids \ ids, Hidden(t, i, 0)  PROVE Hidden(u, i, 0)
  BY <1>2, HiddenAtRest
<1>3. ASSUME NEW m \in t.open, NEW i \in Present(u) \ u.shown[m]
      PROVE  Hidden(u, i, 0)
  <2>1. i \in Ids \ ids /\ i \in Present(t) \ t.shown[m]
    BY <1>1, <1>3 DEF Present
  <2>. QED  BY <1>2, <2>1 DEF ViewsTold
<1>4. \A m \in t.open : u.shown[m] \subseteq Present(u)
  BY <1>1 DEF ViewsTold
<1>5. \A i \in Ids : ~ i <= 0
  BY IdsPositive
<1>. QED  BY <1>3, <1>4, <1>5 DEF ViewsTold

LEMMA DeleteRowViews ==
  ASSUME ConstantsFit, NEW t \in TableType, NEW id \in Ids, ViewsTold(t, {}, 0)
  PROVE  ViewsTold(DeleteRow(t, id), {}, 0)
<1> DEFINE u == DeleteRow(t, id)
<1>1. /\ Settles(t, u) /\ u.rows = [t.rows EXCEPT ![id] = NoRow]
      /\ u.shown = [m \in Models |-> t.shown[m] \ {id}]
  BY DeleteRowSettles
<1>. HIDE DEF u
<1>2. u.open = t.open /\ t.open \subseteq Models
  BY <1>1 DEF Settles, TakesEdits, TableType
<1>3. Present(u) = Present(t) \ {id} /\ \A i \in Ids \ {id} : u.rows[i] = t.rows[i]
  BY <1>1 DEF Present, TableType
<1>4. \A m \in t.open : u.shown[m] = t.shown[m] \ {id}
  BY <1>1, <1>2
<1>5. ASSUME NEW m \in t.open, NEW i \in Present(u) \ u.shown[m]
      PROVE  Hidden(u, i, 0)
  <2>1. i \in Ids \ {id} /\ i \in Present(t) \ t.shown[m]
    BY <1>3, <1>4, <1>5 DEF Present
  <2>2. Hidden(t, i, 0)
    BY <2>1 DEF ViewsTold
  <2>. QED  BY <1>3, <2>1, <2>2, HiddenAtRest
<1>6. ViewsTold(u, {}, 0)
  BY <1>2, <1>3, <1>4, <1>5, IdsPositive DEF ViewsTold
<1>. QED  BY <1>6 DEF u

\* markStale signals a draft it throws away.  A draft is shown, so what it is put back to may
\* stay unknown to no view.
LEMMA MarkedStaleSettles ==
  ASSUME ConstantsFit, NEW t \in TableType, NEW id \in Ids
  PROVE  /\ Settles(Quiet(t), MarkedStale(t, id))
         /\ ViewsTold(t, {}, 0) => ViewsTold(MarkedStale(t, id), {}, 0)
<1> DEFINE q     == Quiet(t)
           state == t.rows[id].state
           bak   == t.backups[id]
           used  == IF state \in DraftStates /\ bak # NoRow THEN bak ELSE t.rows[id]
           row   == [used EXCEPT !.state = "Stale"]
           told  == IF state \in DraftStates
                    THEN DeleteBackupRow(Emit(q, "draftEditInvalidated", id), id) ELSE q
           stale == [told EXCEPT !.rows[id] = row]
<1>1. /\ q \in TableType /\ q.rows = t.rows /\ q.backups = t.backups
      /\ q.added = t.added /\ q.pendingEdits = t.pendingEdits
      /\ q.open = t.open /\ q.shown = t.shown
  BY QuietSettles
<1>2. CASE state \in {"none", "PendingEdit", "PendingDelete"}
  <2>1. MarkedStale(t, id) = q
    BY <1>2 DEF MarkedStale
  <2>. HIDE DEF q
  <2>2. Settles(q, q)
    BY <1>1, SettlesReflexive
  <2>. QED  BY <2>1, <2>2, ViewsQuiet DEF q
<1>3. CASE state \notin {"none", "PendingEdit", "PendingDelete"}
  <2>1. /\ used \in Row /\ row \in Row
        /\ row.state \notin DraftStates \cup PendingStates
        /\ row.content = used.content /\ row # NoRow
    BY <1>3, NoRowFacts, StateFacts DEF TableType, Row, LoadStates
  <2>2. /\ Settles(q, told) /\ told.rows = t.rows /\ told.shown = t.shown
        /\ state \in DraftStates => Notice(id) \in told.emitted
    <3>1. CASE state \in DraftStates
      <4> DEFINE e == Emit(q, "draftEditInvalidated", id)
      <4>. HIDE DEF q
      <4>1. /\ Settles(q, e) /\ e.rows = t.rows /\ e.shown = t.shown /\ Notice(id) \in e.emitted
        BY <1>1, EmitSettles DEF Notice
      <4>2. e \in TableType
        BY <4>1 DEF Settles, TakesEdits
      <4>. HIDE DEF e
      <4>3. /\ Settles(e, DeleteBackupRow(e, id))
            /\ DeleteBackupRow(e, id).rows = e.rows
            /\ DeleteBackupRow(e, id).shown = e.shown
            /\ DeleteBackupRow(e, id).emitted = e.emitted
        BY <4>2, DeleteBackupRowSettles
      <4>4. told = DeleteBackupRow(e, id)
        BY <3>1 DEF e
      <4>. HIDE DEF told
      <4>. QED  BY <1>1, <4>1, <4>3, <4>4, SettlesTransitive
    <3>2. CASE state \notin DraftStates
      <4>1. told = q
        BY <3>2
      <4>. HIDE DEF told, q
      <4>. QED  BY <1>1, <3>2, <4>1, SettlesReflexive
    <3>. QED  BY <3>1, <3>2
  <2>3. MarkedStale(t, id) = stale
    <3> DEFINE base == IF bak = NoRow THEN q ELSE [q EXCEPT !.rows[id] = bak]
               lost == DeleteBackupRow(Emit(base, "draftEditInvalidated", id), id)
    <3>1. CASE state \in DraftStates
      <4>1. MarkedStale(t, id) = [lost EXCEPT !.rows[id].state = "Stale"]
        BY <1>3, <3>1 DEF MarkedStale
      <4> DEFINE e == q.emitted \cup {Notice(id)}
                 b == [q.backups EXCEPT ![id] = NoRow]
                 p == q.pendingEdits /\ \E i \in Ids : b[i] # NoRow
      <4>. HIDE DEF q, used
      <4>2. base = [q EXCEPT !.rows = [q.rows EXCEPT ![id] = used]]
        BY <1>1, <3>1 DEF used, TableType
      <4>3. lost = [q EXCEPT !.rows = [q.rows EXCEPT ![id] = used], !.emitted = e,
                             !.backups = b, !.pendingEdits = p]
        BY <1>1, <4>2 DEF DeleteBackupRow, Emit, Notice, TableType
      <4>4. told = [q EXCEPT !.emitted = e, !.backups = b, !.pendingEdits = p]
        BY <1>1, <3>1 DEF DeleteBackupRow, Emit, Notice, TableType
      <4>5. told.rows = q.rows
        BY <1>1, <4>4 DEF TableType
      <4>. HIDE DEF told, lost, e, b, p
      <4>6. stale = [q EXCEPT !.rows = [q.rows EXCEPT ![id] = row], !.emitted = e,
                              !.backups = b, !.pendingEdits = p]
        BY <1>1, <4>4, <4>5 DEF TableType
      <4>7. lost.rows = [q.rows EXCEPT ![id] = used] /\ lost.rows[id] = used
        BY <1>1, <4>3 DEF TableType
      <4>8. [lost.rows EXCEPT ![id] = row] = [q.rows EXCEPT ![id] = row]
        BY <1>1, <4>7 DEF TableType
      <4>9. [lost EXCEPT !.rows[id].state = "Stale"] = [lost EXCEPT !.rows = [lost.rows EXCEPT ![id] = row]]
        BY <4>7
      <4>10. ASSUME NEW x, NEW y
             PROVE  [[q EXCEPT !.rows = x, !.emitted = e, !.backups = b, !.pendingEdits = p]
                       EXCEPT !.rows = y]
                    = [q EXCEPT !.rows = y, !.emitted = e, !.backups = b, !.pendingEdits = p]
        BY <1>1 DEF TableType
      <4>11. [lost EXCEPT !.rows = [q.rows EXCEPT ![id] = row]] = stale
        BY <4>3, <4>6, <4>10
      <4>. HIDE DEF stale
      <4>. QED  BY <4>1, <4>8, <4>9, <4>11
    <3>2. CASE state \notin DraftStates
      <4>1. MarkedStale(t, id) = [q EXCEPT !.rows[id].state = "Stale"]
        BY <1>3, <3>2 DEF MarkedStale
      <4>2. q.rows[id] = used /\ told = q
        BY <1>1, <3>2
      <4>. HIDE DEF q, used, told
      <4>. QED  BY <4>1, <4>2
    <3>. QED  BY <3>1, <3>2
  <2>4. told \in TableType
    BY <2>2 DEF Settles, TakesEdits
  <2>. HIDE DEF told, row, q
  <2>5. /\ Settles(told, stale) /\ stale.rows = [told.rows EXCEPT ![id] = row]
        /\ stale.shown = told.shown
    BY <2>1, <2>2, <2>4, SetRowSettles
  <2>. HIDE DEF stale
  <2>6. Settles(q, stale)
    BY <1>1, <2>2, <2>5, SettlesTransitive
  <2>7. ASSUME ViewsTold(t, {}, 0)  PROVE ViewsTold(stale, {}, 0)
    <3>1. /\ stale.open = t.open /\ stale.shown = t.shown
          /\ stale.rows[id] = row /\ \A i \in Ids : i # id => stale.rows[i] = t.rows[i]
      BY <1>1, <2>2, <2>5, <2>6 DEF Settles, TakesEdits, TableType
    <3>2. \A i \in Ids : stale.rows[i] = NoRow => t.rows[i] = NoRow
      BY <2>1, <3>1
    <3>3. ASSUME NEW i \in Ids, t.rows[i] = NoRow \/ Hidden(t, i, 0)
          PROVE  stale.rows[i] = NoRow \/ Hidden(stale, i, 0)
      <4>1. CASE i # id
        BY <3>1, <3>3, <4>1, HiddenAtRest
      <4>2. CASE i = id
        <5>1. t.rows[id].content = Blank /\ state \in {"Loading", "Stale"}
          BY <1>3, <3>3, <4>2, NoRowFacts, HiddenAtRest
        <5>2. used = t.rows[id]
          BY <5>1, StateFacts
        <5>3. stale.rows[id].content = Blank /\ stale.rows[id].state = "Stale"
          BY <2>1, <3>1, <5>1, <5>2 DEF row, Row
        <5>. QED  BY <4>2, <5>3, HiddenAtRest
      <4>. QED  BY <4>1, <4>2
    <3>. QED  BY <2>7, <3>1, <3>2, <3>3, ViewsOfSameRows
  <2>. QED  BY <2>3, <2>6, <2>7 DEF q
<1>. QED  BY <1>2, <1>3

(***************************************************************************)
(* The loop of resetEdits as a whole.                                      *)
(***************************************************************************)

\* A turn of the loop leaves a table a table, whatever it was.
LEMMA ResetOneTyped ==
  ASSUME ConstantsFit, NEW t \in TableType, NEW id \in Ids, t.backups[id] # NoRow
  PROVE  ResetOne(t, id) \in TableType
<1> DEFINE gone == DeleteRow(t, id)
           u    == ResetOne(t, id)
<1>1. ASSUME NEW b \in TableType, NEW victim \in Ids
      PROVE  [b EXCEPT !.backups[victim] = NoRow] \in TableType
  BY DEF TableType
<1>2. gone \in TableType
  BY DeleteRowSettles DEF Settles, TakesEdits
<1>3. SUFFICES u \in TableType
  OBVIOUS
<1>4. CASE t.rows[id] = NoRow
  <2>1. u = RemoveAtIndex(t, id)
    BY <1>4, NoRowFacts DEF ResetOne
  <2>. HIDE DEF u
  <2>. QED  BY <1>1, <2>1 DEF RemoveAtIndex
<1>5. CASE t.rows[id] # NoRow /\ t.rows[id].state \in {"DraftAdd", "PendingAdd"}
  <2>1. \/ u = gone
        \/ ~IndexOutOfRange(gone, id) /\ u = RemoveAtIndex(gone, id)
    BY <1>5 DEF ResetOne, RunsOut
  <2>. HIDE DEF gone, u
  <2> DEFINE victim == IF gone.backups[id] # NoRow THEN id ELSE Min(BackupsAfter(gone, id))
  <2>2. ASSUME ~IndexOutOfRange(gone, id)  PROVE victim \in Ids
    <3>1. CASE gone.backups[id] # NoRow
      BY <3>1
    <3>2. CASE gone.backups[id] = NoRow
      <4>1. BackupsAfter(gone, id) \in SUBSET Nat /\ BackupsAfter(gone, id) # {}
        BY <2>2, <3>2, IdsPositive DEF BackupsAfter, Backups, IndexOutOfRange
      <4>2. Min(BackupsAfter(gone, id)) \in BackupsAfter(gone, id)
        BY <4>1, LeastOfNat
      <4>. QED  BY <3>2, <4>2 DEF BackupsAfter, Backups
    <3>. QED  BY <3>1, <3>2
  <2>3. RemoveAtIndex(gone, id) = [gone EXCEPT !.backups[victim] = NoRow]
    BY DEF RemoveAtIndex
  <2>. HIDE DEF victim
  <2>. QED  BY <1>1, <1>2, <2>1, <2>2, <2>3
<1>6. CASE t.rows[id] # NoRow /\ t.rows[id].state \notin {"DraftAdd", "PendingAdd"}
  <2> DEFINE bak  == t.backups[id]
             used == IF t.rows[id].state \in {"DraftEdit", "PendingEdit"}
                     THEN bak.content ELSE t.rows[id].content
             row  == [state |-> bak.state, content |-> used]
  <2>1. u = RevertRow(t, id)
    BY <1>6 DEF ResetOne
  <2>2. row \in Row
    BY <1>6 DEF TableType, Row
  <2>3. [t.rows EXCEPT ![id] = row] =
          [t.rows EXCEPT ![id] = [[@ EXCEPT !.state = bak.state] EXCEPT !.content = used]]
    BY <1>6 DEF TableType, Row
  <2>4. RevertRow(t, id) = [t EXCEPT !.rows = [t.rows EXCEPT ![id] = row]]
    BY <2>3 DEF RevertRow, TableType, Row
  <2>. HIDE DEF u, row
  <2>. QED  BY <2>1, <2>2, <2>4 DEF TableType
<1>. QED  BY <1>4, <1>5, <1>6

\* Where there are no IDs in between, it does not matter up to where the loop has come.
LEMMA ResetAdvancesIdle ==
  ASSUME ConstantsFit, NEW t, NEW after \in Nat, Consistent(t, after), NEW n \in Nat,
         \A i \in Ids : i <= n <=> i <= after
  PROVE  Consistent(t, n)
<1>1. \A i \in Ids : i > n <=> i > after
  BY IdsPositive
<1>. QED  BY <1>1 DEF Consistent

LEMMA ResetTurnConsistent ==
  ASSUME ConstantsFit, NEW r, NEW id \in Ids, Consistent(r.table, id - 1)
  PROVE  Consistent(ResetTurn(r, id).table, id)
<1>1. id \in Nat /\ id - 1 \in Nat /\ id > id - 1 /\ id >= id - 1
      /\ \A i \in Ids : /\ i < id => i <= id - 1
                        /\ i <= id => i = id \/ i <= id - 1
  BY IdsPositive
<1>2. \A i \in Ids : i < id => r.table.rows[i].state \notin PendingStates
  BY <1>1 DEF Consistent
<1>3. CASE r.table.backups[id] = NoRow
  <2>1. r.table.rows[id].state \notin PendingStates
    BY <1>3 DEF Consistent
  <2>2. \A i \in Ids : i <= id => r.table.rows[i].state \notin PendingStates
    BY <1>1, <2>1 DEF Consistent
  <2>3. Consistent(r.table, id)
    BY <1>1, <2>2, ResetAdvances
  <2>. QED  BY <1>3, <2>3 DEF ResetTurn
<1>4. CASE r.table.backups[id] # NoRow
  <2>1. Consistent(ResetOne(r.table, id), id)
    BY <1>1, <1>2, <1>4, ResetOneConsistent
  <2>. QED  BY <1>4, <2>1 DEF ResetTurn
<1>. QED  BY <1>3, <1>4

\* The loop, turn by turn: the greatest ID comes last.
LEMMA ResetLoopTurns ==
  ASSUME ConstantsFit, NEW t \in TableType
  PROVE  \E f : /\ ResetLoop(t) = f[Ids]
                /\ f[{}] = [table |-> t, out |-> FALSE]
                /\ \A s \in (SUBSET Ids) \ {{}} :
                      /\ f[s] = ResetTurn(f[s \ {Max(s)}], Max(s))
                      /\ Max(s) \in s /\ \A i \in s : i <= Max(s)
<1> DEFINE V    == [table : TableType, out : BOOLEAN]
           base == [table |-> t, out |-> FALSE]
           pick == [s \in SUBSET Ids |-> Max(s)]
           step == [p \in Ids \X V |-> ResetTurn(p[2], p[1])]
           body(g, s) == IF s = {} THEN base ELSE ResetTurn(g[s \ {Max(s)}], Max(s))
           f    == CHOOSE g : g = [s \in SUBSET Ids |-> body(g, s)]
<1>1. ResetLoop(t) = f[Ids]
  BY DEF ResetLoop, MapThenFoldSet
<1>2. base \in V
  OBVIOUS
<1>3. ASSUME NEW s \in (SUBSET Ids) \ {{}}
      PROVE  Max(s) \in s /\ \A i \in s : i <= Max(s)
  <2>1. IsFiniteSet(s) /\ s \in SUBSET Nat
    BY FS_Subset, IdsPositive
  <2>. QED  BY <2>1, GreatestOfFinite
<1>4. ASSUME NEW id \in Ids, NEW r \in V  PROVE ResetTurn(r, id) \in V
  BY ResetOneTyped DEF ResetTurn, RunsOut
<1>5. step \in [Ids \X V -> V]
  BY <1>4
<1>6. PICK F \in [SUBSET Ids -> V] : IsFold(F, Ids, base, pick, step)
  <2>1. Picks(pick, Ids)
    BY <1>3 DEF Picks
  <2>2. IsFiniteSet(Ids)
    BY IdsPositive
  <2>. HIDE DEF step, pick, base, V
  <2>. QED  BY <1>2, <1>5, <2>1, <2>2, FoldDefined
<1>7. ASSUME NEW s \in SUBSET Ids  PROVE F[s] = body(F, s)
  <2>1. CASE s = {}
    BY <1>6, <2>1 DEF IsFold
  <2>2. CASE s # {}
    <3>1. Max(s) \in Ids /\ F[s \ {Max(s)}] \in V
      BY <1>3, <2>2
    <3>2. step[<<Max(s), F[s \ {Max(s)}]>>] = ResetTurn(F[s \ {Max(s)}], Max(s))
      <4>. HIDE DEF V
      <4>. QED  BY <3>1
    <3>. HIDE DEF step, V, base
    <3>. QED  BY <1>6, <2>2, <3>2 DEF IsFold
  <2>. QED  BY <2>1, <2>2
<1>8. \E g : g = [s \in SUBSET Ids |-> body(g, s)]
  <2>1. F = [s \in SUBSET Ids |-> body(F, s)]
    <3>. HIDE DEF body
    <3>. QED  BY <1>7
  <2>. QED  BY <2>1
<1>9. f = [s \in SUBSET Ids |-> body(f, s)]
  <2>. HIDE DEF body
  <2>. QED  BY <1>8
<1>. HIDE DEF f
<1>10. \A s \in SUBSET Ids : f[s] = body(f, s)
  <2>. HIDE DEF body
  <2>. QED  BY <1>9
<1>11. f[{}] = base /\ \A s \in (SUBSET Ids) \ {{}} : f[s] = ResetTurn(f[s \ {Max(s)}], Max(s))
  BY <1>10
<1>12. ResetLoop(t) = f[Ids]
  BY <1>1 DEF f
<1>. QED  BY <1>3, <1>11, <1>12

\* At the end of the loop no row is pending.
LEMMA ResetLoopConsistent ==
  ASSUME ConstantsFit, NEW t, Consistent(t, 0)
  PROVE  /\ \E after \in Nat : Consistent(ResetLoop(t).table, after)
         /\ \A i \in Ids : ResetLoop(t).table.rows[i].state \notin PendingStates
<1>1. PICK f : /\ ResetLoop(t) = f[Ids]
               /\ f[{}] = [table |-> t, out |-> FALSE]
               /\ \A s \in (SUBSET Ids) \ {{}} :
                     /\ f[s] = ResetTurn(f[s \ {Max(s)}], Max(s))
                     /\ Max(s) \in s /\ \A i \in s : i <= Max(s)
  BY ResetLoopTurns DEF Consistent
<1> DEFINE Reset(s) == \A n \in Nat : s = {i \in Ids : i <= n} => Consistent(f[s].table, n)
           W == {s \in SUBSET Ids : Reset(s)}
<1>2. {} \in W
  <2>1. f[{}].table = t
    BY <1>1
  <2>2. ASSUME NEW n \in Nat, {} = {i \in Ids : i <= n}  PROVE Consistent(t, n)
    <3>1. \A i \in Ids : i <= n <=> i <= 0
      BY <2>2, IdsPositive
    <3>. QED  BY <3>1, ResetAdvancesIdle
  <2>. QED  BY <2>1, <2>2
<1>3. ASSUME NEW s \in (SUBSET Ids) \ {{}}
       PROVE  \E x \in s : s \ {x} \in W => s \in W
  <2> DEFINE x == Max(s)
  <2>1. x \in s /\ \A i \in s : i <= x
    BY <1>1
  <2>2. f[s] = ResetTurn(f[s \ {x}], x)
    BY <1>1
  <2>. HIDE DEF x
  <2>3. ASSUME s \ {x} \in W, NEW n \in Nat, s = {i \in Ids : i <= n}
        PROVE  Consistent(f[s].table, n)
    <3>1. x \in Ids /\ x \in Nat /\ x - 1 \in Nat
      BY <2>1, IdsPositive
    <3>2. s \ {x} = {i \in Ids : i <= x - 1}
      <4>1. \A i \in Ids : i <= n /\ i # x <=> i <= x - 1
        BY <2>1, <2>3, <3>1, IdsPositive
      <4>. QED  BY <2>3, <4>1
    <3>3. Consistent(f[s \ {x}].table, x - 1)
      BY <2>3, <3>1, <3>2
    <3>4. Consistent(f[s].table, x)
      BY <2>2, <3>1, <3>3, ResetTurnConsistent
    <3>5. \A i \in Ids : i <= n <=> i <= x
      BY <2>1, <2>3, <3>1, IdsPositive
    <3>. QED  BY <3>1, <3>4, <3>5, ResetAdvancesIdle
  <2>4. s \ {x} \in W => s \in W
    BY <2>3
  <2>. QED  BY <2>1, <2>4
<1>4. Reset(Ids)
  <2>1. Ids \in W
    <3>. HIDE DEF W
    <3>. QED  BY <1>2, <1>3, IdsPositive, SubsetInduction
  <2>. HIDE DEF Reset
  <2>. QED  BY <2>1
<1>5. PICK n \in Nat : \A i \in Ids : i <= n
  <2>1. CASE Ids = {}
    BY <2>1
  <2>2. CASE Ids # {}
    <3>1. Max(Ids) \in Ids /\ \A i \in Ids : i <= Max(Ids)
      BY <1>1, <2>2
    <3>. QED  BY <3>1, IdsPositive
  <2>. QED  BY <2>1, <2>2
<1>6. Consistent(f[Ids].table, n)
  <2>1. Ids = {i \in Ids : i <= n}
    BY <1>5
  <2>. QED  BY <1>4, <2>1
<1>7. Consistent(ResetLoop(t).table, n)
  BY <1>1, <1>6
<1>. QED  BY <1>5, <1>7 DEF Consistent

(***************************************************************************)
(* What the handlers make of a table at rest, for those who have many of   *)
(* them: it stays whole, and what of its rows, backups and additions may   *)
(* be other ones.  A whole table is consistent, every row it holds has a   *)
(* content, and additions with IDs of the table's own have draft IDs.      *)
(***************************************************************************)
Filled(t) == \A i \in Ids : /\ t.rows[i] # NoRow => t.rows[i].content \in Contents
                            /\ t.backups[i] # NoRow => t.backups[i].content \in Contents

Whole(t) ==
    /\ Consistent(t, 0)
    /\ Filled(t)
    /\ NumericIds => \A a \in t.added : a.id \in DraftIds

FreshRows == [state : {"Loaded"}, content : Contents] \cup {NoRow}

\* A table that has only been read.
LEMMA FreshWhole ==
  ASSUME NEW u \in TableType, \A i \in Ids : u.rows[i] \in FreshRows,
         \A i \in Ids : u.backups[i] = NoRow, u.added = {}, ~u.pendingEdits
  PROVE  Whole(u) /\ Backups(u) = {}
<1>1. \A i \in Ids : /\ u.rows[i].state \notin PendingStates
                     /\ u.rows[i] # NoRow => u.rows[i].content \in Contents
  <2>1. \A r \in FreshRows : /\ r.state \notin PendingStates
                             /\ r # NoRow => r.content \in Contents
    BY NoRowFacts, StateFacts DEF FreshRows
  <2>. QED  BY <2>1
<1>2. Consistent(u, 0)
  BY <1>1, NoRowFacts DEF Consistent
<1>. QED  BY <1>1, <1>2 DEF Whole, Filled, Backups

LEMMA NewTableWhole == Whole(NewTable) /\ Backups(NewTable) = {}
<1>1. NewTable \in TableType
  BY DEF NewTable, TableType
<1>2. /\ \A i \in Ids : NewTable.rows[i] \in FreshRows /\ NewTable.backups[i] = NoRow
      /\ NewTable.added = {} /\ ~NewTable.pendingEdits
  BY DEF NewTable, FreshRows
<1>. QED  BY <1>1, <1>2, FreshWhole

LEMMA QuietWhole ==
  ASSUME NEW t, Whole(t)
  PROVE  /\ Whole(Quiet(t))
         /\ Quiet(t).rows = t.rows /\ Quiet(t).backups = t.backups /\ Quiet(t).added = t.added
<1>1. /\ Consistent(Quiet(t), 0)
      /\ Quiet(t).rows = t.rows /\ Quiet(t).backups = t.backups /\ Quiet(t).added = t.added
  BY QuietConsistent DEF Whole
<1>. QED  BY <1>1 DEF Whole, Filled

\* If the backups and additions that are left were there, and the rows have a content, a
\* consistent table is whole.
LEMMA WholeFrom ==
  ASSUME NEW t, Whole(t), NEW u, Consistent(u, 0),
         \A i \in Ids : u.rows[i] \in {t.rows[i], NoRow} \/ u.rows[i].content \in Contents,
         \A i \in Ids : u.backups[i] \in {t.backups[i], NoRow}
                        \/ u.backups[i].content \in Contents,
         NumericIds => \A a \in u.added : a \in t.added \/ a.id \in DraftIds
  PROVE  Whole(u)
<1>1. Filled(u)
  BY DEF Filled, Whole
<1>. QED  BY <1>1 DEF Whole

(***************************************************************************)
(* What the backend brings                                                 *)
(***************************************************************************)
LEMMA LoadedWhole ==
  ASSUME NEW t, Whole(t), NEW id \in Ids, NEW content \in Contents
  PROVE  LET u == [t EXCEPT !.rows[id] = [state |-> "Loaded", content |-> content]]
         IN  /\ Whole(u) /\ u.backups = t.backups /\ u.added = t.added
             /\ \A i \in Ids \ {id} : u.rows[i] = t.rows[i]
<1> DEFINE row == [state |-> "Loaded", content |-> content]
           u   == [t EXCEPT !.rows[id] = row]
<1>1. /\ row \in Row /\ row.state \notin PendingStates \cup DraftStates
      /\ row.content \in Contents
  BY StateFacts DEF Row, LoadStates
<1>. HIDE DEF row
<1>2. /\ Consistent(u, 0) /\ u.rows = [t.rows EXCEPT ![id] = row] /\ u.rows[id] = row
      /\ u.backups = t.backups /\ u.added = t.added
  BY <1>1, SetRowConsistent DEF Whole
<1>3. \A i \in Ids \ {id} : u.rows[i] = t.rows[i]
  BY <1>2
<1>. HIDE DEF u
<1>4. Whole(u)
  BY <1>1, <1>2, <1>3, WholeFrom
<1>. QED  BY <1>2, <1>3, <1>4 DEF u, row

Settled(i) == [signal |-> "pendingEditSettled", id |-> i]

\* checkPendingInsertion takes one addition off the list, and its row if it is another one
\* than the one that has come, and signals it.
TakesAddition(t, u, id) ==
    \/ u.added = t.added /\ \A i \in Ids \ {id} : u.rows[i] = t.rows[i]
    \/ \E a \in t.added : /\ u.added = t.added \ {a}
                          /\ Settled(a.id) \in u.emitted
                          /\ \A i \in Ids \ {id, a.id} : u.rows[i] = t.rows[i]

LEMMA CheckPendingInsertionTakes ==
  ASSUME ConstantsFit, NEW t \in TableType, NEW id \in Ids, NEW content
  PROVE  TakesAddition(t, CheckPendingInsertion(t, id, content), id)
<1> DEFINE matches == MatchingAdditions(t, id, content)
           match   == FirstOf(matches)
           taken   == [t EXCEPT !.added = @ \ {match}]
           dropped == IF match.id # id THEN DeleteRow(taken, match.id) ELSE taken
           told    == Emit(dropped, "pendingEditSettled", match.id)
           u       == DeleteBackupRow(told, match.id)
<1>1. CASE ~(t.pendingEdits /\ matches # {})
  BY <1>1 DEF CheckPendingInsertion, TakesAddition
<1>2. CASE t.pendingEdits /\ matches # {}
  <2>1. CheckPendingInsertion(t, id, content) = u
    BY <1>2 DEF CheckPendingInsertion
  <2>2. match \in t.added /\ match.id \in Ids
    <3>1. matches \in SUBSET Added /\ matches \subseteq t.added
      BY DEF MatchingAdditions, TableType
    <3>. QED  BY <1>2, <3>1, FirstOfMember DEF Added
  <2>. HIDE DEF match
  <2>3. taken \in TableType /\ taken.rows = t.rows /\ taken.added = t.added \ {match}
    BY DEF TableType
  <2>. HIDE DEF taken
  <2>4. /\ dropped \in TableType /\ dropped.added = t.added \ {match}
        /\ \A i \in Ids \ {match.id} : dropped.rows[i] = t.rows[i]
    <3>1. CASE match.id = id
      BY <2>3, <3>1
    <3>2. CASE match.id # id
      <4>1. /\ DeleteRow(taken, match.id) \in TableType
            /\ DeleteRow(taken, match.id).rows = [t.rows EXCEPT ![match.id] = NoRow]
            /\ DeleteRow(taken, match.id).added = t.added \ {match}
        <5>1. LET w == DeleteRow(taken, match.id)
              IN  /\ Settles(taken, w)
                  /\ w.rows = [taken.rows EXCEPT ![match.id] = NoRow] /\ w.added = taken.added
          BY <2>2, <2>3, DeleteRowSettles
        <5>. QED  BY <2>3, <5>1 DEF Settles
      <4>2. dropped = DeleteRow(taken, match.id)
        BY <3>2
      <4>. HIDE DEF dropped
      <4>. QED  BY <2>2, <4>1, <4>2 DEF TableType
    <3>. QED  BY <3>1, <3>2
  <2>. HIDE DEF dropped
  <2>5. /\ told \in TableType /\ told.rows = dropped.rows /\ told.added = dropped.added
        /\ Settled(match.id) \in told.emitted
    BY <2>2, <2>4 DEF Emit, TableType, Signals, Settled
  <2>. HIDE DEF told
  <2>6. u.rows = told.rows /\ u.added = told.added /\ u.emitted = told.emitted
    BY <2>5 DEF DeleteBackupRow, TableType
  <2>. HIDE DEF u
  <2>. QED  BY <2>1, <2>2, <2>4, <2>5, <2>6 DEF TakesAddition
<1>. QED  BY <1>1, <1>2

\* In a numeric table the backend's row is in nobody's place: no draft is overwritten by an
\* addition's row.
LEMMA CheckOverwrittenEditTakes ==
  ASSUME NEW t \in TableType, NEW id \in Ids, NEW oldState,
         \A a \in t.added : a.id # id
  PROVE  LET u == CheckOverwrittenEdit(t, id, oldState)
         IN  u.added = t.added /\ u.rows = t.rows
<1> DEFINE mine == {a \in t.added : a.id = id}
           name == IF oldState = "PendingEdit" THEN "pendingEditSettled"
                                               ELSE "draftEditInvalidated"
<1>1. mine = {}
  OBVIOUS
<1>2. \/ CheckOverwrittenEdit(t, id, oldState) = t
      \/ CheckOverwrittenEdit(t, id, oldState) = DeleteBackupRow(Emit(t, name, id), id)
  BY <1>1 DEF CheckOverwrittenEdit
<1>3. LET u == DeleteBackupRow(Emit(t, name, id), id) IN u.added = t.added /\ u.rows = t.rows
  <2>. HIDE DEF name
  <2>. QED  BY DEF DeleteBackupRow, Emit, TableType
<1>. QED  BY <1>2, <1>3

LEMMA PlaceRowWhole ==
  ASSUME ConstantsFit, NEW t, Whole(t), NEW id \in BackendIds, NEW content \in Contents
  PROVE  LET u == PlaceRow(t, id, content)
         IN  /\ Whole(u)
             /\ \A i \in Ids : u.backups[i] \in {t.backups[i], NoRow}
             /\ NumericIds => TakesAddition(t, u, id)
<1> DEFINE row    == [state |-> "Loaded", content |-> content]
           placed == [t EXCEPT !.rows[id] = row]
           edited == IF t.rows[id].state \in {"none", "PendingAdd", "Loading"}
                     THEN CheckPendingInsertion(placed, id, content)
                     ELSE CheckOverwrittenEdit(placed, id, t.rows[id].state)
           u      == PlaceRow(t, id, content)
<1>1. t \in TableType /\ id \in Ids
  BY IdsPositive DEF Whole, Consistent
<1>2. /\ placed \in TableType /\ placed.added = t.added
      /\ \A i \in Ids \ {id} : placed.rows[i] = t.rows[i]
  BY <1>1, LoadedWhole DEF Whole, Consistent
<1>3. u = UpdateModels(edited, {id})
  BY DEF PlaceRow
<1>4. Settles(t, u)
  BY <1>1, PlaceRowSettles
<1>5. Consistent(u, 0)
  BY <1>1, PlaceRowConsistent DEF Whole
<1>. HIDE DEF u
<1>6. ASSUME NumericIds  PROVE TakesAddition(t, edited, id)
  <2>1. \A a \in t.added : a.id # id
    <3>1. \A d \in DraftIds : d # id
      BY <1>6 DEF ConstantsFit
    <3>. QED  BY <1>6, <3>1 DEF Whole
  <2>. HIDE DEF placed
  <2>2. CASE t.rows[id].state \in {"none", "PendingAdd", "Loading"}
    <3>1. TakesAddition(placed, edited, id)
      BY <1>1, <1>2, <2>2, CheckPendingInsertionTakes
    <3>. HIDE DEF edited
    <3>. QED  BY <1>2, <3>1 DEF TakesAddition
  <2>3. CASE t.rows[id].state \notin {"none", "PendingAdd", "Loading"}
    <3>1. edited.added = placed.added /\ edited.rows = placed.rows
      BY <1>1, <1>2, <2>1, <2>3, CheckOverwrittenEditTakes
    <3>. HIDE DEF edited
    <3>. QED  BY <1>2, <3>1 DEF TakesAddition
  <2>. QED  BY <2>2, <2>3
<1>7. /\ Consistent(edited, 0)
      /\ \A i \in Ids : edited.rows[i] \in {placed.rows[i], NoRow}
  <2>1. row \in Row /\ row.state \notin PendingStates \cup DraftStates
    BY StateFacts DEF Row, LoadStates
  <2>2. /\ Consistent(placed, 0) /\ placed.rows[id] = row
        /\ placed.rows[id].state \notin PendingStates
    <3>. HIDE DEF row
    <3>. QED  BY <1>1, <2>1, SetRowConsistent DEF Whole
  <2>3. Consistent(edited, 0)
    <3>. HIDE DEF placed
    <3>. QED  BY <1>1, <2>2, CheckPendingInsertionConsistent, CheckOverwrittenEditConsistent
  <2>4. CASE t.rows[id].state \in {"none", "PendingAdd", "Loading"}
    <3>1. placed.rows[id].state \notin DraftStates \cup PendingStates /\ placed.rows[id] # NoRow
      <4>. HIDE DEF row
      <4>. QED  BY <2>1, <2>2, NoRowFacts
    <3>. HIDE DEF placed
    <3>2. AnotherRowGoes(placed, edited, id)
      BY <1>1, <1>2, <2>4, <3>1, CheckPendingInsertionSettles
    <3>. HIDE DEF edited
    <3>. QED  BY <1>2, <2>3, <3>2 DEF AnotherRowGoes, TableType
  <2>5. CASE t.rows[id].state \notin {"none", "PendingAdd", "Loading"}
    <3>1. edited = CheckOverwrittenEdit(placed, id, t.rows[id].state)
      BY <2>5
    <3>2. edited.rows = placed.rows
      <4>. HIDE DEF edited
      <4>. QED  BY <1>1, <2>5, <3>1, CheckOverwrittenEditSettles
    <3>. QED  BY <2>3, <3>2
  <2>. QED  BY <2>4, <2>5
<1>. HIDE DEF edited
<1>8. u.rows = edited.rows /\ u.added = edited.added /\ u.emitted = edited.emitted
  BY <1>3, <1>7 DEF UpdateModels, Consistent, TableType
<1>9. placed.rows[id].content \in Contents
  BY <1>1 DEF TableType
<1>. HIDE DEF placed
<1>10. \A i \in Ids : u.backups[i] \in {t.backups[i], NoRow}
  BY <1>4 DEF Settles, TakesEdits
<1>11. \A i \in Ids : u.rows[i] \in {t.rows[i], NoRow} \/ u.rows[i].content \in Contents
  BY <1>2, <1>7, <1>8, <1>9
<1>12. NumericIds => TakesAddition(t, u, id)
  BY <1>6, <1>8 DEF TakesAddition
<1>13. NumericIds => \A a \in u.added : a \in t.added
  BY <1>12 DEF TakesAddition
<1>14. Whole(u)
  BY <1>5, <1>10, <1>11, <1>13, WholeFrom
<1>. QED  BY <1>10, <1>12, <1>14 DEF u

LEMMA DeleteRowWhole ==
  ASSUME NEW t, Whole(t), NEW id \in Ids
  PROVE  LET u == DeleteRow(t, id)
         IN  /\ Whole(u) /\ u.added = t.added
             /\ \A i \in Ids : u.backups[i] \in {t.backups[i], NoRow}
             /\ \A i \in Ids \ {id} : u.rows[i] = t.rows[i]
<1> DEFINE u == DeleteRow(t, id)
<1>1. Consistent(u, 0) /\ u.rows = [t.rows EXCEPT ![id] = NoRow] /\ u.added = t.added
  BY DeleteRowConsistent DEF Whole
<1>2. t \in TableType
  BY DEF Whole, Consistent
<1>3. Settles(t, u)
  BY <1>2, DeleteRowSettles
<1>. HIDE DEF u
<1>4. /\ \A i \in Ids : u.backups[i] \in {t.backups[i], NoRow}
      /\ \A i \in Ids \ {id} : u.rows[i] = t.rows[i]
      /\ u.rows[id] = NoRow
  BY <1>1, <1>2, <1>3 DEF Settles, TakesEdits, TableType
<1>5. Whole(u)
  BY <1>1, <1>4, WholeFrom
<1>. QED  BY <1>1, <1>4, <1>5 DEF u

LEMMA MarkedStaleWhole ==
  ASSUME ConstantsFit, NEW t, Whole(t), NEW id \in Ids
  PROVE  LET u == MarkedStale(t, id)
         IN  /\ Whole(u) /\ u.added = t.added
             /\ \A i \in Ids : u.backups[i] \in {t.backups[i], NoRow}
             /\ \A i \in Ids : t.rows[i] # NoRow => u.rows[i] # NoRow
<1> DEFINE q     == Quiet(t)
           state == t.rows[id].state
           bak   == t.backups[id]
           used  == IF bak = NoRow THEN q ELSE [q EXCEPT !.rows[id] = bak]
           noted == Emit(used, "draftEditInvalidated", id)
           told  == IF state \in DraftStates THEN DeleteBackupRow(noted, id) ELSE q
           stale == [told EXCEPT !.rows[id].state = "Stale"]
           u     == MarkedStale(t, id)
<1>1. /\ t \in TableType /\ q \in TableType
      /\ q.rows = t.rows /\ q.backups = t.backups /\ q.added = t.added
  BY QuietWhole DEF Whole, Consistent
<1>2. Consistent(u, 0) /\ \A i \in Ids : u.backups[i] \in {t.backups[i], NoRow}
  <2>1. Consistent(u, 0) /\ Settles(q, u)
    BY <1>1, MarkedStaleConsistent, MarkedStaleSettles DEF Whole
  <2>. QED  BY <1>1, <2>1 DEF Settles, TakesEdits
<1>3. u = IF state \in {"none", "PendingEdit", "PendingDelete"} THEN q ELSE stale
  BY DEF MarkedStale
<1>. HIDE DEF q, u
<1>4. /\ used \in TableType /\ used.added = t.added
      /\ \A i \in Ids \ {id} : used.rows[i] = t.rows[i]
      /\ used.rows[id] = IF bak = NoRow THEN t.rows[id] ELSE bak
  BY <1>1 DEF TableType
<1>. HIDE DEF used
<1>5. /\ noted \in TableType /\ noted.added = t.added /\ noted.rows = used.rows
  BY <1>4 DEF Emit, TableType, Signals
<1>. HIDE DEF noted
<1>6. LET gone == DeleteBackupRow(noted, id)
      IN  gone.rows = used.rows /\ gone.added = t.added /\ gone \in TableType
  BY <1>5 DEF DeleteBackupRow, TableType
<1>7. /\ told \in TableType /\ told.added = t.added
      /\ \A i \in Ids \ {id} : told.rows[i] = t.rows[i]
      /\ told.rows[id] \in {t.rows[id], bak}
      /\ told.rows[id] = NoRow => t.rows[id] = NoRow
  BY <1>1, <1>4, <1>6
<1>. HIDE DEF told
<1>8. CASE state \in {"none", "PendingEdit", "PendingDelete"}
  <2>1. u.rows = t.rows /\ u.added = t.added
    BY <1>1, <1>3, <1>8
  <2>2. Whole(u)
    BY <1>2, <2>1, WholeFrom
  <2>. QED  BY <1>2, <2>1, <2>2 DEF u
<1>9. CASE state \notin {"none", "PendingEdit", "PendingDelete"}
  <2>1. t.rows[id] # NoRow
    BY <1>9, NoRowFacts
  <2>2. /\ u.added = t.added
        /\ \A i \in Ids \ {id} : u.rows[i] = t.rows[i]
        /\ u.rows[id].state = "Stale" /\ u.rows[id].content = told.rows[id].content
    BY <1>3, <1>7, <1>9, <2>1 DEF TableType, Row
  <2>3. told.rows[id].content \in Contents
    BY <1>7, <2>1 DEF Whole, Filled
  <2>4. Whole(u)
    BY <1>2, <2>2, <2>3, WholeFrom
  <2>5. \A i \in Ids : t.rows[i] # NoRow => u.rows[i] # NoRow
    BY <2>2, NoRowFacts
  <2>. QED  BY <1>2, <2>2, <2>4, <2>5 DEF u
<1>. QED  BY <1>8, <1>9

(***************************************************************************)
(* What the user and the controller do                                     *)
(***************************************************************************)
LEMMA DraftAddedWhole ==
  ASSUME NEW t, Whole(t), ~t.pendingEdits, NEW id \in Ids, NumericIds => id \in DraftIds,
         NEW content \in Contents
  PROVE  LET u == DraftAdded(t, id, content)
         IN  Whole(u) /\ \A i \in Ids : t.rows[i] # NoRow => u.rows[i] # NoRow
<1> DEFINE row  == [state |-> "DraftAdd", content |-> content]
           new  == [id |-> id, content |-> content]
           with == [Quiet(t) EXCEPT !.rows[id] = row, !.added = @ \cup {new}]
           u    == DraftAdded(t, id, content)
<1>1. Consistent(u, 0)
  BY DraftAddedConsistent DEF Whole
<1>2. row \in Row /\ row.content \in Contents /\ new \in Added /\ new.id = id
  BY DEF Row, LoadStates, DraftStates, Added
<1>3. u = UpdateModels(SaveBackup(with, id, row), {id})
  BY DEF DraftAdded
<1>4. t \in TableType
  BY DEF Whole, Consistent
<1>. HIDE DEF u, row, new
<1>5. /\ with \in TableType /\ with.backups = t.backups /\ with.added = t.added \cup {new}
      /\ with.rows[id] = row /\ \A i \in Ids \ {id} : with.rows[i] = t.rows[i]
  BY <1>2, <1>4 DEF Quiet, TableType
<1>. HIDE DEF with
<1>6. /\ u.rows = with.rows /\ u.added = with.added
      /\ \A i \in Ids : u.backups[i] \in {t.backups[i], row}
  BY <1>2, <1>3, <1>5 DEF UpdateModels, SaveBackup, TableType
<1>7. Whole(u)
  BY <1>1, <1>2, <1>5, <1>6, WholeFrom
<1>8. row # NoRow
  BY <1>2, NoRowFacts
<1>. QED  BY <1>5, <1>6, <1>7, <1>8 DEF u

LEMMA DraftEditedWhole ==
  ASSUME NEW t, Whole(t), ~t.pendingEdits, NEW id \in Ids, CanBeEdited(t, id),
         NEW content \in Contents
  PROVE  LET u == DraftEdited(t, id, content)
         IN  Whole(u) /\ \A i \in Ids : t.rows[i] # NoRow => u.rows[i] # NoRow
<1> DEFINE old   == t.rows[id]
           kept  == SaveBackup(t, id, old)
           saved == CASE old.state = "DraftEdit" -> t
                      [] old.state = "DraftAdd" -> EditAddition(t, id, content)
                      [] OTHER -> [kept EXCEPT !.rows[id].state = "DraftEdit"]
           final == [Quiet(saved) EXCEPT !.rows[id].content = content]
           u     == DraftEdited(t, id, content)
<1>1. Consistent(u, 0)
  BY DraftEditedConsistent DEF Whole
<1>2. u = UpdateModels(final, {id})
  BY DEF DraftEdited
<1>3. t \in TableType /\ old \in Row
  BY DEF Whole, Consistent, CanBeEdited, TableType
<1>. HIDE DEF u
<1>4. /\ kept \in TableType /\ kept.rows = t.rows /\ kept.added = t.added
      /\ \A i \in Ids : kept.backups[i] \in {t.backups[i], NoRow} \/ kept.backups[i] = t.rows[i]
  BY <1>3 DEF SaveBackup, TableType
<1>. HIDE DEF kept
<1>5. LET edited == EditAddition(t, id, content)
      IN  /\ edited \in TableType /\ edited.rows = t.rows /\ edited.backups = t.backups
          /\ \A a \in edited.added : \E b \in t.added : a.id = b.id
  <2> DEFINE mine  == {a \in t.added : a.id = id}
             added == (t.added \ {FirstOf(mine)}) \cup {[id |-> id, content |-> content]}
  <2>1. EditAddition(t, id, content) = IF mine = {} THEN t ELSE [t EXCEPT !.added = added]
    BY DEF EditAddition
  <2>2. added \in SUBSET Added
    BY <1>3 DEF TableType, Added
  <2>3. mine # {} => \A a \in added : \E b \in t.added : a.id = b.id
    OBVIOUS
  <2>. HIDE DEF mine, added
  <2>. QED  BY <1>3, <2>1, <2>2, <2>3 DEF TableType
<1>6. LET draft == [kept EXCEPT !.rows[id].state = "DraftEdit"]
      IN  /\ draft \in TableType /\ draft.backups = kept.backups /\ draft.added = t.added
          /\ draft.rows[id] \in Row /\ \A i \in Ids \ {id} : draft.rows[i] = t.rows[i]
  BY <1>3, <1>4 DEF TableType, Row, LoadStates, DraftStates
<1>7. /\ saved \in TableType /\ saved.rows[id] \in Row
      /\ \A i \in Ids \ {id} : saved.rows[i] = t.rows[i]
      /\ \A i \in Ids : saved.backups[i] \in {t.backups[i], NoRow, t.rows[i]}
      /\ \A a \in saved.added : \E b \in t.added : a.id = b.id
  <2>1. CASE old.state = "DraftEdit"
    BY <1>3, <2>1
  <2>2. CASE old.state = "DraftAdd"
    BY <1>3, <1>5, <2>2
  <2>3. CASE old.state \notin {"DraftEdit", "DraftAdd"}
    BY <1>3, <1>4, <1>6, <2>3
  <2>. QED  BY <2>1, <2>2, <2>3
<1>. HIDE DEF saved
<1>8. /\ final \in TableType
      /\ final.rows[id].content = content /\ final.rows[id] \in Row
      /\ \A i \in Ids \ {id} : final.rows[i] = t.rows[i]
      /\ final.backups = saved.backups /\ final.added = saved.added
  <2>1. /\ Quiet(saved) \in TableType /\ Quiet(saved).rows = saved.rows
        /\ Quiet(saved).backups = saved.backups /\ Quiet(saved).added = saved.added
    BY <1>7 DEF Quiet, TableType
  <2>. QED  BY <1>7, <2>1 DEF TableType, Row
<1>. HIDE DEF final
<1>9. u.rows = final.rows /\ u.backups = final.backups /\ u.added = final.added
  BY <1>2, <1>8 DEF UpdateModels, TableType
<1>10. Whole(u)
  <2>1. \A i \in Ids : u.rows[i] = t.rows[i] \/ u.rows[i].content \in Contents
    BY <1>8, <1>9
  <2>2. \A i \in Ids : u.backups[i] \in {t.backups[i], NoRow} \/ u.backups[i].content \in Contents
    BY <1>7, <1>8, <1>9 DEF Whole, Filled
  <2>3. NumericIds => \A a \in u.added : a.id \in DraftIds
    BY <1>7, <1>8, <1>9 DEF Whole
  <2>. QED  BY <1>1, <2>1, <2>2, <2>3, WholeFrom
<1>. QED  BY <1>8, <1>9, <1>10, NoRowFacts DEF u

LEMMA DraftDeletedWhole ==
  ASSUME NEW table, Whole(table), ~table.pendingEdits, NEW id \in Ids,
         table.rows[id] # NoRow
  PROVE  Whole(DraftDeleted(table, id))
<1> DEFINE t    == Quiet(table)
           left == [t EXCEPT !.added = {a \in @ : a.id # id}]
           gone == DeleteRow(left, id)
           kept == SaveBackup(t, id, t.rows[id])
           mark == [kept EXCEPT !.rows[id].state = "DraftDelete"]
           u    == DraftDeleted(table, id)
<1>1. Whole(t) /\ t \in TableType /\ t.rows = table.rows
  BY QuietWhole DEF Whole, Consistent
<1>2. Consistent(u, 0)
  BY DraftDeletedConsistent DEF Whole
<1>3. u = IF t.rows[id].state = "DraftAdd" THEN DeleteBackupRow(gone, id)
                                           ELSE UpdateModels(mark, {id})
  BY DEF DraftDeleted
<1>. HIDE DEF t, u
<1>4. SUFFICES Whole(u)
  BY DEF u
<1>5. CASE t.rows[id].state = "DraftAdd"
  <2>1. /\ left \in TableType /\ left.rows = t.rows /\ left.backups = t.backups
        /\ left.added \subseteq t.added
    BY <1>1 DEF TableType
  <2>. HIDE DEF left
  <2>2. Settles(left, gone) /\ gone.rows = [left.rows EXCEPT ![id] = NoRow] /\ gone.added = left.added
    BY <2>1, DeleteRowSettles
  <2>. HIDE DEF gone
  <2>3. /\ gone \in TableType /\ gone.added \subseteq t.added
        /\ \A i \in Ids : gone.rows[i] \in {t.rows[i], NoRow}
        /\ \A i \in Ids : gone.backups[i] \in {t.backups[i], NoRow}
    BY <2>1, <2>2 DEF Settles, TakesEdits, TableType
  <2>4. /\ u.rows = gone.rows /\ u.added = gone.added
        /\ \A i \in Ids : u.backups[i] \in {gone.backups[i], NoRow}
    BY <1>3, <1>5, <2>3 DEF DeleteBackupRow, TableType
  <2>. QED  BY <1>1, <1>2, <2>3, <2>4, WholeFrom
<1>6. CASE t.rows[id].state # "DraftAdd"
  <2>1. /\ kept \in TableType /\ kept.rows = t.rows /\ kept.added = t.added
        /\ \A i \in Ids : kept.backups[i] \in {t.backups[i], NoRow, t.rows[i]}
    BY <1>1 DEF SaveBackup, TableType
  <2>. HIDE DEF kept
  <2>2. /\ mark \in TableType /\ mark.added = t.added /\ mark.backups = kept.backups
        /\ \A i \in Ids : mark.rows[i].content = t.rows[i].content
        /\ \A i \in Ids \ {id} : mark.rows[i] = t.rows[i]
    <3>1. t.rows[id] \in Row
      BY <1>1 DEF TableType
    <3>2. /\ mark.rows = [t.rows EXCEPT ![id] = [t.rows[id] EXCEPT !.state = "DraftDelete"]]
          /\ mark.added = kept.added /\ mark.backups = kept.backups /\ mark \in TableType
      BY <2>1, <3>1 DEF TableType, Row, LoadStates, DraftStates
    <3>. HIDE DEF mark
    <3>. QED  BY <1>1, <2>1, <3>1, <3>2 DEF TableType, Row
  <2>. HIDE DEF mark
  <2>3. u.rows = mark.rows /\ u.added = mark.added /\ u.backups = mark.backups
    BY <1>3, <1>6, <2>2 DEF UpdateModels, TableType
  <2>4. \A i \in Ids : u.rows[i] = t.rows[i] \/ u.rows[i].content \in Contents
    BY <1>1, <2>2, <2>3 DEF Whole, Filled
  <2>5. \A i \in Ids : u.backups[i] \in {t.backups[i], NoRow} \/ u.backups[i].content \in Contents
    BY <1>1, <2>1, <2>2, <2>3 DEF Whole, Filled
  <2>. QED  BY <1>1, <1>2, <2>2, <2>3, <2>4, <2>5, WholeFrom
<1>. QED  BY <1>5, <1>6

LEMMA MarkedPendingWhole ==
  ASSUME ConstantsFit, NEW t, Whole(t)
  PROVE  LET u == MarkedPending(t)
         IN  /\ Whole(u) /\ u.backups = t.backups /\ u.added = t.added
             /\ \A i \in Ids : t.rows[i] # NoRow => u.rows[i] # NoRow
<1> DEFINE edited == Backups(t) \cap Present(t)
           rows   == [i \in Ids |->
                        IF i \in edited
                        THEN [t.rows[i] EXCEPT !.state = PendingOf(t.rows[i].state)]
                        ELSE t.rows[i]]
           marked == [Quiet(t) EXCEPT !.rows = rows, !.pendingEdits = @ \/ Backups(t) # {}]
           u      == MarkedPending(t)
<1>1. Consistent(u, 0)
  BY MarkedPendingConsistent DEF Whole
<1>2. u = UpdateModels(marked, edited)
  BY DEF MarkedPending
<1>3. t \in TableType
  BY DEF Whole, Consistent
<1>. HIDE DEF u
<1>4. ASSUME NEW i \in Ids
      PROVE  /\ rows[i] \in Row \cup {NoRow} /\ rows[i].content = t.rows[i].content
             /\ t.rows[i] = NoRow => rows[i] = NoRow
             /\ t.rows[i] # NoRow => rows[i] # NoRow
  <2>1. CASE i \in edited
    <3>1. t.rows[i] \in Row
      BY <1>3, <2>1 DEF TableType, Present
    <3>2. PendingOf(t.rows[i].state) \in LoadStates
      BY <3>1 DEF PendingOf, Row, LoadStates, DraftStates, PendingStates
    <3>3. rows[i] = [t.rows[i] EXCEPT !.state = PendingOf(t.rows[i].state)]
      BY <2>1
    <3>4. rows[i] \in Row /\ rows[i].content = t.rows[i].content
      <4>. HIDE DEF rows
      <4>. QED  BY <3>1, <3>2, <3>3 DEF Row
    <3>. HIDE DEF rows
    <3>. QED  BY <3>1, <3>4, NoRowFacts
  <2>2. CASE i \notin edited
    <3>1. rows[i] = t.rows[i]
      BY <2>2
    <3>. HIDE DEF rows
    <3>. QED  BY <1>3, <3>1 DEF TableType
  <2>. QED  BY <2>1, <2>2
<1>5. rows \in [Ids -> Row \cup {NoRow}]
  BY <1>4
<1>. HIDE DEF rows, edited
<1>6. marked \in TableType /\ marked.rows = rows /\ marked.backups = t.backups /\ marked.added = t.added
  BY <1>3, <1>5 DEF Quiet, TableType
<1>. HIDE DEF marked
<1>7. u.rows = rows /\ u.backups = t.backups /\ u.added = t.added
  BY <1>2, <1>6 DEF UpdateModels, TableType
<1>8. \A i \in Ids : u.rows[i] \in {t.rows[i], NoRow} \/ u.rows[i].content \in Contents
  BY <1>4, <1>7 DEF Whole, Filled
<1>9. Whole(u)
  BY <1>1, <1>7, <1>8, WholeFrom
<1>. QED  BY <1>4, <1>7, <1>9 DEF u

LEMMA ResetOneFilled ==
  ASSUME NEW t \in TableType, Filled(t), NEW id \in Ids, t.backups[id] # NoRow
  PROVE  Filled(ResetOne(t, id))
<1> DEFINE gone == DeleteRow(t, id)
           u    == ResetOne(t, id)
<1>1. ASSUME NEW b \in TableType, Filled(b), NEW victim
      PROVE  Filled([b EXCEPT !.backups[victim] = NoRow])
  BY <1>1 DEF TableType, Filled
<1>2. gone \in TableType /\ Filled(gone)
  <2>1. Settles(t, gone) /\ gone.rows = [t.rows EXCEPT ![id] = NoRow]
    BY DeleteRowSettles
  <2>. HIDE DEF gone
  <2>. QED  BY <2>1 DEF Settles, TakesEdits, TableType, Filled
<1>3. SUFFICES Filled(u)
  OBVIOUS
<1>4. CASE t.rows[id] = NoRow
  <2>1. u = RemoveAtIndex(t, id)
    BY <1>4, NoRowFacts DEF ResetOne
  <2>. HIDE DEF u
  <2>. QED  BY <1>1, <2>1 DEF RemoveAtIndex
<1>5. CASE t.rows[id] # NoRow /\ t.rows[id].state \in {"DraftAdd", "PendingAdd"}
  <2>1. u = gone \/ u = RemoveAtIndex(gone, id)
    BY <1>5 DEF ResetOne
  <2>. HIDE DEF gone, u
  <2>. QED  BY <1>1, <1>2, <2>1 DEF RemoveAtIndex
<1>6. CASE t.rows[id] # NoRow /\ t.rows[id].state \notin {"DraftAdd", "PendingAdd"}
  <2> DEFINE bak  == t.backups[id]
             used == IF t.rows[id].state \in {"DraftEdit", "PendingEdit"}
                     THEN bak.content ELSE t.rows[id].content
             row  == [[t.rows[id] EXCEPT !.state = bak.state] EXCEPT !.content = used]
  <2>1. u = RevertRow(t, id)
    BY <1>6 DEF ResetOne
  <2>2. row.content = used /\ used \in Contents
    BY <1>6 DEF TableType, Row, Filled
  <2>3. RevertRow(t, id) = [t EXCEPT !.rows = [t.rows EXCEPT ![id] = row]]
    BY <1>6 DEF RevertRow, TableType, Row
  <2>. HIDE DEF u, row
  <2>. QED  BY <2>1, <2>2, <2>3 DEF TableType, Filled
<1>. QED  BY <1>4, <1>5, <1>6

\* After resetEdits nothing is pending, no backup is left and no addition is noted: whatever
\* the loop has dropped by mistake or restored on its way.
LEMMA EditsUndoneWhole ==
  ASSUME ConstantsFit, NEW t, Whole(t)
  PROVE  LET u == EditsUndone(t)
         IN  Whole(u) /\ Backups(u) = {} /\ Pending(u) = {}
<1> DEFINE loop == ResetLoop(t).table
           u    == EditsUndone(t)
<1>1. /\ t \in TableType /\ Filled(t)
  BY DEF Whole, Consistent
<1>2. PICK f : /\ ResetLoop(t) = f[Ids]
               /\ f[{}] = [table |-> t, out |-> FALSE]
               /\ \A s \in (SUBSET Ids) \ {{}} :
                     /\ f[s] = ResetTurn(f[s \ {Max(s)}], Max(s))
                     /\ Max(s) \in s /\ \A i \in s : i <= Max(s)
  BY <1>1, ResetLoopTurns
<1> DEFINE W == {s \in SUBSET Ids : f[s].table \in TableType /\ Filled(f[s].table)}
<1>3. {} \in W
  <2>1. f[{}].table = t
    BY <1>2
  <2>. QED  BY <1>1, <2>1
<1>4. ASSUME NEW s \in (SUBSET Ids) \ {{}}
      PROVE  \E x \in s : s \ {x} \in W => s \in W
  <2> DEFINE x == Max(s)
             r == f[s \ {x}]
  <2>1. x \in s /\ x \in Ids /\ f[s] = ResetTurn(r, x)
    BY <1>2
  <2>. HIDE DEF x
  <2>2. ASSUME r.table \in TableType, Filled(r.table)
        PROVE  ResetTurn(r, x).table \in TableType /\ Filled(ResetTurn(r, x).table)
    <3>. HIDE DEF r
    <3>1. CASE r.table.backups[x] = NoRow
      BY <2>2, <3>1 DEF ResetTurn
    <3>2. CASE r.table.backups[x] # NoRow
      <4>1. ResetTurn(r, x).table = ResetOne(r.table, x)
        BY <3>2 DEF ResetTurn
      <4>2. ResetOne(r.table, x) \in TableType /\ Filled(ResetOne(r.table, x))
        BY <2>1, <2>2, <3>2, ResetOneTyped, ResetOneFilled
      <4>. QED  BY <4>1, <4>2
    <3>. QED  BY <3>1, <3>2
  <2>. QED  BY <2>1, <2>2
<1>5. Ids \in W
  <2>. HIDE DEF W
  <2>. QED  BY <1>3, <1>4, IdsPositive, SubsetInduction
<1>6. loop \in TableType /\ Filled(loop)
  BY <1>2, <1>5
<1>7. /\ \E after \in Nat : Consistent(loop, after)
      /\ \A i \in Ids : loop.rows[i].state \notin PendingStates
  BY ResetLoopConsistent DEF Whole
<1>8. u = EditsDropped(loop)
  BY DEF EditsUndone
<1>. HIDE DEF loop, u
<1>9. /\ Consistent(u, 0) /\ u.rows = loop.rows /\ u.added = {}
      /\ \A i \in Ids : u.backups[i] = NoRow
  BY <1>7, <1>8, EditsDroppedConsistent
<1>10. Whole(u)
  BY <1>6, <1>9 DEF Whole, Filled
<1>11. Backups(u) = {} /\ Pending(u) = {}
  BY <1>7, <1>9 DEF Backups, Pending
<1>. QED  BY <1>10, <1>11 DEF u
=============================================================================
