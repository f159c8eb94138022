-------------------------- MODULE MCAbstractTable --------------------------
(***************************************************************************)
(* AbstractTable for model checking.  Contents, slots and models are model *)
(* values that the specification never tells apart.                        *)
(***************************************************************************)
EXTENDS AbstractTable, TLC
Symmetric == Permutations(Contents) \cup Permutations(Slots) \cup Permutations(Models)
SymmetricNetwork == Permutations(Slots) \cup Permutations(Models)
=============================================================================
