---------------------------- MODULE EditTracking ----------------------------
(***************************************************************************)
(* What a table promises about the user's edits, whatever rows it holds.   *)
(* A row that is edited is tracked, so that the edit can be undone; edits  *)
(* are pending only while tracked; while any edit is pending the table is  *)
(* locked: no further row becomes tracked; and the lock is released only   *)
(* when nothing is tracked any more.                                       *)
(***************************************************************************)
CONSTANT Ids

VARIABLES tracked, pending, locked
vars == <<tracked, pending, locked>>

Init == tracked = {} /\ pending = {} /\ locked = FALSE

Track(id) ==
    /\ ~locked
    /\ tracked' = tracked \cup {id}
    /\ UNCHANGED <<pending, locked>>

Submit ==
    /\ tracked # {}
    /\ pending' \in {S \in SUBSET tracked : pending \subseteq S}
    /\ locked' = TRUE
    /\ UNCHANGED tracked

\* Edits are settled, undone or overwritten.  A row may stop being pending before it
\* stops being tracked, never after.
Release ==
    /\ tracked' \in SUBSET tracked
    /\ pending' \in SUBSET (pending \cap tracked')
    /\ locked' = locked \/ (locked' = FALSE /\ tracked' = {})

Next == (\E id \in Ids : Track(id)) \/ Submit \/ Release

Spec == Init /\ [][Next]_vars

\* A pending edit can always be undone, and blocks further editing.
Promise == pending \subseteq tracked /\ (pending # {} => locked)
=============================================================================
