----------------------------- MODULE JournalFeed -----------------------------
(***************************************************************************)
(* What the tables may count on about the journal.  The backend numbers    *)
(* its entries 1, 2, ...  The client has a place in the journal; it tells  *)
(* the tables of the entries behind that place, in order; or it puts the   *)
(* place anywhere and makes the tables read everything afresh, which       *)
(* stands for every entry there is.                                        *)
(***************************************************************************)
EXTENDS Naturals

VARIABLES
    written,   \* how many entries there are
    place,     \* the last entry the client has dealt with
    told       \* the entries the tables know of
vars == <<written, place, told>>

Init == written = 0 /\ place = 0 /\ told = {}

Write == written' = written + 1 /\ UNCHANGED <<place, told>>

Tell ==
    /\ place' \in place + 1 .. written
    /\ told' = told \cup (place + 1 .. place')
    /\ UNCHANGED written

TellAll ==
    /\ place' \in 0 .. written
    /\ told' = 1 .. written
    /\ UNCHANGED written

Next == Write \/ Tell \/ TellAll

Spec == Init /\ [][Next]_vars

\* The tables know of every entry up to the client's place.
NothingSkipped == 1 .. place \subseteq told
=============================================================================
