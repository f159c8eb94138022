---------------------- MODULE MCBroadcastableTransaction ----------------------
(***************************************************************************)
(* BroadcastableTransaction for model checking.                            *)
(***************************************************************************)
EXTENDS BroadcastableTransaction, TLC
=============================================================================
