------------------------- MODULE MCComponentManager -------------------------
(* The instance of ComponentManager that TLC checks.                       *)
EXTENDS ComponentManager, TLC
=============================================================================
