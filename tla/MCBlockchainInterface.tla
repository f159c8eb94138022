----------------------- MODULE MCBlockchainInterface -----------------------
(***************************************************************************)
(* BlockchainInterface for model checking.                                 *)
(***************************************************************************)
EXTENDS BlockchainInterface, TLC
Symmetric == Permutations(Nodes)
=============================================================================
