----------------------- MODULE MCTableEditController -----------------------
(***************************************************************************)
(* Two group names and one voter; one action of each kind, so that groups  *)
(* are created, copied and renamed, and their members added and removed.   *)
(***************************************************************************)
EXTENDS TableEditController, TLC

AddVoter    == [type |-> "voter.add", group |-> "Crew", voter |-> 1, weight |-> 2]
RemoveVoter == [type |-> "voter.remove", group |-> "Board", voter |-> 1]
RenameGroup == [type |-> "group.rename", group |-> "Board", name |-> "Crew"]
CopyGroup   == [type |-> "group.copy", group |-> "Board", name |-> "Crew"]

EveryKind == {AddVoter, RemoveVoter, RenameGroup, CopyGroup}

OnePlace == {-1}
OneGroup == 1 :> "Board"
OneVoter == 1 :> 1

Symmetric == Permutations(Transactions)
=============================================================================
