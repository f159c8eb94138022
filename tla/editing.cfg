SPECIFICATION Spec
CONSTANTS
    GroupIds = {1, 2}
    DraftGroupIds = {11, 12}
    Orphans <- OnePlace
    BaseDraftId = 11
    Names = {"Board", "Crew"}
    Voters = {1}
    Weights = {1, 2}
    Blank = Blank
    StartGroups <- OneGroup
    StartVoters <- OneVoter
    Transactions = {t1, t2}
    Actions <- EveryKind
    MaxActions = 2
    MaxChanges = 2
    MaxInputs = 3
SYMMETRY Symmetric
INVARIANTS TypeOK EditsAreTracked DraftMembersHaveTheirGroup
PROPERTIES FailureLeavesNothingPending RescopesLoseNoEdits
CHECK_DEADLOCK FALSE
