SPECIFICATION Spec
CONSTANTS
    Spelling <- Spelled
    Contract <- Fmv
    Active <- Owner
    Accounts <- Typed
    Chains = {"main", "test"}
    Lifetime = 2
    Deadline = 1
    Conversions = {0, 5}
    MaxActions = 2
    MaxTime = 2
    MaxBlocks = 2
INVARIANTS TypeOK ShownIsSigned DraftedIsShown
PROPERTY BroadcastIsSigned
CHECK_DEADLOCK FALSE
