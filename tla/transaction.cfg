SPECIFICATION FairSpec
CONSTANTS
    Slots = {s1, s2}
    MaxBlock = 3
    MayFail = TRUE
INVARIANTS TypeOK LookedUpWasConfirmed IrreversibleWasIncluded
PROPERTIES ConfirmedIsSettled StopsListening
