SPECIFICATION FairSpec
CONSTANTS
    Files = {f1}
    Sources = {s1}
    MaxRequests = 4
INVARIANTS
    TypeOK
    NothingIsLostOrLeaked
    IncubatorsInUseExist
PROPERTIES
    RequestsAreAnswered
CHECK_DEADLOCK FALSE
