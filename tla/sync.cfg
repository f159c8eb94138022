SPECIFICATION FairSpec
CONSTANTS
    Nodes = {n1}
    NoNode = NoNode
    Slots = {s1, s2, s3}
    PageSize = 2
    MaxJournal = 3
    MayFail = TRUE
INVARIANTS TypeOK NothingSkipped SynchronisingIsNotIdle
PROPERTIES FeedsTheTables EntriesReachTables ConnectionComesUp
