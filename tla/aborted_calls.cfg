SPECIFICATION Spec
CONSTANTS
    Nodes = {n1, n2}
    NoNode = NoNode
    Slots = {s1, s2, s3}
    PageSize = 2
    MaxJournal = 1
    MayFail = FALSE
INVARIANT AbortedCallsAreIgnored
