SPECIFICATION Spec
CONSTANTS
    BackendIds = {1}
    DraftIds = {}
    BaseDraftId = 5
    NumericIds = TRUE
    Contents = {a}
    Drafts = {a}
    Blank = Blank
    Models = {m}
    Slots = {s1, s2}
    PageSize = 2
    BackendOps = {"AddRow", "ModifyRow", "DeleteRow"}
    MaxChanges = 0
    NetworkMayFail = TRUE
    RowsMayExpire = TRUE
    JournalMayBreak = TRUE
    StartScope = "real"
SYMMETRY Symmetric
INVARIANT LockedOnlyWhilePending
