SPECIFICATION Spec
CONSTANTS
    BackendIds = {1}
    DraftIds = {}
    BaseDraftId = 5
    NumericIds = TRUE
    Contents = {a, b}
    Drafts = {}
    Blank = Blank
    Models = {m}
    Slots = {s1}
    PageSize = 2
    BackendOps = {"ModifyRow"}
    MaxChanges = 2
    NetworkMayFail = FALSE
    RowsMayExpire = FALSE
    JournalMayBreak = FALSE
    StartScope = "real"
SYMMETRY Symmetric
INVARIANT LoadedRowsAreCurrent
