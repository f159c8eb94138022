SPECIFICATION FairSpec
CONSTANTS
    BackendIds = {1}
    DraftIds = {5}
    BaseDraftId = 5
    NumericIds = TRUE
    Contents = {a, b}
    Drafts = {a}
    Blank = Blank
    Models = {m}
    Slots = {s1}
    PageSize = 2
    BackendOps = {"AddRow", "ModifyRow", "DeleteRow"}
    MaxChanges = 3
    NetworkMayFail = FALSE
    RowsMayExpire = TRUE
    JournalMayBreak = FALSE
    StartScope = "real"
PROPERTIES ShownRowsGetLoaded UnmodifiedAdditionsSettle
