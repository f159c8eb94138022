SPECIFICATION Spec
CONSTANTS
    BackendIds = {1, 2}
    DraftIds = {}
    BaseDraftId = 9
    NumericIds = FALSE
    Contents = {a, b}
    Drafts = {a}
    Blank = Blank
    Models = {m}
    Slots = {s1, s2}
    PageSize = 1
    BackendOps = {"AddRow", "ModifyRow", "DeleteRow"}
    MaxChanges = 2
    NetworkMayFail = TRUE
    RowsMayExpire = FALSE
    JournalMayBreak = FALSE
    StartScope = "draft"
SYMMETRY SymmetricNetwork
INVARIANTS PendingEditsAreProtected PendingAdditionsCanSettle ModelsShowTheRows LoadingRowsAreAwaited
PROPERTIES LostDraftsAreSignalled KeepsTrackOfEdits
