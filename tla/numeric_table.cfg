SPECIFICATION Spec
CONSTANTS
    BackendIds = {1}
    DraftIds = {5, 6}
    BaseDraftId = 5
    NumericIds = TRUE
    Contents = {a, b}
    Drafts = {a, b}
    Blank = Blank
    Models = {m}
    Slots = {s1, s2}
    PageSize = 2
    BackendOps = {"AddRow", "ModifyRow", "DeleteRow"}
    MaxChanges = 2
    NetworkMayFail = FALSE
    RowsMayExpire = FALSE
    JournalMayBreak = TRUE
    StartScope = "real"
SYMMETRY Symmetric
INVARIANTS TypeOK PendingEditsAreProtected PendingAdditionsCanSettle ModelsShowTheRows
PROPERTIES PendingShowsTheDraft NoDraftingWhilePending LostDraftsAreSignalled KeepsTrackOfEdits
