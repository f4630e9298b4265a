SPECIFICATION Spec
CONSTANTS
    Procs = {p1, p2}
    Keys = {k1, k2}
    Kinds = {"content", "unpublish"}
    Contents = {good}
    Refused = {}
    Cap = 2
    PerKeyCap = 1
    Strategy = "delete_first"
    ConcurrentEdits = FALSE
    LateUploads = FALSE
    MaxDay = 2
    MaxUploads = 4
    NoDoc = NoDoc
    NoJob = NoJob
INVARIANTS
    TypeOK
    DuplicatesBounded
    AuditBacksCounter
    BudgetOvershootBounded
    PerKeyOvershootBounded
SYMMETRY Symmetry
