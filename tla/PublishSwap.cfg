SPECIFICATION Spec
CONSTANTS
    Procs = {p1, p2}
    Keys = {k1}
    Kinds = {"file", "content", "unreviewed", "unpublish", "reprocess"}
    Contents = {good, bad}
    Refused = {bad}
    Cap = 9
    PerKeyCap = 9
    Strategy = "upload_then_delete"
    ConcurrentEdits = TRUE
    LateUploads = TRUE
    MaxDay = 1
    MaxUploads = 3
    NoDoc = NoDoc
    NoJob = NoJob
INVARIANTS
    ScannedUnlessChanged
    
PROPERTIES
    ReplaceKeepsServed
SYMMETRY Symmetry
