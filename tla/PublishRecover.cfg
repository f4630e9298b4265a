SPECIFICATION FairSpec
CONSTANTS
    Procs = {p1, p2}
    Keys = {k1}
    Kinds = {"file"}
    Contents = {good}
    Refused = {}
    Cap = 5
    PerKeyCap = 5
    Strategy = "delete_first"
    ConcurrentEdits = FALSE
    LateUploads = FALSE
    MaxDay = 1
    MaxUploads = 4
    NoDoc = NoDoc
    NoJob = NoJob
PROPERTIES
    Recovers
CHECK_DEADLOCK FALSE
