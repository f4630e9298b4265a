SPECIFICATION FairSpec
CONSTANTS
    c1 = c1
    c2 = c2
    c3 = c3
    i1 = i1
    i2 = i2
    Calls = {c1, c2, c3}
    Items = {i1, i2}
    Workloads <- MCWorkloads
    MaxFaults = 2
    NoCall = NoCall
INVARIANTS
    TypeOK
    DecidedOnce
    AnswersHold
    ReadsAreUpToDate
    
PROPERTIES
    ServesAtomicLogs
    NobodyIsLockedOut
CHECK_DEADLOCK FALSE
