SPECIFICATION FairSpec
CONSTANTS
    sagw = sagw
    a = a
    b = b
    Servers = {sagw}
    Commands = {a, b}
    Workloads <- MCWorkloads
    Idless <- MCIdless
    WaitTimeout = 48
    RequestTimeout = 10
    MaxFaults = 1
    MaxBlips = 1
    NoDoc = NoDoc
INVARIANTS
    TypeOK
    AnswersAreTrue
    WaitKeepsItsWord
PROPERTY EveryLineIsServed
CHECK_DEADLOCK FALSE
