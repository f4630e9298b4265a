SPECIFICATION FairLockSpec
CONSTANTS
    Procs = {p1, p2}
    Timeout = 2
    Crashes = TRUE
    SlowHolders = TRUE
    NoOne = NoOne
PROPERTIES
    NeverWedged
    NobodyWaitsForever
