SPECIFICATION Spec
CONSTANTS
    Procs = {p1, p2}
    Timeout = 1
    Crashes = TRUE
    SlowHolders = FALSE
    NoOne = NoOne
    Updates = {u1, u2, u3}
    NoUpdate = NoUpdate
    Format = "json"
INVARIANT NoLostUpdate
