SPECIFICATION Spec
CONSTANTS
    Procs = {p1, p2, p3}
    Timeout = 1
    Crashes = TRUE
    SlowHolders = TRUE
    NoOne = NoOne
    Updates = {u1, u2, u3, u4}
    NoUpdate = NoUpdate
    Format = "json"
SYMMETRY Symmetry
INVARIANT NeverTwice
