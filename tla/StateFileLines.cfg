SPECIFICATION Spec
CONSTANTS
    Procs = {p1, p2}
    Timeout = 2
    Crashes = FALSE
    SlowHolders = FALSE
    NoOne = NoOne
    Updates = {u1, u2, u3}
    NoUpdate = NoUpdate
    Format = "jsonl"
INVARIANTS
    TypeOK
    MutualExclusion
    ReadsAreBeginnings
PROPERTY Atomic
