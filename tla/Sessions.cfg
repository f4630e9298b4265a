SPECIFICATION FairSpec
CONSTANTS
    Sessions = {s1}
    Files = {f1, f2}
    Tooled = {f1}
    Settings <- MCSettings
    f1 = f1
    f2 = f2
    Hooks = {1, 2}
    ShowMax = 2
    MaxCommits = 2
    MaxAssessed = 1
    NoSession = NoSession
    Empty = Empty
    NoMark = NoMark
INVARIANTS
    TypeOK
    MentionedOnce
PROPERTY NewWorkIsReminded
CHECK_DEADLOCK FALSE
