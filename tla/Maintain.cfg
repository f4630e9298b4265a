SPECIFICATION Spec
CONSTANTS
    m1 = m1
    m2 = m2
    Scenarios <- MCScenarios
    c1 = c1
    c2 = c2
    c3 = c3
    Maintainers = {m1, m2}
    Publishers = {p1}
    Paths <- MCPaths
    Formats = {"flat", "path"}
    OutsideGit = {}
    Commits = {c1, c2, c3}
    NoCommit = NoCommit
    Reaches <- MCReaches
    Tree <- MCTree
    NoBlob = NoBlob
    Local = {c3}
    StaleCheckouts = FALSE
    PageSize = 1
    MaxPages = 1
    MaxDocs = 3
    NoDoc = NoDoc
INVARIANTS
    TypeOK
    KeyNeverLost
    KeysNameFiles
    ListingComplete
PROPERTY ReportsAreOfTheBranch
CHECK_DEADLOCK FALSE
