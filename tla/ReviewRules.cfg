SPECIFICATION Spec
CONSTANTS
    Procs = {p1, p2}
    Paths = {"a", "b"}
    Criteria = {c1}
    MaxLevel = 1
    NoAssessment = NoAssessment
    Tokens = {t1}
    Manifests <- SomeManifests
    Assessments <- SomeAssessments
    Binary = {"b"}
    MaxQueue = 1
    NoToken = NoToken
    NoJob = NoJob
INVARIANTS
    TypeOK
    DecidedOnce
    OnlyOrderedOrJudged
    ApprovalsFollowPolicy
    SharedByOverlapOnly
SYMMETRY Symmetry
