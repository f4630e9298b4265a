------------------------------ MODULE Routing ------------------------------
(***************************************************************************)
(* The decision of routing.py over a manifest and an assessment, and the    *)
(* path clause of the floor (gate.py) that is to agree with it.  A list of  *)
(* glob patterns is the set of paths it matches; an empty `include` matches *)
(* every path.  NoAssessment stands for a call without one.                 *)
(***************************************************************************)
EXTENDS Naturals

CONSTANTS
    Paths,        \* paths of documents in the repository
    Criteria,     \* criterion ids, real and made up
    MaxLevel,     \* confidences and thresholds are levels up to here
    NoAssessment

ASSUME RoutingAssumption == MaxLevel \in Nat

Levels == 0 .. MaxLevel

Manifest ==
    [deny_paths : SUBSET Paths, ask_paths : SUBSET Paths,
     include : SUBSET Paths, exclude : SUBSET Paths,
     criteria : SUBSET Criteria, min_confidence : Levels]

Verdicts == {"knowledge", "not-knowledge", "unsure"}

Assessment == [verdict : Verdicts, criteria_ack : SUBSET Criteria, confidence : Levels]

ASSUME NoAssessmentAssumption == NoAssessment \notin Assessment

Routes == {"auto", "queue", "reject_not_knowledge", "reject_deny",
           "reject_not_included", "manual"}

Included(path, m) == path \in m.include \ m.exclude

\* The acknowledgement has to name a criterion the manifest really has.
Acknowledged(a, m) == m.criteria = {} \/ a.criteria_ack \intersect m.criteria # {}

Judge_AsksLast(path, m, a) ==
    IF a = NoAssessment THEN "queue"
    ELSE IF a.verdict = "not-knowledge" THEN "reject_not_knowledge"
    ELSE IF a.verdict = "knowledge" /\ a.confidence >= m.min_confidence THEN "auto"
    ELSE "queue"

\* Without an order the agent's assessment counts, the manifest's wish to be asked first.
Judge(path, m, a) ==
    IF a = NoAssessment THEN "queue"
    ELSE IF a.verdict = "not-knowledge" THEN "reject_not_knowledge"
    ELSE IF path \in m.ask_paths \/ ~Acknowledged(a, m) THEN "queue"
    ELSE IF a.verdict = "knowledge" /\ a.confidence >= m.min_confidence THEN "auto"
    ELSE "queue"

Decide_OrderFirst(path, m, a, manual_token_valid) ==
    IF manual_token_valid THEN "manual"
    ELSE IF path \in m.deny_paths THEN "reject_deny"
    ELSE IF ~Included(path, m) THEN "reject_not_included"
    ELSE Judge(path, m, a)

\* The first rule that applies.  An order replaces the judgement, not the policy.
Decide(path, m, a, manual_token_valid) ==
    IF path \in m.deny_paths THEN "reject_deny"
    ELSE IF ~Included(path, m) THEN "reject_not_included"
    ELSE IF manual_token_valid THEN "manual"
    ELSE Judge(path, m, a)

CheckPathPolicy(path, m) ==
    /\ path \notin m.deny_paths
    /\ path \notin m.exclude
    /\ path \in m.include
=============================================================================
