------------------------------ MODULE MCReview ------------------------------
(* Instances of Review for TLC: two paths, and what the rules tell apart. *)
EXTENDS Review, TLC

Symmetry == Permutations(Procs)

Open == [deny_paths |-> {}, ask_paths |-> {}, include |-> Paths, exclude |-> {},
         criteria |-> {}, min_confidence |-> 1]

AsksAbout(path) == [Open EXCEPT !.ask_paths = {path}, !.criteria = Criteria]

Denies(path) == [Open EXCEPT !.deny_paths = {path}]

SomeManifests == {AsksAbout("a"), Denies("b")}

Sure == [verdict |-> "knowledge", criteria_ack |-> Criteria, confidence |-> 1]

SomeAssessments == {Sure, [Sure EXCEPT !.verdict = "not-knowledge"]}
=============================================================================
