----------------------------- MODULE MCMaintain -----------------------------
EXTENDS Maintain, TLC

CONSTANTS c1, c2, c3, m1, m2

top == <<"a">>
nested == <<"d", "/", "a">>
reserved == <<"b", "_", "_", "b">>

\* c3 is on a branch of its own that starts at c1; c2 is the next head.
MCReaches == c1 :> {c1} @@ c2 :> {c1, c2} @@ c3 :> {c1, c3}
MCPaths == {top, nested, reserved}

\* The second commit changes the nested file and drops the one at the top; the
\* branch holds the same change of the nested file.
MCTree == c1 :> (top :> "t" @@ nested :> "n1" @@ reserved :> "r")
       @@ c2 :> (top :> NoBlob @@ nested :> "n2" @@ reserved :> "r")
       @@ c3 :> (top :> "t" @@ nested :> "n2" @@ reserved :> "r")

Doc(i, p, c) == [id |-> i, path |-> p, commit |-> c]
Versions == <<Doc(1, nested, c1), Doc(2, nested, c2)>>
Files == <<Doc(1, top, NoCommit), Doc(2, nested, c1)>>
Branches == <<Doc(1, nested, c1), Doc(2, nested, c3)>>

\* Two hosts dedupe, or one of them does anything.
Both == m1 :> {"dedupe"} @@ m2 :> {"dedupe"}
One(jobs) == m1 :> jobs @@ m2 :> {}
Scenario(jobs, req, held) == [duty |-> jobs, require |-> req, docs |-> held]
MCScenarios == {
    Scenario(Both, "merged", Versions),
    Scenario(One({"orphans", "stale"}), "merged", Files),
    Scenario(One(Jobs), "committed", Branches) }
=============================================================================
