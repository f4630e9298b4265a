----------------------------- MODULE AtomicLog ------------------------------
(***************************************************************************)
(* What state.py promises of a state file ("every operation here is atomic  *)
(* by construction"): each update of its callers is applied in one step, to *)
(* one line, at most once, before its caller is told, and is never lost.    *)
(***************************************************************************)
EXTENDS Lines

CONSTANT Updates

VARIABLES
    log,   \* the lines, each with the updates that were applied to it
    acked  \* the updates whose caller has its answer

Init == log = <<>> /\ acked = {}

Apply(u) ==
    /\ u \notin Contents(log)
    /\ \E i \in 1 .. Len(log) + 1 : log' = With(log, i, u)
    /\ UNCHANGED acked

Acknowledge(u) ==
    /\ u \in Contents(log)
    /\ acked' = acked \union {u}
    /\ UNCHANGED log

Next == \E u \in Updates : Apply(u) \/ Acknowledge(u)

Spec == Init /\ [][Next]_<<log, acked>>
=============================================================================
