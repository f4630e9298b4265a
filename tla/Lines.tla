------------------------------- MODULE Lines --------------------------------
(***************************************************************************)
(* The contents of a state file: a sequence of lines (queue items, audit    *)
(* records, keys of a JSON object), each with the updates that made it what *)
(* it is: {add}, or {add, approve} once the item has its decision.          *)
(***************************************************************************)
EXTENDS Naturals, Sequences, Functions

\* All updates that are in some line.
Contents(s) == UNION Range(s)

\* An update changes a line where it stands, or adds a line at the end.
With(s, i, u) ==
    IF i \in DOMAIN s THEN [s EXCEPT ![i] = @ \union {u}] ELSE Append(s, {u})

IsPrefixOf(s, t) == Len(s) <= Len(t) /\ s = SubSeq(t, 1, Len(s))
=============================================================================
