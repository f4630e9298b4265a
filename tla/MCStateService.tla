--------------------------- MODULE MCStateService ---------------------------
EXTENDS StateService, TLC

CONSTANTS c1, c2, c3, i1, i2

Work(ops, items) == [c \in Calls |-> [op |-> ops[c], item |-> items[c]]]
Of(a, b, c) == c1 :> a @@ c2 :> b @@ c3 :> c
Mix(a, b, c) == Work(Of(a, b, c), Of(i1, i1, i1))

\* Two reviewers, or one and a reader, of an item; two items and their reader; a counter,
\* records and the audit log; and requests that are refused.
MCWorkloads == {
    Mix("add", "decide", "decide"),
    Mix("add", "decide", "queue_list"),
    Work(Of("add", "add", "queue_list"), Of(i1, i2, i1)),
    Mix("bump", "bump", "cost_get"),
    Mix("append", "append", "append"),
    Mix("append", "append", "audit_read"),
    Mix("put", "provenance_get", "stranger"),
    Mix("append", "malformed", "unrouted") }
=============================================================================
