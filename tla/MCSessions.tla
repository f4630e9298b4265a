----------------------------- MODULE MCSessions -----------------------------
EXTENDS Sessions

CONSTANTS f1, f2

Setting(hooks, names) == [fires |-> hooks, quoted |-> names]
MCSettings == {Setting({"nudge"}, {}), Setting({"stop"}, {}), Setting({"stop"}, {f2})}
=============================================================================
