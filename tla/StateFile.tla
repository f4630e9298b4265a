----------------------------- MODULE StateFile ------------------------------
(***************************************************************************)
(* One file of LocalBackend (cost.json, provenance.json or queue.jsonl) and *)
(* the processes that change it: _FileLock around load, change and rewrite. *)
(* The rewrite is open("w"), which empties the file, and then one write of  *)
(* a JSON document, or of JSON lines one buffer after the other.  An update *)
(* stands for what one call writes: a publish at the counter of its key, a  *)
(* record, a queue item, or the decision of an item that is there.          *)
(***************************************************************************)
EXTENDS FileLock, Lines

CONSTANTS
    Updates,   \* the updates that processes make, each in one call
    NoUpdate,
    Format     \* "json": one document; "jsonl": lines of their own

ASSUME StateFileAssumption ==
    /\ NoUpdate \notin Updates
    /\ Format \in {"json", "jsonl"}
    \* What two writers leave of JSON lines depends on the length of each line.
    /\ Format = "jsonl" => ~Crashes /\ ~SlowHolders

VARIABLES
    file,   \* its lines, and whether the last rewrite is complete
    op,     \* the update each process is making
    step,   \* where each holder of the lock is
    data,   \* what each holder has loaded
    place,  \* the line that each holder changes or adds
    begun,  \* the updates that some call was made for
    acked   \* those whose call returned

fileVars == <<file, op, step, data, place, begun, acked>>
vars == <<lockVars, fileVars>>

Steps == {"none", "load", "truncate", "write", "leave"}
File == [whole : BOOLEAN, lines : Seq(SUBSET Updates)]

Init ==
    /\ LockInit
    /\ file = [whole |-> TRUE, lines |-> <<>>]
    /\ op = [p \in Procs |-> NoUpdate]
    /\ step = [p \in Procs |-> "none"]
    /\ data = [p \in Procs |-> <<>>]
    /\ place = [p \in Procs |-> 1]
    /\ begun = {}
    /\ acked = {}

\* Nothing is left of the call in the memory of its process.
Idle(p) ==
    /\ op' = [op EXCEPT ![p] = NoUpdate]
    /\ step' = [step EXCEPT ![p] = "none"]
    /\ data' = [data EXCEPT ![p] = <<>>]
    /\ place' = [place EXCEPT ![p] = 1]

Begin(p) ==
    /\ Enter(p)
    /\ \E u \in Updates \ begun : /\ op' = [op EXCEPT ![p] = u]
                                  /\ begun' = begun \union {u}
    /\ UNCHANGED <<file, step, data, place, acked>>

TryLock_KeepsUpdate(p) ==
    /\ Attempt(p)
    /\ step' = [step EXCEPT ![p] = IF at'[p] = "in" THEN "load" ELSE "none"]
    /\ UNCHANGED <<file, op, data, place, begun, acked>>

\* The holder goes on to load; who gives up leaves its update undone.
TryLock(p) ==
    /\ Attempt(p)
    /\ step' = [step EXCEPT ![p] = IF at'[p] = "in" THEN "load" ELSE "none"]
    /\ op' = [op EXCEPT ![p] = IF at'[p] = "out" THEN NoUpdate ELSE @]
    /\ UNCHANGED <<file, data, place, begun, acked>>

\* An incomplete JSON document does not parse and counts as empty; of a JSON-lines
\* file only the broken line is dropped.
Loaded == IF file.whole \/ Format = "jsonl" THEN file.lines ELSE <<>>

\* The line of the update is a new one (queue_add, a key that is not there yet) or
\* one of those loaded (queue_set_status, a key once more).
Load(p) ==
    /\ at[p] = "in" /\ step[p] = "load"
    /\ data' = [data EXCEPT ![p] = Loaded]
    /\ \E i \in 1 .. Len(Loaded) + 1 : place' = [place EXCEPT ![p] = i]
    /\ step' = [step EXCEPT ![p] = "truncate"]
    /\ UNCHANGED <<lockVars, file, op, begun, acked>>

\* queue_set_status: the item is not there, or has a decision; nothing is written.
Refuse(p) ==
    /\ step[p] = "truncate" /\ Format = "jsonl"
    /\ Exit(p)
    /\ Idle(p)
    /\ UNCHANGED <<file, begun, acked>>

Truncate(p) ==
    /\ at[p] = "in" /\ step[p] = "truncate"
    /\ file' = [whole |-> FALSE, lines |-> <<>>]
    /\ step' = [step EXCEPT ![p] = "write"]
    /\ UNCHANGED <<lockVars, op, data, place, begun, acked>>

New_NotWritten(p) == data[p]

New(p) == With(data[p], place[p], op[p])

WriteSome_LineFirst(p) ==
    /\ at[p] = "in" /\ step[p] = "write"
    /\ Format = "jsonl"
    /\ \E n \in 0 .. Len(data[p]) :
          file' = [whole |-> FALSE, lines |-> <<{op[p]}>> \o SubSeq(data[p], 1, n)]
    /\ UNCHANGED <<lockVars, op, step, data, place, begun, acked>>

\* A buffer of a long file is written before the rest.
WriteSome(p) ==
    /\ at[p] = "in" /\ step[p] = "write"
    /\ Format = "jsonl"
    /\ \E n \in Len(file.lines) .. Len(New(p)) :
          file' = [whole |-> FALSE, lines |-> SubSeq(New(p), 1, n)]
    /\ UNCHANGED <<lockVars, op, step, data, place, begun, acked>>

Write_OpensToAppend(p) ==
    /\ at[p] = "in" /\ step[p] = "write"
    /\ file' = [whole |-> TRUE, lines |-> file.lines \o New(p)]
    /\ step' = [step EXCEPT ![p] = "leave"]
    /\ UNCHANGED <<lockVars, op, data, place, begun, acked>>

\* If another holder wrote the file since this one emptied it, the end of its text
\* may stick out: no JSON any more.
Write(p) ==
    /\ at[p] = "in" /\ step[p] = "write"
    /\ \E whole \in BOOLEAN :
          /\ whole \/ (Format = "json" /\ file.lines # <<>>)
          /\ file' = [whole |-> whole, lines |-> New(p)]
    /\ step' = [step EXCEPT ![p] = "leave"]
    /\ UNCHANGED <<lockVars, op, data, place, begun, acked>>

Leave(p) ==
    /\ step[p] = "leave"
    /\ Exit(p)
    /\ acked' = acked \union {op[p]}
    /\ Idle(p)
    /\ UNCHANGED <<file, begun>>

Killed(p) ==
    /\ Crash(p)
    /\ Idle(p)
    /\ UNCHANGED <<file, begun, acked>>

TimePasses == Tick /\ UNCHANGED fileVars

Next ==
    \/ \E p \in Procs : \/ Begin(p) \/ TryLock(p) \/ Load(p) \/ Refuse(p)
                        \/ Truncate(p) \/ WriteSome(p) \/ Write(p) \/ Leave(p) \/ Killed(p)
    \/ TimePasses

Spec == Init /\ [][Next]_vars

-----------------------------------------------------------------------------

TypeOK ==
    /\ LockTypeOK
    /\ file \in File
    /\ op \in [Procs -> Updates \union {NoUpdate}]
    /\ step \in [Procs -> Steps]
    /\ data \in [Procs -> Seq(SUBSET Updates)]
    /\ place \in [Procs -> Nat]
    /\ \A p \in Procs : place[p] \in 1 .. Len(data[p]) + 1
    /\ begun \subseteq Updates /\ acked \subseteq Updates
    /\ \A p \in Procs : at[p] = "in" <=> step[p] # "none"
    /\ \A p \in Procs : at[p] = "out" <=> op[p] = NoUpdate

\* What the file stands for: a rewrite takes effect when it is complete.
Rewriting == {p \in Procs : step[p] = "write"}
Committed == IF Rewriting = {} THEN file.lines ELSE data[CHOOSE p \in Rewriting : TRUE]

Log == INSTANCE AtomicLog WITH log <- Committed

\* While nobody is killed and nobody holds the lock longer than the timeout, load,
\* change and rewrite under the lock are one step, as state.py promises.
Atomic == Log!Spec

\* Reads take no lock (queue_list, cost_get, provenance_get).  What they show is the
\* beginning of the lines before some rewrite or of those after it: the last lines may be
\* missing, but no line is older than the last complete rewrite, and of those that are not
\* complete at most one is seen.
ReadsAreBeginnings ==
    \/ IsPrefixOf(Loaded, Committed)
    \/ \E p \in Rewriting : IsPrefixOf(Loaded, New(p))

\* Whoever is killed, and though the stale-lock rule may let two processes in at once,
\* no update gets into two lines, and none is added to a text that has it: the counter
\* may lose publishes, it never invents one.
NeverTwice ==
    /\ \A i, j \in DOMAIN Loaded : Loaded[i] \cap Loaded[j] # {} => i = j
    /\ \A p \in Rewriting : op[p] \notin Contents(data[p])

(* What a comment of state.py says, and the code does not do. *)

\* state.py:17 - "every operation here is atomic by construction", so that there is
\* no lost update: when nobody is changing the file, it has
\* every update whose call returned.
NoLostUpdate == Holders = {} => acked \subseteq Contents(Loaded)
=============================================================================
