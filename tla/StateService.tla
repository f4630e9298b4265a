---------------------------- MODULE StateService ----------------------------
(***************************************************************************)
(* The fleet's state service (sagstate_server.py) and its clients           *)
(* (HttpBackend of state.py), for one source and within one day.  Every     *)
(* request has a thread of its own.  A request that changes cost.json,      *)
(* provenance.json or queue.jsonl loads the file, empties it and writes it  *)
(* again under the lock of the source; audit.jsonl is appended to and every *)
(* file is read without the lock.  A client waits fifteen seconds for its   *)
(* answer and gives up; its thread does not know.                           *)
(*                                                                         *)
(* A file is a sequence of lines with the calls that made each what it is.  *)
(* A line of queue.jsonl has the call that added the item and the one that  *)
(* decided it; cost.json and provenance.json are read as a whole, so what   *)
(* their lines are is of no importance.  A line that no longer parses has   *)
(* no calls.                                                                *)
(***************************************************************************)
EXTENDS FiniteSets, Lines

CONSTANTS
    Calls,      \* the requests that clients ever send
    Items,      \* ids of queue items
    Workloads,  \* what the calls may be: functions from Calls to Requests
    MaxFaults,  \* bound on crashes of the server and failing system calls
    NoCall

Changes == [bump |-> "cost", put |-> "provenance", add |-> "queue", decide |-> "queue"]
Reads == [cost_get |-> "cost", provenance_get |-> "provenance",
          queue_list |-> "queue", audit_read |-> "audit"]
\* No SAGSTATE_TOKEN, a bad key or body, no such route.
Refusals == [stranger |-> 401, malformed |-> 400, unrouted |-> 404]
Files == {"cost", "provenance", "queue", "audit"}
Ops == DOMAIN Changes \union DOMAIN Reads \union DOMAIN Refusals \union {"append"}
Requests == [op : Ops, item : Items]

ASSUME ServiceAssumption ==
    /\ Workloads \subseteq [Calls -> Requests]
    /\ \A w \in Workloads : \A c, d \in Calls :  \* ids are secrets.token_hex(8)
          w[c].op = "add" /\ w[d].op = "add" /\ w[c].item = w[d].item => c = d
    /\ MaxFaults \in Nat
    /\ NoCall \notin Calls

VARIABLES
    req,      \* the request of each call
    client,   \* what its client knows
    thread,   \* where its thread in the server is
    status,   \* the HTTP status the thread is about to send
    data,     \* what the thread has loaded
    files,
    torn,     \* does the last line of audit.jsonl lack its end?
    lock,     \* the thread in the `with _lock_for(skey)` block, or NoCall
    up,       \* is the server running?
    faults,   \* how many crashes and failing system calls there were
    applied,  \* history: the calls that changed a file
    before    \* history: for each call, the changes its client could know of

vars == <<req, client, thread, status, data, files, torn, lock, up, faults, applied, before>>

Knowledge == {"idle", "waiting", "ok", "conflict", "refused", "failed"}
Places == {"none", "lock", "load", "truncate", "write", "read", "append", "reply", "done"}
Statuses == {0, 200, 204, 400, 401, 404, 409, 500}

FileOf(c) ==
    LET op == req[c].op IN
    CASE op \in DOMAIN Changes -> Changes[op]
      [] op \in DOMAIN Reads -> Reads[op]
      [] OTHER -> "audit"

Changing == {c \in Calls : req[c].op \in DOMAIN Changes}
Reading == {c \in Calls : req[c].op \in DOMAIN Reads}
Acked(f) == {c \in Calls : client[c] = "ok" /\ FileOf(c) = f /\ c \notin Reading}
Decides(c, d) == req[c].op = "decide" /\ req[d].op = "decide" /\ req[c].item = req[d].item
Adds(c, d) == req[c].op = "add" /\ req[d].op = "decide" /\ req[c].item = req[d].item

Init ==
    /\ req \in Workloads
    /\ client = [c \in Calls |-> "idle"]
    /\ thread = [c \in Calls |-> "none"]
    /\ status = [c \in Calls |-> 0]
    /\ data = [c \in Calls |-> <<>>]
    /\ files = [f \in Files |-> <<>>]
    /\ torn = FALSE
    /\ lock = NoCall
    /\ up = TRUE
    /\ faults = 0
    /\ applied = {}
    /\ before = [c \in Calls |-> {}]

-----------------------------------------------------------------------------
(* The client: HttpBackend._call. *)

Send(c) ==
    /\ client[c] = "idle"
    /\ client' = [client EXCEPT ![c] = "waiting"]
    /\ before' = [before EXCEPT ![c] = Acked(FileOf(c))]
    /\ UNCHANGED <<req, thread, status, data, files, torn, lock, up, faults, applied>>

Fail_AsRefused(c) ==
    /\ client[c] = "waiting"
    /\ client' = [client EXCEPT ![c] = "refused"]
    /\ UNCHANGED <<req, thread, status, data, files, torn, lock, up, faults, applied, before>>

\* Refused, reset or timed out: all are StateError.  A request that waits in the
\* socket may still be accepted later.
Fail(c) ==
    /\ client[c] = "waiting"
    /\ client' = [client EXCEPT ![c] = "failed"]
    /\ UNCHANGED <<req, thread, status, data, files, torn, lock, up, faults, applied, before>>

Outcome_ConflictOnly(s) == IF s = 409 THEN "conflict" ELSE "error"

Outcome(s) ==
    CASE s \in {200, 204} -> "ok"
      [] s = 409 -> "conflict"
      [] s = 500 -> "failed"
      [] OTHER -> "refused"

\* _send: a client that has given up does not see it.
Answer(c) ==
    /\ thread[c] = "reply"
    /\ thread' = [thread EXCEPT ![c] = "done"]
    /\ status' = [status EXCEPT ![c] = 0]
    /\ client' = [client EXCEPT ![c] = IF @ = "waiting" THEN Outcome(status[c]) ELSE @]
    /\ UNCHANGED <<req, data, files, torn, lock, up, faults, applied, before>>

-----------------------------------------------------------------------------
(* The server. *)

Reply(c, s) ==
    /\ status' = [status EXCEPT ![c] = s]
    /\ thread' = [thread EXCEPT ![c] = "reply"]

\* The token, then the route and the fields of the body, before the store is touched.
Arrive(c) ==
    /\ up
    /\ client[c] # "idle" /\ thread[c] = "none"
    /\ \/ /\ req[c].op \in DOMAIN Refusals
          /\ Reply(c, Refusals[req[c].op])
       \/ /\ req[c].op \notin DOMAIN Refusals
          /\ thread' = [thread EXCEPT ![c] = IF c \in Changing THEN "lock"
                                             ELSE IF c \in Reading THEN "read" ELSE "append"]
          /\ UNCHANGED status
    /\ UNCHANGED <<req, client, data, files, torn, lock, up, faults, applied, before>>

Acquire_NoLock(c) ==
    /\ thread[c] = "lock"
    /\ lock' = c
    /\ thread' = [thread EXCEPT ![c] = "load"]
    /\ UNCHANGED <<req, client, status, data, files, torn, up, faults, applied, before>>

Acquire(c) ==
    /\ thread[c] = "lock"
    /\ lock = NoCall
    /\ lock' = c
    /\ thread' = [thread EXCEPT ![c] = "load"]
    /\ UNCHANGED <<req, client, status, data, files, torn, up, faults, applied, before>>

\* queue_set_status: NotFound and Conflict.
Judgement(c, s) ==
    IF req[c].op = "decide" /\ \A d \in Contents(s) : ~Adds(d, c) THEN 404
    ELSE IF \E d \in Contents(s) : Decides(c, d) THEN 409 ELSE 0

Load(c) ==
    /\ thread[c] = "load"
    /\ LET s == files[FileOf(c)] IN
          /\ data' = [data EXCEPT ![c] = s]
          /\ \/ /\ Judgement(c, s) # 0
                /\ Reply(c, Judgement(c, s))
                /\ lock' = NoCall
             \/ /\ Judgement(c, s) = 0
                /\ thread' = [thread EXCEPT ![c] = "truncate"]
                /\ UNCHANGED <<status, lock>>
    /\ UNCHANGED <<req, client, files, torn, up, faults, applied, before>>

Truncate(c) ==
    /\ thread[c] = "truncate"
    /\ files' = [files EXCEPT ![FileOf(c)] = <<>>]
    /\ thread' = [thread EXCEPT ![c] = "write"]
    /\ UNCHANGED <<req, client, status, data, torn, lock, up, faults, applied, before>>

\* The text with the change: in the line of the item, or behind the others.
New(c) ==
    LET s == data[c]
        line == IF req[c].op = "decide"
                THEN CHOOSE i \in DOMAIN s : \E a \in s[i] : Adds(a, c)
                ELSE Len(s) + 1
    IN  With(s, line, c)

WriteSome_NewestFirst(c) ==
    /\ thread[c] = "write"
    /\ \E n \in Len(files[FileOf(c)]) .. Len(New(c)) :
          /\ FileOf(c) = "queue" \/ n = Len(New(c))
          /\ files' = [files EXCEPT ![FileOf(c)] = SubSeq(New(c), Len(New(c)) - n + 1, Len(New(c)))]
          /\ applied' = applied \union ({c} \cap Contents(files'[FileOf(c)]))
    /\ UNCHANGED <<req, client, thread, status, data, torn, lock, up, faults, before>>

\* The queue goes out in pieces of a buffer; what is cut off within a line does not
\* parse.  A JSON document that is not complete does not parse at all.
WriteSome(c) ==
    /\ thread[c] = "write"
    /\ \E n \in Len(files[FileOf(c)]) .. Len(New(c)) :
          /\ FileOf(c) = "queue" \/ n = Len(New(c))
          /\ files' = [files EXCEPT ![FileOf(c)] = SubSeq(New(c), 1, n)]
          /\ applied' = applied \union ({c} \cap Contents(SubSeq(New(c), 1, n)))
    /\ UNCHANGED <<req, client, thread, status, data, torn, lock, up, faults, before>>

Write_OverwritesFile(c) ==
    /\ thread[c] = "write"
    /\ files' = [files EXCEPT ![FileOf(c)] = <<{c}>>]
    /\ data' = [data EXCEPT ![c] = <<>>]
    /\ lock' = NoCall
    /\ applied' = applied \union {c}
    /\ Reply(c, 200)
    /\ UNCHANGED <<req, client, torn, up, faults, before>>

Write(c) ==
    /\ thread[c] = "write"
    /\ files' = [files EXCEPT ![FileOf(c)] = New(c)]
    /\ data' = [data EXCEPT ![c] = <<>>]
    /\ lock' = NoCall
    /\ applied' = applied \union {c}
    /\ Reply(c, 200)
    /\ UNCHANGED <<req, client, torn, up, faults, before>>

\* cost_get, provenance_get, queue_list, audit_read: whatever the file holds now, of
\* which an empty one is a counter at zero, no record and no items.
Read(c) ==
    /\ thread[c] = "read"
    /\ data' = [data EXCEPT ![c] = files[FileOf(c)]]
    /\ Reply(c, 200)
    /\ UNCHANGED <<req, client, files, torn, lock, up, faults, applied, before>>

\* What is written behind a line that lacks its end becomes part of that line, and
\* neither parses.
Extended(s, text) == IF torn THEN [s EXCEPT ![Len(s)] = {}] ELSE Append(s, text)

AppendAudit_EndsLineBefore(c) ==
    /\ thread[c] = "append"
    /\ files' = [files EXCEPT !["audit"] = Extended(@, {c})]
    /\ torn' = TRUE
    /\ applied' = applied \union {c}
    /\ Reply(c, 204)
    /\ UNCHANGED <<req, client, data, lock, up, faults, before>>

AppendAudit(c) ==
    /\ thread[c] = "append"
    /\ files' = [files EXCEPT !["audit"] = Extended(@, {c})]
    /\ torn' = FALSE
    /\ applied' = applied \union {c}
    /\ Reply(c, 204)
    /\ UNCHANGED <<req, client, data, lock, up, faults, before>>

\* An append that fails has written nothing, a part of the record, all of it but the end
\* of the line, or all of it.
CutOff(c) ==
    \/ UNCHANGED <<files, torn, applied>>
    \/ /\ thread[c] = "append"
       /\ \E text \in {{}, {c}} :
             /\ files' = [files EXCEPT !["audit"] = Extended(@, text)]
             /\ torn' \in IF text = {} THEN {TRUE} ELSE BOOLEAN
             /\ applied' = applied \union text

Fault_KeepsLock(c) ==
    /\ faults < MaxFaults
    /\ thread[c] \in {"load", "truncate", "write", "read", "append"}
    /\ faults' = faults + 1
    /\ CutOff(c)
    /\ Reply(c, 500)
    /\ UNCHANGED <<req, client, data, lock, up, before>>

\* "A storage fault must not kill the server": 500, and the lock is released.  A
\* file that was emptied stays empty, or as far as it has been written.
Fault(c) ==
    /\ faults < MaxFaults
    /\ thread[c] \in {"load", "truncate", "write", "read", "append"}
    /\ faults' = faults + 1
    /\ CutOff(c)
    /\ Reply(c, 500)
    /\ lock' = IF lock = c THEN NoCall ELSE lock
    /\ UNCHANGED <<req, client, data, up, before>>

\* At most one of the appends that are going on is cut off.
Crash ==
    /\ up /\ faults < MaxFaults
    /\ faults' = faults + 1
    /\ \E c \in Calls : CutOff(c)
    /\ up' = FALSE
    /\ thread' = [c \in Calls |-> IF thread[c] = "none" THEN "none" ELSE "done"]
    /\ status' = [c \in Calls |-> 0]
    /\ lock' = NoCall
    /\ UNCHANGED <<req, client, data, before>>

Restart ==
    /\ ~up
    /\ up' = TRUE
    /\ UNCHANGED <<req, client, thread, status, data, files, torn, lock, faults, applied, before>>

Proceed(c) ==
    \/ Acquire(c) \/ Load(c) \/ Truncate(c) \/ WriteSome(c) \/ Write(c)
    \/ Read(c) \/ AppendAudit(c) \/ Fault(c) \/ Answer(c)

Next ==
    \/ \E c \in Calls : Send(c) \/ Fail(c) \/ Arrive(c) \/ Proceed(c)
    \/ Crash \/ Restart

Spec == Init /\ [][Next]_vars

\* Threads run.  Nothing says that a request arrives or that the server is restarted.
FairSpec == Spec /\ \A c \in Calls : WF_vars(Proceed(c))

-----------------------------------------------------------------------------

TypeOK ==
    /\ req \in Workloads
    /\ client \in [Calls -> Knowledge]
    /\ thread \in [Calls -> Places]
    /\ status \in [Calls -> Statuses]
    /\ data \in [Calls -> Seq(SUBSET Calls)]
    /\ files \in [Files -> Seq(SUBSET Calls)]
    /\ torn \in BOOLEAN
    /\ torn => files["audit"] # <<>>
    /\ lock \in Calls \union {NoCall}
    /\ up \in BOOLEAN
    /\ faults \in 0 .. MaxFaults
    /\ applied \subseteq Calls
    /\ before \in [Calls -> SUBSET Calls]

\* What a file stands for: a rewrite takes effect when it is complete.
Committed(f) ==
    IF lock # NoCall /\ thread[lock] = "write" /\ FileOf(lock) = f THEN data[lock] ELSE files[f]

Log(f) == INSTANCE AtomicLog WITH Updates <- Calls, log <- Committed(f), acked <- Acked(f)

\* "Atomic operations" (sagstate_server.py): until something fails, each file is a log of
\* its calls, each applied in one step and before its client is told, whoever gives up
\* waiting, though one lock serves four files and the audit log none.
ServesAtomicLogs ==
    /\ \A f \in Files : Log(f)!Init
    /\ [][faults' = 0 => \A f \in Files :
             Log(f)!Next \/ UNCHANGED <<Committed(f), Acked(f)>>]_vars

\* Two reviewers, answers that are lost, a server that crashes between emptying the queue
\* and writing it: an item is never decided twice.
DecidedOnce == \A c, d \in applied : Decides(c, d) => c = d

\* Whoever gets a 409 has really been forestalled by the call of somebody else - be it
\* one whose answer was lost, so that nobody knows of the decision.
ConflictIsAnothersDecision ==
    \A c \in Calls : client[c] = "conflict" => \E d \in applied : Decides(c, d) /\ d # c

\* A call that was answered with a refusal (400, 401, 404, 409) has changed nothing and
\* never will: only after a timeout or a 500 does its client not know.
RefusedChangesNothing ==
    \A c \in Calls : client[c] \in {"conflict", "refused"} =>
        c \notin applied /\ thread[c] = "done"

\* Until something fails, a reader without the lock is shown all that was acknowledged
\* before it asked - or of a JSON document that is being rewritten nothing, and of the
\* queue only the first items: but those with their decisions, and none without what was
\* acknowledged before it was added.
ReadsAreUpToDate ==
    \A c \in Reading : client[c] = "ok" /\ faults = 0 =>
        LET shown == Contents(data[c]) IN
        \/ before[c] \subseteq shown
        \/ FileOf(c) \in {"cost", "provenance"} /\ data[c] = <<>>
        \/ /\ FileOf(c) = "queue"
           /\ \A a \in shown, d \in before[c] : Adds(a, d) => d \in shown
           /\ \A a \in shown : req[a].op = "add" => before[a] \subseteq shown

LostRecords == {c \in Calls : /\ client[c] = "ok" /\ req[c].op = "append"
                              /\ c \notin Contents(files["audit"])}

\* The audit log is only appended to: whatever a crash or a fault costs the counter, the
\* queue and the provenance, of the acknowledged records it costs no more than one, the
\* one that is written next.
AuditLosesOnePerFault == Cardinality(LostRecords) <= faults

\* What a client was told holds, and goes on holding, after any crash and fault.
AnswersHold == ConflictIsAnothersDecision /\ RefusedChangesNothing

\* A fault or a conflict inside the lock does not leave the source locked: every request
\* that waits for the lock gets its turn and ends.
NobodyIsLockedOut == \A c \in Calls : thread[c] = "lock" ~> thread[c] = "done"
=============================================================================
