------------------------------ MODULE FrontEnds ------------------------------
(***************************************************************************)
(* The two front ends of the engine on one document key: sagw               *)
(* (sagw_server.py over mcp_protocol.py), which answers the lines of one    *)
(* agent one after the other, and sagctl, each of whose invocations runs    *)
(* one call, ends with an exit code, and may wait for the document that it  *)
(* published (_wait_for_ready).                                             *)
(*                                                                         *)
(* A call is past its routing decision; its replacement of the document is  *)
(* one step here and taken apart in Publish.  Results stand for what        *)
(* callers see: "done" and "ready" for isError false and exit code 0,       *)
(* "unready" for exit code 2, "api_error" for isError and exit code 3,      *)
(* "error" for any other error and exit code 1.  Times are in eighths of a  *)
(* second, so that every delay of the wait is whole.                        *)
(***************************************************************************)
EXTENDS Integers, Sequences, FiniteSets

CONSTANTS
    Servers,        \* sagw processes
    Commands,       \* sagctl processes
    Workloads,      \* what their agents and users ask: functions to sequences of kinds
    Idless,         \* the <<server, line>> pairs whose line carries no id
    WaitTimeout,    \* --wait-timeout
    RequestTimeout, \* the longest that a request to SAG takes
    MaxFaults,      \* bound on failing calls and killed processes
    MaxBlips,       \* bound on polls without an answer
    NoDoc

Procs == Servers \union Commands
\* hello: initialize, tools/list or ping.  notice: notifications/initialized, an unknown
\* method without an id, an empty or unreadable line.  unknown: any other method or tool
\* that does not exist.  invalid: a tool call without an argument or with an invalid
\* assessment.  misshapen: JSON that is no object, or a tool call whose params are a list
\* or whose tool name cannot be looked up.
Lines == {"hello", "notice", "unknown", "invalid", "misshapen"}
Calls == {"publish", "publish_wait", "unpublish", "reprocess", "status"}
Results == {"done", "ready", "unready", "api_error", "error"}

ASSUME FrontEndsAssumption ==
    /\ Servers \intersect Commands = {}
    /\ \A w \in Workloads :
          /\ w \in [Procs -> Seq(Lines \union Calls)]
          /\ \A p \in Commands : w[p] \in {<<>>} \union {<<c>> : c \in Calls}
          /\ \A p \in Servers : \A i \in 1 .. Len(w[p]) : w[p][i] # "publish_wait"
    /\ Idless \subseteq Servers \X Nat
    /\ WaitTimeout \in Nat /\ RequestTimeout \in Nat
    /\ MaxFaults \in Nat /\ MaxBlips \in Nat
    /\ NoDoc \notin Nat

VARIABLES
    sent,     \* what each process is asked, in this order
    line,     \* how much of it has been taken
    pc,       \* where each process is
    job,      \* its running call
    answers,  \* its answers or exit code: to which line, under which id (0: null), what,
              \* and about which document
    docs,     \* SAG: the status of each document under the key, by id
    lastId,   \* SAG: the last id handed out
    audit,    \* the audit log
    faults, blips,
    served,   \* history: the documents that were once ready and had chunks
    hit       \* history: the <<process, line>> of each call that a fault hit, and the killed

sag == <<docs, lastId>>
history == <<faults, blips, served, hit>>
vars == <<sent, line, pc, job, answers, sag, audit, history>>

Places == {"idle", "find", "effect", "record", "poll", "sleep", "answer", "dead", "exited"}
Statuses == {"none", "pending", "ready", "empty", "failed"}
NoJob == [existing |-> NoDoc, doc |-> NoDoc, seen |-> "none", clock |-> 0, delay |-> 16,
          result |-> "done"]
Op(p) == sent[p][line[p]]

Init ==
    /\ sent \in Workloads
    /\ line = [p \in Procs |-> 0]
    /\ pc = [p \in Procs |-> "idle"]
    /\ job = [p \in Procs |-> NoJob]
    /\ answers = [p \in Procs |-> <<>>]
    /\ docs = [d \in {} |-> "none"]
    /\ lastId = 0
    /\ audit = {}
    /\ faults = 0 /\ blips = 0
    /\ served = {}
    /\ hit = {}

Goto(p, place) == pc' = [pc EXCEPT ![p] = place]
Finish(p, result) ==
    /\ Goto(p, "answer")
    /\ job' = [job EXCEPT ![p].result = result]

-----------------------------------------------------------------------------
(* Lines in, answers out. *)

TakeLine(p, kinds) ==
    /\ pc[p] = "idle" /\ line[p] < Len(sent[p])
    /\ sent[p][line[p] + 1] \in kinds
    /\ line' = [line EXCEPT ![p] = @ + 1]
    /\ UNCHANGED <<sent, answers, sag, audit, history>>

Ignore(p) ==
    /\ TakeLine(p, {"notice"})
    /\ UNCHANGED <<pc, job>>

Hello(p) ==
    /\ TakeLine(p, {"hello"})
    /\ Finish(p, "done")

Refuse_Escapes(p) ==
    /\ TakeLine(p, {"unknown", "invalid"})
    /\ Goto(p, "dead")
    /\ UNCHANGED job

\* Exceptions of a tool's handler become answers.
Refuse(p) ==
    /\ TakeLine(p, {"unknown", "invalid"})
    /\ Finish(p, "error")

\* What the server itself cannot take apart, before it calls a tool, nothing catches.
Stumble(p) ==
    /\ TakeLine(p, {"misshapen"})
    /\ Goto(p, "dead")
    /\ UNCHANGED job

Call_RecordsFirst(p) ==
    /\ TakeLine(p, Calls)
    /\ Goto(p, "record")
    /\ UNCHANGED job

Call(p) ==
    /\ TakeLine(p, Calls)
    /\ Goto(p, "find")
    /\ UNCHANGED job

\* A call without an id is carried out like any other, and answered with id null.
Id(p, n) == IF <<p, n>> \in Idless THEN 0 ELSE n

Answer(p) ==
    /\ pc[p] = "answer"
    /\ answers' = [answers EXCEPT ![p] =
          Append(@, [line |-> line[p], id |-> Id(p, line[p]),
                     result |-> job[p].result, doc |-> job[p].doc])]
    /\ job' = [job EXCEPT ![p] = NoJob]
    /\ Goto(p, IF p \in Commands THEN "exited" ELSE "idle")
    /\ UNCHANGED <<sent, line, sag, audit, history>>

-----------------------------------------------------------------------------
(* The call. *)

\* find_existing_by_key: two documents are an error, as is none but for publish and the
\* server's status.
Find(p) ==
    /\ pc[p] = "find"
    /\ LET ids == DOMAIN docs IN
          \/ /\ \/ Cardinality(ids) > 1
                \/ ids = {} /\ Op(p) \in {"unpublish", "reprocess"}
                \/ ids = {} /\ Op(p) = "status" /\ p \in Commands
             /\ Finish(p, "error")
          \/ /\ Op(p) = "status"
             /\ Cardinality(ids) = 1 \/ (ids = {} /\ p \in Servers)
             /\ Finish(p, "done")
          \/ /\ ids = {} /\ Op(p) \in {"publish", "publish_wait"}
             /\ Goto(p, "effect")
             /\ UNCHANGED job
          \/ \E d \in ids : /\ ids = {d} /\ Op(p) # "status"
                            /\ job' = [job EXCEPT ![p].existing = d]
                            /\ Goto(p, "effect")
    /\ UNCHANGED <<sent, line, answers, sag, audit, history>>

Without(d) == [e \in (DOMAIN docs) \ {d} |-> docs[e]]
With(d, status) == [e \in (DOMAIN docs) \union {d} |-> IF e = d THEN status ELSE docs[e]]
Upload(d) ==
    /\ docs' = [e \in ((DOMAIN docs) \ {d}) \union {lastId + 1} |->
                   IF e = lastId + 1 THEN "pending" ELSE docs[e]]
    /\ lastId' = lastId + 1

\* What the requests of a call do to SAG; deleting what is gone is no error.
Change(p) ==
    \/ /\ Op(p) \in {"publish", "publish_wait"}
       /\ Upload(job[p].existing)
    \/ /\ Op(p) = "unpublish"
       /\ docs' = Without(job[p].existing)
       /\ UNCHANGED lastId
    \/ /\ Op(p) = "reprocess" /\ job[p].existing \in DOMAIN docs
       /\ docs' = With(job[p].existing, "pending")
       /\ UNCHANGED lastId

Effect(p) ==
    /\ pc[p] = "effect"
    /\ \/ /\ Change(p)
          /\ job' = [job EXCEPT ![p] = [@ EXCEPT !.existing = NoDoc, !.doc =
                IF Op(p) \in {"publish", "publish_wait"} THEN lastId' ELSE job[p].existing]]
          /\ Goto(p, "record")
       \/ /\ Op(p) = "reprocess" /\ job[p].existing \notin DOMAIN docs
          /\ Finish(p, "api_error")
          /\ UNCHANGED sag
    /\ UNCHANGED <<sent, line, answers, audit, history>>

Event(op) == IF op = "publish_wait" THEN "publish" ELSE op

Record(p) ==
    /\ pc[p] = "record"
    /\ audit' = audit \union {<<Event(Op(p)), job[p].doc>>}
    /\ \/ Op(p) = "publish_wait" /\ Goto(p, "poll") /\ UNCHANGED job
       \/ Op(p) # "publish_wait" /\ Finish(p, "done")
    /\ UNCHANGED <<sent, line, answers, sag, history>>

-----------------------------------------------------------------------------
(* _wait_for_ready *)

Lesser(a, b) == IF a < b THEN a ELSE b

\* ready without chunks is no success.
Judge(status) == IF status = "ready" THEN "ready" ELSE "unready"

\* The deadline has passed: the last status counts, if there is one.
StopWaiting(p) ==
    /\ pc[p] = "poll" /\ job[p].clock >= WaitTimeout
    /\ Finish(p, Judge(job[p].seen))
    /\ UNCHANGED <<sent, line, answers, sag, audit, history>>

\* HTTP 404: somebody has replaced or removed the document meanwhile.
PollFindsNothing(p) ==
    /\ pc[p] = "poll" /\ job[p].clock < WaitTimeout
    /\ job[p].doc \notin DOMAIN docs
    /\ Finish(p, "api_error")
    /\ UNCHANGED <<sent, line, answers, sag, audit, history>>

Poll(p) ==
    /\ pc[p] = "poll" /\ job[p].clock < WaitTimeout
    /\ job[p].doc \in DOMAIN docs
    /\ LET status == docs[job[p].doc]
           over == status # "pending"
       IN  \E took \in {0, RequestTimeout} :
              /\ job' = [job EXCEPT ![p] = [@ EXCEPT
                    !.seen = status, !.clock = job[p].clock + took,
                    !.result = IF over THEN Judge(status) ELSE job[p].result]]
              /\ Goto(p, IF over THEN "answer" ELSE "sleep")
    /\ UNCHANGED <<sent, line, answers, sag, audit, history>>

Blip_Raises(p) ==
    /\ pc[p] = "poll" /\ blips < MaxBlips
    /\ blips' = blips + 1
    /\ Finish(p, "api_error")
    /\ UNCHANGED <<sent, line, answers, sag, audit, faults, served, hit>>

\* Status 0, the request timed out or found no connection: the wait goes on.
Blip(p) ==
    /\ pc[p] = "poll" /\ job[p].clock < WaitTimeout /\ blips < MaxBlips
    /\ blips' = blips + 1
    /\ \E took \in {0, RequestTimeout} : job' = [job EXCEPT ![p].clock = @ + took]
    /\ Goto(p, "sleep")
    /\ UNCHANGED <<sent, line, answers, sag, audit, faults, served, hit>>

Sleep(p) ==
    /\ pc[p] = "sleep"
    /\ LET left == IF job[p].clock < WaitTimeout THEN WaitTimeout - job[p].clock ELSE 0 IN
       job' = [job EXCEPT ![p] = [@ EXCEPT
          !.clock = job[p].clock + Lesser(job[p].delay, left),
          !.delay = Lesser((job[p].delay * 3) \div 2, 80)]]
    /\ Goto(p, "poll")
    /\ UNCHANGED <<sent, line, answers, sag, audit, history>>

-----------------------------------------------------------------------------
(* SAG, and what may fail. *)

Ingest(d) ==
    /\ docs[d] = "pending"
    /\ \E status \in {"ready", "empty", "failed"} :
          /\ docs' = [docs EXCEPT ![d] = status]
          /\ served' = IF status = "ready" THEN served \union {d} ELSE served
    /\ UNCHANGED <<sent, line, pc, job, answers, lastId, audit, faults, blips, hit>>

CountFault(p) ==
    /\ faults < MaxFaults
    /\ faults' = faults + 1
    /\ hit' = hit \union {<<p, line[p]>>}
    /\ UNCHANGED <<sent, line, answers, blips, served>>

RecordFails_IsIgnored(p) ==
    /\ pc[p] = "record"
    /\ CountFault(p)
    /\ Finish(p, "done")
    /\ UNCHANGED <<sag, audit>>

\* StateError, which no command catches.
RecordFails(p) ==
    /\ pc[p] = "record"
    /\ CountFault(p)
    /\ Finish(p, "error")
    /\ UNCHANGED <<sag, audit>>

\* SagApiError; the requests may have taken effect all the same, or the first of the two
\* of a replacement.
RequestFails(p) ==
    /\ pc[p] \in {"find", "effect", "poll"}
    /\ CountFault(p)
    /\ Finish(p, "api_error")
    /\ \/ UNCHANGED sag
       \/ pc[p] = "effect" /\ Change(p)
       \/ /\ pc[p] = "effect" /\ Op(p) \in {"publish", "publish_wait"}
          /\ docs' = Without(job[p].existing)
          /\ UNCHANGED lastId
    /\ UNCHANGED audit

Kill(p) ==
    /\ pc[p] \notin {"dead", "exited"}
    /\ CountFault(p)
    /\ Goto(p, "dead")
    /\ job' = [job EXCEPT ![p] = NoJob]
    /\ UNCHANGED <<sag, audit>>

Proceed(p) ==
    \/ Ignore(p) \/ Hello(p) \/ Refuse(p) \/ Stumble(p) \/ Call(p) \/ Answer(p)
    \/ Find(p) \/ Effect(p) \/ Record(p)
    \/ StopWaiting(p) \/ PollFindsNothing(p) \/ Poll(p) \/ Blip(p) \/ Sleep(p)
    \/ RecordFails(p) \/ RequestFails(p)

Next ==
    \/ \E p \in Procs : Proceed(p) \/ Kill(p)
    \/ \E d \in DOMAIN docs : Ingest(d)

Spec == Init /\ [][Next]_vars

\* Processes run.  Nothing says that SAG ever processes a document.
FairSpec == Spec /\ \A p \in Procs : WF_vars(Proceed(p))

-----------------------------------------------------------------------------

TypeOK ==
    /\ sent \in Workloads
    /\ line \in [Procs -> Nat]
    /\ \A p \in Procs : line[p] <= Len(sent[p])
    /\ pc \in [Procs -> Places]
    /\ job \in [Procs -> [existing : Nat \union {NoDoc}, doc : Nat \union {NoDoc},
                          seen : Statuses, clock : Nat, delay : 16 .. 80, result : Results]]
    /\ answers \in [Procs -> Seq([line : Nat, id : Nat, result : Results,
                                  doc : Nat \union {NoDoc}])]
    /\ lastId \in Nat
    /\ DOMAIN docs \subseteq 1 .. lastId
    /\ \A d \in DOMAIN docs : docs[d] \in Statuses
    /\ audit \subseteq (Calls \X (1 .. lastId))
    /\ faults \in 0 .. MaxFaults /\ blips \in 0 .. MaxBlips
    /\ served \subseteq 1 .. lastId
    /\ hit \subseteq (Procs \X Nat)

Given == UNION {{p} \X (1 .. Len(answers[p])) : p \in Procs}
Answered(g) == answers[g[1]][g[2]]
Asked(g) == sent[g[1]][Answered(g).line]

\* serve_forever: an agent, which knows an answer by its id, gets one to every line that
\* asks for one and none under the id of another; all come in the order of their lines,
\* none twice, whatever fails in between.
InOrder ==
    \A p \in Procs :
        LET asking == {i \in 1 .. line[p] : sent[p][i] # "notice" /\ <<p, i>> \notin Idless}
            given == {answers[p][i].id : i \in 1 .. Len(answers[p])} \ {0}
            open == IF pc[p] \in {"idle", "exited"} THEN {} ELSE {line[p]}
        IN  /\ given \subseteq asking /\ asking \subseteq given \union open
            /\ \A i \in 1 .. Len(answers[p]) : answers[p][i].id \in {0, answers[p][i].line}
            /\ \A i, j \in 1 .. Len(answers[p]) :
                  i < j => answers[p][i].line < answers[p][j].line

\* A call that ends well is in the audit log, and what it unpublished is gone for good.
DoneIsDone ==
    \A g \in Given :
        Asked(g) \in Calls \ {"status"} /\ Answered(g).result \in {"done", "ready"} =>
            /\ <<Event(Asked(g)), Answered(g).doc>> \in audit
            /\ Asked(g) = "unpublish" => Answered(g).doc \notin DOMAIN docs

\* What agents and users are told is true: the right line is answered, and "done" is done.
AnswersAreTrue == InOrder /\ DoneIsDone

\* _wait_for_ready is at most one request late; it says ready only of a document that could
\* be searched; and unless a request fails for good, it ends in an error only if somebody
\* took the document away.
WaitKeepsItsWord ==
    /\ \A p \in Procs : job[p].clock <= WaitTimeout + RequestTimeout
    /\ \A g \in Given : Asked(g) = "publish_wait" =>
          /\ Answered(g).result = "ready" => Answered(g).doc \in served
          /\ Answered(g).result = "api_error" /\ Answered(g).doc # NoDoc =>
                \/ Answered(g).doc \notin DOMAIN docs
                \/ <<g[1], Answered(g).line>> \in hit

\* Every line is dealt with and every invocation ends, though SAG may never process what
\* is waited for, unless the process is killed or sent what it cannot take apart.
EveryLineIsServed ==
    \A p \in Procs :
        <>(\/ line[p] = Len(sent[p]) /\ pc[p] \in {"idle", "exited"}
           \/ pc[p] = "dead" /\ (<<p, line[p]>> \in hit \/ Op(p) = "misshapen"))
=============================================================================
