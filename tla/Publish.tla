------------------------------ MODULE Publish ------------------------------
(***************************************************************************)
(* Concurrent publishers of sagctl over one SAG source.                     *)
(*                                                                         *)
(* A process is one running call of publish_one, publish_content,           *)
(* publish_unreviewed, unpublish_one or reprocess_one, past the routing     *)
(* decision: every                                                          *)
(* read or write of shared state (working tree, cost counter, provenance,   *)
(* SAG, audit log) is a step of its own, because nothing in the code holds  *)
(* a lock across two of them.  A call that fails raises out of the whole    *)
(* operation, and a killed process does the same, so Abort stands for both; *)
(* a call whose effect took place but whose answer was lost is the call     *)
(* followed by Abort.  A file outside any Git repository goes the way of    *)
(* an "unreviewed" one: no Git check.                                       *)
(***************************************************************************)
EXTENDS Naturals, FiniteSets

CONSTANTS
    Procs,           \* processes that may run the engine at the same time
    Keys,            \* document keys of the source
    Kinds,           \* operations they run, a subset of AllKinds
    Contents,        \* contents a file may have
    Refused,         \* contents the secret scan does not pass
    Cap,             \* max_publishes_per_day
    PerKeyCap,       \* publishes of one key a day (5 in the code)
    Strategy,        \* "delete_first" or "upload_then_delete"
    ConcurrentEdits, \* may a file change while it is being published?
    LateUploads,     \* may an upload be applied after its client gave up?
    MaxDay,          \* bound: days that pass
    MaxUploads,      \* bound: uploads, beyond which only a lone process repairs an unserved key
    NoDoc,           \* no document id
    NoJob            \* the job of an idle process

AllKinds == {"file", "content", "unreviewed", "unpublish", "reprocess"}

ASSUME ConstantsAssumption ==
    /\ IsFiniteSet(Procs)
    /\ Procs # {}
    /\ Kinds \subseteq AllKinds
    /\ Refused \subseteq Contents
    /\ Cap \in Nat
    /\ PerKeyCap \in Nat
    /\ Strategy \in {"delete_first", "upload_then_delete"}
    /\ ConcurrentEdits \in BOOLEAN
    /\ LateUploads \in BOOLEAN
    /\ MaxDay \in Nat
    /\ MaxUploads \in Nat
    /\ NoDoc \notin Nat

VARIABLES
    file,    \* working tree: the content of each key's file
    head,    \* the content last committed
    docs,    \* SAG: the documents of the source
    late,    \* uploads their client gave up on and SAG has not applied yet
    lastId,  \* SAG: the last document id handed out
    today,   \* the UTC day
    cost,    \* cost.json; day 0 stands for a file that is empty, cut off or not there
    newcost, \* the counter that the holder of the cost lock is writing to the file
    blind,   \* history: the counted publishes whose check met cost.json being rewritten
    unscanned, \* history: keys for which a text went out that no scan has read
    prov,    \* provenance.json: what the state store says of each key
    audit,   \* audit log: its records that name a document
    pc,      \* the next call of each process
    job      \* the local variables of each running operation

counter == <<cost, newcost, blind>>
vars == <<file, head, docs, late, lastId, today, counter, unscanned, prov, audit, pc, job>>

DocIds == Nat \ {0}
Doc == [id : DocIds, key : Keys, bytes : Contents]
AuditRecord == [event : {"published", "unpublished", "reprocessed"},
                id : DocIds, key : Keys]
Cost == [day : Nat, publishes : Nat, per_key : [Keys -> Nat]]
Steps == {"git", "scan", "cap", "read", "prov", "list", "reprocess",
          "delete", "upload", "audit", "bump", "write"}
Publishing == AllKinds \ {"unpublish", "reprocess"}
\* existing: the document that must make way; doc: the one uploaded.
Job == [kind : AllKinds, key : Keys, bytes : Contents,
        existing : DocIds \union {NoDoc}, doc : DocIds \union {NoDoc},
        blind : BOOLEAN]   \* history: its check met a rewrite

ASSUME NoJobAssumption == NoJob \notin Job

NoCost == [day |-> 0, publishes |-> 0, per_key |-> [k \in Keys |-> 0]]
Count(c, k) == [day |-> c.day, publishes |-> c.publishes + 1,
                per_key |-> [c.per_key EXCEPT ![k] = @ + 1]]

Live(k) == {d \in docs : d.key = k}
Busy == {p \in Procs : pc[p] # "idle"}

Init ==
    /\ file \in [Keys -> Contents]
    /\ head = file
    /\ docs = {}
    /\ late = {}
    /\ lastId = 0
    /\ today = 1
    /\ cost = NoCost /\ newcost = NoCost
    /\ blind = NoCost
    /\ unscanned = {}
    /\ prov = [k \in Keys |-> "none"]
    /\ audit = {}
    /\ pc = [p \in Procs |-> "idle"]
    /\ job = [p \in Procs |-> NoJob]

-----------------------------------------------------------------------------
(* Moves of one process.  An operator X_Mutation is X with a plausible bug: it *)
(* is used nowhere, and shows that a property is sensitive to X.               *)

Goto(p, step) == pc' = [pc EXCEPT ![p] = step] /\ UNCHANGED job

Stop_KeepsJob(p) == pc' = [pc EXCEPT ![p] = "idle"] /\ UNCHANGED job

Stop(p) == pc' = [pc EXCEPT ![p] = "idle"] /\ job' = [job EXCEPT ![p] = NoJob]

FirstStep_UnreviewedUnscanned(kind) ==
    CASE kind = "file" -> "git"
      [] kind = "content" -> "scan"
      [] kind = "unreviewed" -> "cap"
      [] kind \in {"unpublish", "reprocess"} -> "list"

FirstStep(kind) ==
    CASE kind = "file" -> "git"
      [] kind = "content" -> "scan"
      [] kind = "unreviewed" -> "scan"
      [] kind \in {"unpublish", "reprocess"} -> "list"

\* The routing decision was AUTO or MANUAL (the other routes never get here).
\* publish_content is handed its text; the others will read it from the file.
Begin(p) ==
    /\ pc[p] = "idle"
    /\ \E kind \in Kinds, k \in Keys, c \in Contents :
          /\ \/ lastId + Cardinality(Busy) < MaxUploads
             \/ Live(k) = {} /\ Busy = {}
          /\ kind # "content" => c = file[k]
          /\ pc' = [pc EXCEPT ![p] = FirstStep(kind)]
          /\ job' = [job EXCEPT ![p] = [kind |-> kind, key |-> k, bytes |-> c,
                                       existing |-> NoDoc, doc |-> NoDoc, blind |-> FALSE]]
    /\ UNCHANGED <<file, head, docs, late, lastId, today, counter, unscanned, prov, audit>>

\* check_git_state: the file has no uncommitted changes.
CheckGit(p) ==
    /\ pc[p] = "git"
    /\ IF file[job[p].key] = head[job[p].key] THEN Goto(p, "scan") ELSE Stop(p)
    /\ UNCHANGED <<file, head, docs, late, lastId, today, counter, unscanned, prov, audit>>

\* check_secret_scan opens the file; check_secret_scan_text has the text.
SecretScan(p) ==
    LET text == IF job[p].kind = "content" THEN job[p].bytes ELSE file[job[p].key]
    IN  /\ pc[p] = "scan"
        /\ IF text \notin Refused THEN Goto(p, "cap") ELSE Stop(p)
        /\ UNCHANGED <<file, head, docs, late, lastId, today, counter, unscanned, prov, audit>>

\* cost_get takes no lock: while the file is being rewritten it finds nothing.
CostGet == IF cost.day = 0 THEN [cost EXCEPT !.day = today] ELSE cost

UnderCap(k) ==
    \/ CostGet.day # today
    \/ CostGet.publishes < Cap /\ CostGet.per_key[k] < PerKeyCap

Rewriting == \E p \in Procs : pc[p] = "write"

PassCap(p) ==
    /\ pc' = [pc EXCEPT ![p] = "read"]
    /\ job' = [job EXCEPT ![p].blind = Rewriting]

CheckCostCap_Reserves(p) ==
    /\ pc[p] = "cap"
    /\ IF ~UnderCap(job[p].key) THEN Stop(p) /\ UNCHANGED cost
       ELSE PassCap(p) /\ cost' = Count(CostGet, job[p].key)
    /\ UNCHANGED <<file, head, docs, late, lastId, today, newcost, blind, unscanned, prov, audit>>

CheckCostCap(p) ==
    /\ pc[p] = "cap"
    /\ IF UnderCap(job[p].key) THEN PassCap(p) ELSE Stop(p)
    /\ UNCHANGED <<file, head, docs, late, lastId, today, counter, unscanned, prov, audit>>

\* The bytes to upload are read from the file again.  Into an authored text goes
\* the caller's derived_from, which no scan has read: it may be anything.
ReadFile(p) ==
    LET k == job[p].key
    IN  /\ pc[p] = "read"
        /\ pc' = [pc EXCEPT ![p] = "prov"]
        /\ \E c \in IF job[p].kind = "content" THEN {job[p].bytes} \union Refused ELSE {file[k]} :
              /\ job' = [job EXCEPT ![p].bytes = c]
              /\ unscanned' = IF job[p].kind = "content" /\ c # job[p].bytes
                              THEN unscanned \union {k} ELSE unscanned
        /\ UNCHANGED <<file, head, docs, late, lastId, today, counter, prov, audit>>

PutProvenance_FilesOnly(p) ==
    /\ pc[p] = "prov"
    /\ prov' = IF job[p].kind = "content" THEN prov
               ELSE [prov EXCEPT ![job[p].key] = "file"]
    /\ Goto(p, "list")
    /\ UNCHANGED <<file, head, docs, late, lastId, today, counter, unscanned, audit>>

PutProvenance(p) ==
    /\ pc[p] = "prov"
    /\ prov' = [prov EXCEPT ![job[p].key] =
                   IF job[p].kind = "content" THEN "authored" ELSE "file"]
    /\ Goto(p, "list")
    /\ UNCHANGED <<file, head, docs, late, lastId, today, counter, unscanned, audit>>

AfterFound_NeverDeletes(kind) ==
    CASE kind = "reprocess" -> "reprocess"
      [] kind = "unpublish" -> "delete"
      [] OTHER -> "upload"

AfterFound_DeletesFirst(kind) == IF kind = "reprocess" THEN "reprocess" ELSE "delete"

\* What follows the listing when it found the document `existing`.
AfterFound(kind) ==
    CASE kind = "reprocess" -> "reprocess"
      [] kind = "unpublish" -> "delete"
      [] OTHER -> IF Strategy = "delete_first" THEN "delete" ELSE "upload"

TooMany_OffByOne(k) == Cardinality(Live(k)) > 2

TooMany(k) == Cardinality(Live(k)) > 1

\* find_existing_by_key: several matches are left to a human.
FindExisting(p) ==
    LET k == job[p].key
    IN  /\ pc[p] = "list"
        /\ \/ /\ TooMany(k)
              /\ Stop(p)
           \/ /\ Live(k) = {}
              /\ IF job[p].kind \in Publishing THEN Goto(p, "upload") ELSE Stop(p)
           \/ \E d \in Live(k) :
                 /\ ~TooMany(k)
                 /\ pc' = [pc EXCEPT ![p] = AfterFound(job[p].kind)]
                 /\ job' = [job EXCEPT ![p].existing = d.id]
        /\ UNCHANGED <<file, head, docs, late, lastId, today, counter, unscanned, prov, audit>>

\* reprocess_one: SAG answers 404 when the document is gone.
Reprocess(p) ==
    /\ pc[p] = "reprocess"
    /\ IF \E d \in docs : d.id = job[p].existing THEN Goto(p, "audit") ELSE Stop(p)
    /\ UNCHANGED <<file, head, docs, late, lastId, today, counter, unscanned, prov, audit>>

\* A 404 counts as success, so a document that is gone already is no obstacle.
DeleteDocument(p) ==
    /\ pc[p] = "delete"
    /\ docs' = {d \in docs : d.id # job[p].existing}
    /\ Goto(p, IF job[p].kind = "unpublish" \/ Strategy = "upload_then_delete"
                 THEN "audit" ELSE "upload")
    /\ UNCHANGED <<file, head, late, lastId, today, counter, unscanned, prov, audit>>

NewDoc(p) == [id |-> lastId + 1, key |-> job[p].key, bytes |-> job[p].bytes]

UploadDocument(p) ==
    /\ pc[p] = "upload"
    /\ docs' = docs \union {NewDoc(p)}
    /\ lastId' = lastId + 1
    /\ pc' = [pc EXCEPT ![p] =
                 IF Strategy = "upload_then_delete" /\ job[p].existing # NoDoc
                 THEN "delete" ELSE "audit"]
    /\ job' = [job EXCEPT ![p].doc = lastId + 1]
    /\ UNCHANGED <<file, head, late, today, counter, unscanned, prov, audit>>

\* The client times out (SagApiError, status 0) while the request is on its way.
UploadTimesOut(p) ==
    /\ LateUploads /\ lastId < MaxUploads
    /\ pc[p] = "upload"
    /\ late' = late \union {NewDoc(p)}
    /\ lastId' = lastId + 1
    /\ Stop(p)
    /\ UNCHANGED <<file, head, docs, today, counter, unscanned, prov, audit>>

Event(kind) ==
    CASE kind = "unpublish" -> "unpublished"
      [] kind = "reprocess" -> "reprocessed"
      [] OTHER -> "published"    \* published_unreviewed counts as published

AppendAudit(p) ==
    LET kind == job[p].kind
    IN  /\ pc[p] = "audit"
        /\ audit' = audit \union
               {[event |-> Event(kind), key |-> job[p].key,
                 id |-> IF kind \in Publishing THEN job[p].doc ELSE job[p].existing]}
        /\ IF kind \in Publishing THEN Goto(p, "bump") ELSE Stop(p)
        /\ UNCHANGED <<file, head, docs, late, lastId, today, counter, unscanned, prov>>

EmptyCost_KeepsPublishes ==
    [day |-> today, publishes |-> cost.publishes, per_key |-> [k \in Keys |-> 0]]

EmptyCost_KeepsPerKey == [day |-> today, publishes |-> 0, per_key |-> cost.per_key]

EmptyCost == [day |-> today, publishes |-> 0, per_key |-> [k \in Keys |-> 0]]

Bumped(k) == Count(IF CostGet.day # today THEN EmptyCost ELSE CostGet, k)

BumpCost_MayRepeat(p) ==
    /\ pc[p] = "bump" /\ ~Rewriting
    /\ \/ newcost' = Bumped(job[p].key) /\ cost' = NoCost /\ Goto(p, "write")
       \/ newcost' = newcost /\ cost' = Bumped(job[p].key) /\ cost.publishes < MaxUploads /\ Goto(p, "bump")
    /\ UNCHANGED <<file, head, docs, late, lastId, today, blind, unscanned, prov, audit>>

\* cost_bump under its lock: the file is read, reset on a new day, incremented,
\* and truncated to be written.
BumpCost(p) ==
    /\ pc[p] = "bump" /\ ~Rewriting
    /\ newcost' = Bumped(job[p].key)
    /\ cost' = NoCost
    /\ blind' = IF job[p].blind THEN Count(blind, job[p].key) ELSE blind
    /\ Goto(p, "write")
    /\ UNCHANGED <<file, head, docs, late, lastId, today, unscanned, prov, audit>>

WriteCost(p) ==
    /\ pc[p] = "write"
    /\ cost' = newcost
    /\ newcost' = NoCost
    /\ Stop(p)
    /\ UNCHANGED <<file, head, docs, late, lastId, today, blind, unscanned, prov, audit>>

\* A call fails and the exception leaves the operation, the process is killed,
\* or the call was a dry run, which ends once it has put the provenance record.
\* Between truncation and write this leaves cost.json empty, and the day starts anew.
Abort(p) ==
    /\ pc[p] # "idle"
    /\ Stop(p)
    /\ IF pc[p] = "write" THEN newcost' = NoCost /\ blind' = NoCost ELSE UNCHANGED <<newcost, blind>>
    /\ UNCHANGED <<file, head, docs, late, lastId, today, cost, unscanned, prov, audit>>

-----------------------------------------------------------------------------
(* The surroundings. *)

\* SAG applies an upload whose client is gone, and names it only now.
LateUploadLands ==
    /\ \E d \in late : /\ docs' = docs \union {[d EXCEPT !.id = lastId + 1]}
                      /\ late' = late \ {d}
    /\ lastId' = lastId + 1
    /\ UNCHANGED <<file, head, today, counter, unscanned, prov, audit, pc, job>>

\* An agent edits a file; it commits what it has.
Edit ==
    /\ \E k \in Keys, c \in Contents :
          /\ ConcurrentEdits \/ \A p \in Busy : job[p].key # k
          /\ c # file[k]
          /\ file' = [file EXCEPT ![k] = c]
          /\ unscanned' = IF \E p \in Busy : /\ job[p].key = k /\ job[p].kind # "content"
                                                    /\ pc[p] \in {"cap", "read"}
                          THEN unscanned \union {k} ELSE unscanned
    /\ UNCHANGED <<head, docs, late, lastId, today, counter, prov, audit, pc, job>>

Commit ==
    /\ \E k \in Keys : head' = [head EXCEPT ![k] = file[k]]
    /\ UNCHANGED <<file, docs, late, lastId, today, counter, unscanned, prov, audit, pc, job>>

NewDay ==
    /\ today < MaxDay
    /\ today' = today + 1
    /\ blind' = NoCost
    /\ UNCHANGED <<file, head, docs, late, lastId, cost, newcost, unscanned, prov, audit, pc, job>>

Step(p) ==
    \/ CheckGit(p) \/ SecretScan(p) \/ CheckCostCap(p) \/ ReadFile(p)
    \/ PutProvenance(p) \/ FindExisting(p) \/ Reprocess(p) \/ DeleteDocument(p)
    \/ UploadDocument(p) \/ AppendAudit(p) \/ BumpCost(p) \/ WriteCost(p)

Next ==
    \/ \E p \in Procs : Begin(p) \/ Step(p) \/ UploadTimesOut(p) \/ Abort(p)
    \/ LateUploadLands \/ Edit \/ Commit \/ NewDay

Spec == Init /\ [][Next]_vars

\* Crashes and failures may recur for ever, but no call fails every time it is
\* reached, none hangs (each has a timeout), and whoever wants the document published runs the command again.
Fairness ==
    /\ WF_vars(\E p \in Procs : Begin(p))
    /\ SF_vars(\E p \in Procs : CheckGit(p))
    /\ SF_vars(\E p \in Procs : SecretScan(p))
    /\ SF_vars(\E p \in Procs : CheckCostCap(p))
    /\ SF_vars(\E p \in Procs : ReadFile(p))
    /\ SF_vars(\E p \in Procs : PutProvenance(p))
    /\ SF_vars(\E p \in Procs : FindExisting(p))
    /\ SF_vars(\E p \in Procs : DeleteDocument(p))
    /\ SF_vars(\E p \in Procs : UploadDocument(p))
    /\ \A p \in Procs : WF_vars(Step(p) \/ Abort(p))

FairSpec == Spec /\ Fairness

-----------------------------------------------------------------------------
(* Properties. *)

\* Shapes of the stores and of the local variables of publish.py: an operation
\* that is over leaves none behind.
TypeOK ==
    /\ file \in [Keys -> Contents] /\ head \in [Keys -> Contents]
    /\ docs \subseteq Doc /\ late \subseteq Doc
    /\ lastId \in Nat
    /\ today \in DocIds
    /\ cost \in Cost /\ newcost \in Cost /\ blind \in Cost
    /\ unscanned \subseteq Keys
    /\ prov \in [Keys -> {"none", "file", "authored"}]
    /\ audit \subseteq AuditRecord
    /\ pc \in [Procs -> Steps \union {"idle"}]
    /\ job \in [Procs -> Job \union {NoJob}]
    /\ \A p \in Procs : job[p] = NoJob <=> pc[p] = "idle"

\* Publishers that check_cost_cap let through and cost_bump has not counted yet.
PastCap ==
    {p \in Busy : /\ job[p].kind \in Publishing
                  /\ pc[p] \in {"read", "prov", "list", "delete", "upload", "audit", "bump"}}
Counter == IF Rewriting THEN newcost ELSE cost   \* what the lock protects
Spent == IF Counter.day = today THEN Counter.publishes ELSE 0
SpentOn(k) == IF Counter.day = today THEN Counter.per_key[k] ELSE 0
PastCapOn(k) == {p \in PastCap : job[p].key = k}
Blind == {p \in Busy : job[p].blind}
LastAllowed(cap) == IF cap = 0 THEN 0 ELSE cap - 1   \* the highest count a check lets through

\* The cap is checked in gate.py, without a lock, long before cost_bump counts the
\* publish.  The day's budget can be overrun, but only by the publishes in flight and
\* those whose check met cost.json while it was being rewritten; after a kill there
\* the budget starts anew.
BudgetOvershootBounded ==
    Spent + Cardinality(PastCap \ Blind) <= LastAllowed(Cap) + Cardinality(Procs) + blind.publishes

\* The same for the republish-loop guard of one key (five a day).
PerKeyOvershootBounded ==
    \A k \in Keys :
       SpentOn(k) + Cardinality(PastCapOn(k) \ Blind)
          <= LastAllowed(PerKeyCap) + Cardinality(Procs) + blind.per_key[k]

\* Deletes and uploads of concurrent publishers interleave and any of them may
\* die half way, yet find_existing_by_key keeps the duplicates of a key to one
\* for each process; one process alone never leaves two documents.
DuplicatesBounded ==
    ~LateUploads =>
       \A k \in Keys : Cardinality(Live(k)) <=
          Cardinality(Procs) + (IF Strategy = "delete_first" THEN 0 ELSE 1)

\* upload_then_delete: whatever publishers and unpublishers do at the same time,
\* only an unpublish takes the last document of a key away.
ReplaceKeepsServed ==
    [][Strategy = "upload_then_delete" =>
         \A k \in Keys : Live(k) # {} /\ Live(k)' = {} =>
            \E p \in Busy : pc[p] = "delete" /\ job[p].kind = "unpublish"]_vars

Bumping == {p \in Busy : pc[p] = "bump"}
Published == {r \in audit : r.event = "published"}

\* audit.append comes before bump_cost_counter: the budget never counts a
\* publish of which there is no record, whatever fails in between.
AuditBacksCounter == cost.publishes + Cardinality(Bumping) <= Cardinality(Published)

\* provenance_put comes before the upload: a document that maintain meets always
\* has a record that tells whether a repository stands behind it.
PublishedHasProvenance == \A d \in docs \union late : prov[d.key] # "none"

\* The scan is mandatory before every upload (secrets_scan.py), yet not all that reaches
\* SAG has passed it: on every path all of the file's or the author's text is scanned,
\* and only a file that is edited between scan and reading, or the derived_from of an
\* authored text, gets past it.
ScannedUnlessChanged ==
    \A d \in docs \union late : d.bytes \in Refused => d.key \in unscanned

\* A crash between delete and upload leaves the key unserved; running the command
\* again repairs it.
Recovers == \A k \in Keys : []<>(Live(k) # {})
=============================================================================
