--------------------------- MODULE PublishProofs ---------------------------
(* Theorems about Publish, for every value of its constants. *)
EXTENDS Publish, FiniteSetTheorems, TLAPS

USE ConstantsAssumption, NoJobAssumption DEF counter

-----------------------------------------------------------------------------
(* Type correctness.  That the audit log holds document ids depends on what an *)
(* operation carries when it reaches the audit step, so TypeOK is proved       *)
(* together with LocalsOK.                                                     *)

\* Which operation is where, and which documents it knows by then.
Locals(p) ==
    /\ pc[p] \notin {"list", "reprocess", "delete", "audit"} => job[p].kind \in Publishing
    /\ pc[p] = "reprocess" => job[p].kind = "reprocess"
    /\ pc[p] = "delete" => job[p].kind # "reprocess" /\ job[p].existing \in DocIds
    /\ pc[p] \in {"reprocess", "audit"} /\ job[p].kind \notin Publishing
          => job[p].existing \in DocIds
    /\ (job[p].kind \in Publishing
          /\ (pc[p] = "audit" \/ (pc[p] = "delete" /\ Strategy = "upload_then_delete")))
          => job[p].doc \in DocIds

LocalsOK == \A p \in Busy : Locals(p)

\* The local variables of a busy process are those of an operation.
LEMMA BusyJob ==
    ASSUME TypeOK, NEW p \in Procs, pc[p] # "idle"
    PROVE  job[p] \in Job
BY DEF TypeOK

\* The bounds of a move: one process, and only its own program counter and locals.
LEMMA GotoType ==
    ASSUME TypeOK, NEW p \in Procs, NEW step \in Steps, pc[p] # "idle", Goto(p, step)
    PROVE  /\ pc' \in [Procs -> Steps \union {"idle"}]
           /\ job' \in [Procs -> Job \union {NoJob}]
           /\ \A q \in Procs : job'[q] = NoJob <=> pc'[q] = "idle"
BY DEF TypeOK, Goto, Steps

LEMMA StopType ==
    ASSUME TypeOK, NEW p \in Procs, Stop(p)
    PROVE  /\ pc' \in [Procs -> Steps \union {"idle"}]
           /\ job' \in [Procs -> Job \union {NoJob}]
           /\ \A q \in Procs : job'[q] = NoJob <=> pc'[q] = "idle"
BY DEF TypeOK, Stop, Steps

\* A move that also changes the local variables.
LEMMA MoveType ==
    ASSUME TypeOK, NEW p \in Procs, NEW step \in Steps, NEW j \in Job,
           pc' = [pc EXCEPT ![p] = step], job' = [job EXCEPT ![p] = j]
    PROVE  /\ pc' \in [Procs -> Steps \union {"idle"}]
           /\ job' \in [Procs -> Job \union {NoJob}]
           /\ \A q \in Procs : job'[q] = NoJob <=> pc'[q] = "idle"
BY DEF TypeOK, Steps

\* What cost_get returns is a counter, even when there is no file.
LEMMA CostGetType ==
    ASSUME TypeOK
    PROVE  CostGet \in Cost /\ CostGet.publishes = cost.publishes
BY DEF TypeOK, CostGet, Cost, DocIds

\* Counters: none yet, one more, and what cost_bump writes.
LEMMA NoCostType == NoCost \in Cost
BY DEF NoCost, Cost

LEMMA CountType ==
    ASSUME NEW c \in Cost, NEW k \in Keys
    PROVE  /\ Count(c, k) \in Cost
           /\ Count(c, k).day = c.day /\ Count(c, k).publishes = c.publishes + 1
           /\ \A i \in Keys : Count(c, k).per_key[i] = IF i = k THEN c.per_key[i] + 1
                                                                   ELSE c.per_key[i]
<1>1. Count(c, k) = [day |-> c.day, publishes |-> c.publishes + 1,
                     per_key |-> [c.per_key EXCEPT ![k] = @ + 1]]
  BY DEF Count
<1>2. /\ Count(c, k).day = c.day /\ Count(c, k).publishes = c.publishes + 1
      /\ Count(c, k).per_key = [c.per_key EXCEPT ![k] = @ + 1]
  BY <1>1
<1>3. /\ c.day \in Nat /\ c.publishes \in Nat /\ c.per_key \in [Keys -> Nat]
  BY DEF Cost
<1>4. QED
  BY <1>1, <1>2, <1>3 DEF Cost

LEMMA BumpedType ==
    ASSUME TypeOK, NEW k \in Keys
    PROVE  Bumped(k) \in Cost
<1>1. EmptyCost \in Cost
  BY DEF EmptyCost, Cost, TypeOK, DocIds
<1>2. QED
  BY <1>1, CostGetType, CountType DEF Bumped

\* Every step keeps the stores and the local variables in shape.
LEMMA TypeStep ==
    ASSUME TypeOK, LocalsOK, [Next]_vars
    PROVE  TypeOK'
<1>1. CASE UNCHANGED vars
  BY <1>1 DEF TypeOK, vars
<1>2. ASSUME NEW p \in Procs, Begin(p)
      PROVE  TypeOK'
  <2>1. PICK kind \in Kinds, k \in Keys, c \in Contents :
           /\ pc' = [pc EXCEPT ![p] = FirstStep(kind)]
           /\ job' = [job EXCEPT ![p] = [kind |-> kind, key |-> k, bytes |-> c,
                                         existing |-> NoDoc, doc |-> NoDoc, blind |-> FALSE]]
    BY <1>2 DEF Begin
  <2>2. FirstStep(kind) \in Steps
    BY DEF FirstStep, Steps, AllKinds
  <2>3. [kind |-> kind, key |-> k, bytes |-> c, existing |-> NoDoc, doc |-> NoDoc, blind |-> FALSE] \in Job
    BY DEF Job
  <2>4. QED
    BY <1>2, <2>1, <2>2, <2>3, MoveType DEF TypeOK, Begin
<1>3. ASSUME NEW p \in Procs, CheckGit(p)
      PROVE  TypeOK'
  BY <1>3, GotoType, StopType DEF TypeOK, CheckGit, Steps
<1>4. ASSUME NEW p \in Procs, SecretScan(p)
      PROVE  TypeOK'
  BY <1>4, GotoType, StopType DEF TypeOK, SecretScan, Steps
<1>5. ASSUME NEW p \in Procs, CheckCostCap(p)
      PROVE  TypeOK'
  <2>1. CASE Stop(p)
    BY <1>5, <2>1, StopType DEF TypeOK, CheckCostCap
  <2>2. CASE PassCap(p)
    <3>1. [job[p] EXCEPT !.blind = Rewriting] \in Job
      BY <1>5, BusyJob DEF CheckCostCap, Job, Rewriting
    <3>2. QED
      BY <1>5, <2>2, <3>1, MoveType DEF TypeOK, CheckCostCap, PassCap, Steps
  <2>3. QED
    BY <1>5, <2>1, <2>2 DEF CheckCostCap
<1>6. ASSUME NEW p \in Procs, ReadFile(p)
      PROVE  TypeOK'
  <2>1. PICK c \in Contents : job' = [job EXCEPT ![p].bytes = c]
    BY <1>6, BusyJob DEF ReadFile, Job, TypeOK
  <2>2. [job[p] EXCEPT !.bytes = c] \in Job /\ job[p].key \in Keys
    BY <1>6, BusyJob DEF ReadFile, Job
  <2>3. unscanned' \subseteq Keys
    BY <1>6, <2>2 DEF ReadFile, TypeOK
  <2>4. /\ pc' \in [Procs -> Steps \union {"idle"}]
        /\ job' \in [Procs -> Job \union {NoJob}]
        /\ \A q \in Procs : job'[q] = NoJob <=> pc'[q] = "idle"
    BY <1>6, <2>1, <2>2, MoveType DEF ReadFile, Steps
  <2>5. QED
    BY <1>6, <2>3, <2>4 DEF TypeOK, ReadFile
<1>7. ASSUME NEW p \in Procs, PutProvenance(p)
      PROVE  TypeOK'
  BY <1>7, GotoType, BusyJob DEF TypeOK, PutProvenance, Steps, Job
<1>8. ASSUME NEW p \in Procs, FindExisting(p)
      PROVE  TypeOK'
  <2>1. CASE Stop(p)
    BY <1>8, <2>1, StopType DEF TypeOK, FindExisting
  <2>2. CASE Goto(p, "upload")
    BY <1>8, <2>2, GotoType DEF TypeOK, FindExisting, Steps
  <2>3. ASSUME NEW d \in docs,
               pc' = [pc EXCEPT ![p] = AfterFound(job[p].kind)],
               job' = [job EXCEPT ![p].existing = d.id]
        PROVE  TypeOK'
    <3>1. [job[p] EXCEPT !.existing = d.id] \in Job
      BY <1>8, BusyJob DEF FindExisting, Job, TypeOK, Doc
    <3>2. AfterFound(job[p].kind) \in Steps
      BY DEF AfterFound, Steps
    <3>3. QED
      BY <1>8, <2>3, <3>1, <3>2, MoveType DEF TypeOK, FindExisting
  <2>4. QED
    BY <1>8, <2>1, <2>2, <2>3 DEF FindExisting, Live
<1>9. ASSUME NEW p \in Procs, Reprocess(p)
      PROVE  TypeOK'
  BY <1>9, GotoType, StopType DEF TypeOK, Reprocess, Steps
<1>10. ASSUME NEW p \in Procs, DeleteDocument(p)
       PROVE  TypeOK'
  BY <1>10, GotoType DEF TypeOK, DeleteDocument, Steps
<1>11. ASSUME NEW p \in Procs, UploadDocument(p)
       PROVE  TypeOK'
  <2>1. NewDoc(p) \in Doc /\ [job[p] EXCEPT !.doc = lastId + 1] \in Job /\ lastId + 1 \in Nat
    BY <1>11, BusyJob DEF UploadDocument, NewDoc, Doc, Job, DocIds, TypeOK
  <2>2. QED
    BY <1>11, <2>1, MoveType DEF TypeOK, UploadDocument, Steps
<1>12. ASSUME NEW p \in Procs, UploadTimesOut(p)
       PROVE  TypeOK'
  <2>1. NewDoc(p) \in Doc /\ lastId + 1 \in Nat
    BY <1>12, BusyJob DEF UploadTimesOut, NewDoc, Doc, Job, DocIds, TypeOK
  <2>2. QED
    BY <1>12, <2>1, StopType DEF TypeOK, UploadTimesOut
<1>13. ASSUME NEW p \in Procs, AppendAudit(p)
       PROVE  TypeOK'
  <2>1. job[p] \in Job
    BY <1>13, BusyJob DEF AppendAudit
  <2>2. [event |-> Event(job[p].kind), key |-> job[p].key,
             id |-> IF job[p].kind \in Publishing THEN job[p].doc ELSE job[p].existing]
           \in AuditRecord
    BY <1>13, <2>1 DEF AuditRecord, Job, Event, AppendAudit, LocalsOK, Locals, Busy
  <2>3. QED
    BY <1>13, <2>2, GotoType, StopType DEF TypeOK, AppendAudit, Steps
<1>14. ASSUME NEW p \in Procs, BumpCost(p)
       PROVE  TypeOK'
  <2>1. job[p].key \in Keys
    BY <1>14, BusyJob DEF BumpCost, Job
  <2>2. newcost' \in Cost /\ cost' \in Cost
    BY <1>14, <2>1, BumpedType, NoCostType DEF BumpCost
  <2>3. blind' \in Cost
    BY <1>14, <2>1, CountType DEF BumpCost, TypeOK
  <2>4. QED
    BY <1>14, <2>2, <2>3, GotoType DEF TypeOK, BumpCost, Steps
<1>14a. ASSUME NEW p \in Procs, WriteCost(p)
        PROVE  TypeOK'
  BY <1>14a, NoCostType, StopType DEF TypeOK, WriteCost
<1>15. ASSUME NEW p \in Procs, Abort(p)
       PROVE  TypeOK'
  BY <1>15, NoCostType, StopType DEF TypeOK, Abort
<1>16. CASE LateUploadLands
  BY <1>16 DEF TypeOK, LateUploadLands, Doc, DocIds
<1>17. CASE Edit
  BY <1>17 DEF TypeOK, Edit
<1>18. CASE Commit
  BY <1>18 DEF TypeOK, Commit
<1>19. CASE NewDay
  BY <1>19, NoCostType DEF TypeOK, NewDay, DocIds
<1>20. QED
  BY <1>1, <1>2, <1>3, <1>4, <1>5, <1>6, <1>7, <1>8, <1>9, <1>10, <1>11, <1>12,
     <1>13, <1>14, <1>14a, <1>15, <1>16, <1>17, <1>18, <1>19 DEF Next, Step

Moves(p) == Begin(p) \/ Step(p) \/ UploadTimesOut(p) \/ Abort(p)

\* A step moves one process, and leaves the others where they are.
LEMMA OthersStay ==
    ASSUME TypeOK, NEW p \in Procs, Moves(p), NEW q \in Procs, p # q
    PROVE  pc'[q] = pc[q] /\ job'[q] = job[q]
BY DEF Moves, Begin, Step, CheckGit, SecretScan, CheckCostCap, PassCap, ReadFile, PutProvenance,
   FindExisting, Reprocess, DeleteDocument, UploadDocument, AppendAudit, BumpCost, WriteCost,
   UploadTimesOut, Abort, Goto, Stop, TypeOK

LEMMA OnlyOneMoves ==
    ASSUME TypeOK, [Next]_vars, NEW q \in Procs
    PROVE  \/ pc'[q] = pc[q] /\ job'[q] = job[q]
           \/ Begin(q) \/ Step(q) \/ UploadTimesOut(q) \/ Abort(q)
<1>1. CASE UNCHANGED <<pc, job>>
  BY <1>1
<1>2. ASSUME NEW p \in Procs, p # q, Moves(p)
      PROVE  pc'[q] = pc[q] /\ job'[q] = job[q]
  BY <1>2, OthersStay
<1>3. QED
  BY <1>1, <1>2 DEF Next, vars, Moves, LateUploadLands, Edit, Commit, NewDay

\* Where documents come from: they were there, or an upload brings them.
LEMMA NewDocuments ==
    ASSUME TypeOK, [Next]_vars, NEW d \in docs' \union late'
    PROVE  \/ \E e \in docs \union late : d.key = e.key /\ d.bytes = e.bytes
           \/ \E p \in Procs : pc[p] = "upload" /\ d = NewDoc(p)
<1>1. CASE UNCHANGED <<docs, late>>
  BY <1>1
<1>2. CASE \E p \in Procs : DeleteDocument(p)
  BY <1>2 DEF DeleteDocument
<1>3. CASE \E p \in Procs : UploadDocument(p) \/ UploadTimesOut(p)
  BY <1>3 DEF UploadDocument, UploadTimesOut
<1>4. CASE LateUploadLands
  BY <1>4 DEF LateUploadLands, TypeOK, Doc
<1>5. QED
  BY <1>1, <1>2, <1>3, <1>4 DEF Next, Step, vars, Begin, CheckGit, SecretScan,
     CheckCostCap, PassCap, ReadFile, PutProvenance, FindExisting, Reprocess, AppendAudit,
     BumpCost, WriteCost, Abort, Edit, Commit, NewDay

\* Past the check a call goes on to read, and the check and the reading leave it all its
\* local variables but one.
LEMMA CapMove ==
    ASSUME TypeOK, NEW p \in Procs, CheckCostCap(p), pc'[p] # "idle"
    PROVE  /\ pc[p] = "cap" /\ pc'[p] = "read" /\ PassCap(p)
           /\ job[p] \in Job /\ job'[p].blind = Rewriting
           /\ job'[p].kind = job[p].kind /\ job'[p].key = job[p].key
           /\ job'[p].bytes = job[p].bytes
           /\ job'[p].existing = job[p].existing /\ job'[p].doc = job[p].doc
<1>1. pc[p] = "cap" /\ PassCap(p)
  BY DEF CheckCostCap, Stop, TypeOK
<1>2. job[p] \in Job
  BY <1>1, BusyJob
<1>3. QED
  BY <1>1, <1>2 DEF PassCap, Job, TypeOK

LEMMA ReadMove ==
    ASSUME TypeOK, NEW p \in Procs, ReadFile(p)
    PROVE  /\ pc[p] = "read" /\ pc'[p] = "prov"
           /\ job[p] \in Job /\ job'[p].blind = job[p].blind
           /\ job'[p].kind = job[p].kind /\ job'[p].key = job[p].key
           /\ job'[p].existing = job[p].existing /\ job'[p].doc = job[p].doc
           /\ IF job[p].kind = "content"
                THEN /\ job'[p].bytes \in {job[p].bytes} \union Refused
                     /\ job'[p].bytes # job[p].bytes => job[p].key \in unscanned'
                ELSE job'[p].bytes = file[job[p].key]
<1>1. job[p] \in Job /\ pc[p] = "read"
  BY BusyJob DEF ReadFile
<1>2. PICK c : /\ c \in IF job[p].kind = "content" THEN {job[p].bytes} \union Refused
                                                    ELSE {file[job[p].key]}
               /\ job' = [job EXCEPT ![p].bytes = c]
               /\ unscanned' = IF job[p].kind = "content" /\ c # job[p].bytes
                               THEN unscanned \union {job[p].key} ELSE unscanned
  BY DEF ReadFile
<1>3. /\ job'[p].bytes = c /\ job'[p].kind = job[p].kind /\ job'[p].key = job[p].key
      /\ job'[p].existing = job[p].existing /\ job'[p].doc = job[p].doc
      /\ job'[p].blind = job[p].blind
  BY <1>1, <1>2 DEF TypeOK, Job
<1>4. QED
  BY <1>1, <1>2, <1>3 DEF ReadFile, TypeOK

\* Every step leaves each operation with the documents its next call needs.
LEMMA LocalsStep ==
    ASSUME TypeOK, LocalsOK, [Next]_vars
    PROVE  LocalsOK'
<1>1. SUFFICES ASSUME NEW q \in Procs, pc'[q] # "idle"
               PROVE  Locals(q)'
  BY DEF LocalsOK, Busy
<1>2. CASE pc'[q] = pc[q] /\ job'[q] = job[q]
  BY <1>1, <1>2 DEF LocalsOK, Locals, Busy
<1>3. CASE Begin(q)
  <2>1. PICK kind \in Kinds, k \in Keys, c \in Contents :
           /\ pc' = [pc EXCEPT ![q] = FirstStep(kind)]
           /\ job' = [job EXCEPT ![q] = [kind |-> kind, key |-> k, bytes |-> c,
                                         existing |-> NoDoc, doc |-> NoDoc, blind |-> FALSE]]
    BY <1>3 DEF Begin
  <2>2. pc'[q] = FirstStep(kind) /\ job'[q].kind = kind
    BY <2>1 DEF TypeOK
  <2>3. /\ FirstStep(kind) \in {"git", "scan", "list"}
        /\ FirstStep(kind) = "list" \/ kind \in Publishing
    BY DEF FirstStep, AllKinds, Publishing
  <2>4. pc'[q] \in {"git", "scan", "list"} /\ (pc'[q] = "list" \/ job'[q].kind \in Publishing)
    BY <2>2, <2>3
  <2>5. QED
    BY <2>4 DEF Locals, Publishing
<1>4. CASE CheckGit(q) \/ SecretScan(q) \/ PutProvenance(q)
  BY <1>1, <1>4 DEF CheckGit, SecretScan, PutProvenance, Goto, Stop,
     LocalsOK, Locals, Busy, TypeOK
<1>5. CASE CheckCostCap(q) \/ ReadFile(q)
  BY <1>1, <1>5, CapMove, ReadMove DEF LocalsOK, Locals, Busy
<1>6. CASE FindExisting(q)
  BY <1>1, <1>6, BusyJob DEF FindExisting, Goto, Stop, AfterFound, Live,
     LocalsOK, Locals, Busy, TypeOK, Job, Doc, Publishing, AllKinds
<1>7. CASE Reprocess(q) \/ DeleteDocument(q)
  BY <1>1, <1>7, BusyJob DEF Reprocess, DeleteDocument, Goto, Stop,
     LocalsOK, Locals, Busy, TypeOK, Job, Publishing, AllKinds
<1>8. CASE UploadDocument(q)
  <2>1. job[q] \in Job /\ Locals(q)
    BY <1>8, BusyJob DEF UploadDocument, LocalsOK, Busy
  <2>2. /\ job'[q].kind = job[q].kind /\ job'[q].existing = job[q].existing
        /\ job'[q].doc = lastId + 1
    BY <1>8, <2>1 DEF UploadDocument, TypeOK, Job
  <2>3. pc'[q] = "audit" \/ (pc'[q] = "delete" /\ job[q].existing \in DocIds)
    BY <1>8, <2>1 DEF UploadDocument, TypeOK, Job
  <2>4. job[q].kind \in Publishing /\ lastId + 1 \in DocIds
    BY <1>8, <2>1 DEF UploadDocument, Locals, TypeOK, DocIds
  <2>5. QED
    BY <2>2, <2>3, <2>4 DEF Locals, Publishing
<1>9. CASE AppendAudit(q)
  BY <1>1, <1>9 DEF AppendAudit, Goto, Stop, LocalsOK, Locals, Busy, TypeOK
<1>10. CASE BumpCost(q)
  BY <1>1, <1>10 DEF BumpCost, Goto, LocalsOK, Locals, Busy, TypeOK
<1>10a. CASE WriteCost(q) \/ Abort(q) \/ UploadTimesOut(q)
  BY <1>1, <1>10a DEF WriteCost, Abort, UploadTimesOut, Stop, TypeOK
<1>11. QED
  BY <1>2, <1>3, <1>4, <1>5, <1>6, <1>7, <1>8, <1>9, <1>10, <1>10a,
     OnlyOneMoves DEF Step

LEMMA InitType == Init => TypeOK /\ LocalsOK
BY NoCostType DEF Init, TypeOK, LocalsOK, Busy, DocIds

\* Shapes of the stores and of the local variables of publish.py.
THEOREM TypeCorrect == Spec => []TypeOK
<1>1. Init => TypeOK /\ LocalsOK
  BY InitType
<1>2. TypeOK /\ LocalsOK /\ [Next]_vars => (TypeOK /\ LocalsOK)'
  BY TypeStep, LocalsStep
<1>3. QED
  BY <1>1, <1>2, PTL DEF Spec

-----------------------------------------------------------------------------
(* What reaches SAG: PublishedHasProvenance and ScannedUnlessChanged. *)

\* Who is past PutProvenance has put the record of its key, and records stay.
RecordedOK ==
    \A p \in Busy :
       job[p].kind \in Publishing /\ pc[p] \in {"list", "delete", "upload"}
          => prov[job[p].key] # "none"

LEMMA RecordedStep ==
    ASSUME TypeOK, LocalsOK, RecordedOK, PublishedHasProvenance, [Next]_vars
    PROVE  RecordedOK' /\ PublishedHasProvenance'
<1>1. \A k \in Keys : prov[k] # "none" => prov'[k] # "none"
  BY DEF Next, Step, vars, Begin, CheckGit, SecretScan, CheckCostCap, PassCap, ReadFile,
     PutProvenance, FindExisting, Reprocess, DeleteDocument, UploadDocument,
     UploadTimesOut, AppendAudit, BumpCost, WriteCost, Abort, LateUploadLands, Edit, Commit,
     NewDay, TypeOK
<1>2. ASSUME NEW q \in Procs, pc'[q] # "idle", job'[q].kind \in Publishing,
             pc'[q] \in {"list", "delete", "upload"}
      PROVE  prov'[job'[q].key] # "none"
  <2>1. CASE pc'[q] = pc[q] /\ job'[q] = job[q]
    BY <1>1, <1>2, <2>1, BusyJob DEF RecordedOK, Busy, Job
  <2>2. CASE Begin(q)
    BY <1>2, <2>2 DEF Begin, FirstStep, Publishing, AllKinds, TypeOK
  <2>3. CASE PutProvenance(q)
    BY <1>2, <2>3, BusyJob DEF PutProvenance, Goto, Job, TypeOK
  <2>4. CASE FindExisting(q)
    BY <1>1, <1>2, <2>4, BusyJob DEF FindExisting, Goto, Stop, AfterFound, Publishing,
       AllKinds, Job, TypeOK, RecordedOK, Busy
  <2>5. CASE Reprocess(q) \/ DeleteDocument(q)
    BY <1>1, <1>2, <2>5, BusyJob DEF Reprocess, DeleteDocument, Goto, Stop, Publishing,
       Job, TypeOK, RecordedOK, Busy
  <2>6. CASE UploadDocument(q)
    BY <1>1, <1>2, <2>6, BusyJob DEF UploadDocument, Job, TypeOK, RecordedOK, Busy
  <2>6a. CASE CheckCostCap(q) \/ ReadFile(q)
    BY <1>2, <2>6a, CapMove, ReadMove
  <2>7. CASE \/ CheckGit(q) \/ SecretScan(q) \/ AppendAudit(q) \/ BumpCost(q) \/ WriteCost(q) \/ UploadTimesOut(q) \/ Abort(q)
    BY <1>2, <2>7 DEF CheckGit, SecretScan, AppendAudit, BumpCost, WriteCost,
       UploadTimesOut, Abort, Goto, Stop, TypeOK
  <2>8. QED
    BY <2>1, <2>2, <2>3, <2>4, <2>5, <2>6, <2>6a, <2>7, OnlyOneMoves DEF Step
<1>3. RecordedOK'
  BY <1>2 DEF RecordedOK, Busy, Publishing
<1>4. ASSUME NEW d \in docs' \union late'
      PROVE  prov'[d.key] # "none"
  <2>1. \/ \E e \in docs \union late : d.key = e.key
        \/ \E p \in Procs : pc[p] = "upload" /\ d = NewDoc(p)
    BY NewDocuments
  <2>2. CASE \E e \in docs \union late : d.key = e.key
    BY <1>1, <2>2 DEF PublishedHasProvenance, TypeOK, Doc
  <2>3. ASSUME NEW p \in Procs, pc[p] = "upload", d = NewDoc(p)
        PROVE  prov'[d.key] # "none"
    BY <1>1, <2>3, BusyJob DEF NewDoc, RecordedOK, LocalsOK, Locals, Busy, Job
  <2>4. QED
    BY <2>1, <2>2, <2>3
<1>5. QED
  BY <1>3, <1>4 DEF PublishedHasProvenance

\* provenance_put before the upload: whatever maintain finds has a record.
THEOREM ProvenanceFirst == Spec => []PublishedHasProvenance
<1>1. Init => TypeOK /\ LocalsOK /\ RecordedOK /\ PublishedHasProvenance
  BY InitType DEF Init, RecordedOK, PublishedHasProvenance, Busy
<1>2. TypeOK /\ LocalsOK /\ RecordedOK /\ PublishedHasProvenance /\ [Next]_vars
         => (TypeOK /\ LocalsOK /\ RecordedOK /\ PublishedHasProvenance)'
  BY TypeStep, LocalsStep, RecordedStep
<1>3. QED
  BY <1>1, <1>2, PTL DEF Spec

\* What each publisher carries once it is past the scan was passed by it, unless
\* the file was edited in between or the caller's derived_from went with the text.
Scanned(p) ==
    /\ pc[p] \in {"cap", "read"} /\ job[p].kind # "content"
          => file[job[p].key] \notin Refused \/ job[p].key \in unscanned
    /\ pc[p] \in {"cap", "read"} /\ job[p].kind = "content" => job[p].bytes \notin Refused
    /\ pc[p] \in {"prov", "list", "delete", "upload"} /\ job[p].kind \in Publishing
          => job[p].bytes \notin Refused \/ job[p].key \in unscanned

ScannedOK == \A p \in Busy : Scanned(p)

\* What was not scanned stays so, and a file that changes after its scan is noted.
LEMMA UnscannedGrows ==
    ASSUME TypeOK, [Next]_vars
    PROVE  /\ unscanned \subseteq unscanned'
           /\ \A q \in Busy : pc[q] \in {"cap", "read"} /\ job[q].kind # "content" =>
                 file'[job[q].key] = file[job[q].key] \/ job[q].key \in unscanned'
<1>1. CASE Edit
  BY <1>1 DEF Edit, Busy, TypeOK
<1>2. CASE \E p \in Procs : ReadFile(p)
  BY <1>2 DEF ReadFile
<1>3. CASE UNCHANGED <<file, unscanned>>
  BY <1>3
<1>4. QED
  BY <1>1, <1>2, <1>3 DEF Next, Step, vars, Begin, CheckGit, SecretScan, CheckCostCap, PassCap,
     PutProvenance, FindExisting, Reprocess, DeleteDocument, UploadDocument,
     UploadTimesOut, AppendAudit, BumpCost, WriteCost, Abort, LateUploadLands, Commit, NewDay

LEMMA ScannedStep ==
    ASSUME TypeOK, LocalsOK, ScannedOK, ScannedUnlessChanged, [Next]_vars
    PROVE  ScannedOK' /\ ScannedUnlessChanged'
<1>1. ASSUME NEW q \in Procs, pc[q] # "idle"
      PROVE  Scanned(q) /\ job[q] \in Job
  BY <1>1, BusyJob DEF ScannedOK, Busy
<1>2. ASSUME NEW q \in Procs, pc'[q] # "idle"
      PROVE  Scanned(q)'
  <2>1. CASE pc'[q] = pc[q] /\ job'[q] = job[q]
    BY <1>1, <1>2, <2>1, UnscannedGrows DEF Scanned, Busy, Publishing, AllKinds
  <2>2. CASE Begin(q)
    <3>1. PICK kind \in Kinds, k \in Keys, c \in Contents :
             /\ pc' = [pc EXCEPT ![q] = FirstStep(kind)]
             /\ job' = [job EXCEPT ![q] = [kind |-> kind, key |-> k, bytes |-> c,
                                           existing |-> NoDoc, doc |-> NoDoc, blind |-> FALSE]]
      BY <2>2 DEF Begin
    <3>2. pc'[q] \in {"git", "scan"} \/ (pc'[q] = "list" /\ job'[q].kind \notin Publishing)
      BY <3>1 DEF TypeOK, FirstStep, AllKinds, Publishing
    <3>3. QED
      BY <3>2 DEF Scanned, Publishing, AllKinds
  <2>3. CASE CheckGit(q)
    BY <1>2, <2>3 DEF CheckGit, Goto, Stop, Scanned, TypeOK, Publishing, AllKinds
  <2>4. CASE SecretScan(q)
    BY <1>2, <2>4 DEF SecretScan, Goto, Stop, Scanned, TypeOK, Publishing, AllKinds
  <2>5. CASE CheckCostCap(q)
    <3>1. file' = file /\ unscanned' = unscanned
      BY <2>5 DEF CheckCostCap
    <3>2. QED
      BY <1>1, <1>2, <2>5, <3>1, CapMove DEF Scanned
  <2>6. CASE ReadFile(q)
    BY <1>1, <2>6, ReadMove, UnscannedGrows DEF Scanned
  <2>7. CASE PutProvenance(q) \/ Reprocess(q) \/ DeleteDocument(q) \/ AppendAudit(q) \/ BumpCost(q)
    <3>1. /\ pc[q] \in {"prov", "reprocess", "delete", "audit", "bump"}
          /\ job'[q] = job[q] /\ unscanned' = unscanned /\ pc'[q] \notin {"cap", "read"}
          /\ pc'[q] \in {"prov", "list", "delete", "upload"} => pc[q] \in {"prov", "delete"}
      BY <1>2, <2>7 DEF PutProvenance, Reprocess, DeleteDocument, AppendAudit, BumpCost,
         Goto, Stop, TypeOK
    <3>2. QED
      BY <1>1, <3>1 DEF Scanned, Publishing, AllKinds
  <2>8. CASE FindExisting(q)
    <3>1. job[q] \in Job /\ Scanned(q) /\ unscanned' = unscanned
      BY <1>1, <2>8 DEF FindExisting
    <3>2. /\ pc'[q] \in {"upload", "delete", "reprocess"} /\ job'[q].key = job[q].key
          /\ job'[q].bytes = job[q].bytes /\ job'[q].kind = job[q].kind
      BY <1>2, <2>8, <3>1 DEF FindExisting, Goto, Stop, AfterFound, TypeOK, Job
    <3>3. QED
      BY <2>8, <3>1, <3>2 DEF FindExisting, Scanned, Publishing, AllKinds
  <2>9. CASE UploadDocument(q)
    <3>1. job[q] \in Job /\ Scanned(q) /\ unscanned' = unscanned
      BY <1>1, <2>9 DEF UploadDocument
    <3>2. /\ pc'[q] \in {"delete", "audit"} /\ job'[q].key = job[q].key
          /\ job'[q].bytes = job[q].bytes /\ job'[q].kind = job[q].kind
      BY <2>9, <3>1 DEF UploadDocument, TypeOK, Job
    <3>3. QED
      BY <2>9, <3>1, <3>2 DEF UploadDocument, Scanned, Publishing, AllKinds
  <2>10. CASE WriteCost(q) \/ UploadTimesOut(q) \/ Abort(q)
    BY <1>2, <2>10 DEF WriteCost, UploadTimesOut, Abort, Stop, TypeOK
  <2>11. QED
    BY <2>1, <2>2, <2>3, <2>4, <2>5, <2>6, <2>7, <2>8, <2>9, <2>10, OnlyOneMoves DEF Step
<1>3. ScannedOK'
  BY <1>2 DEF ScannedOK, Busy
<1>4. ASSUME NEW d \in docs' \union late', d.bytes \in Refused
      PROVE  d.key \in unscanned'
  <2>1. ASSUME NEW p \in Procs, pc[p] = "upload", d = NewDoc(p)
        PROVE  d.key \in unscanned'
    BY <1>4, <2>1, UnscannedGrows DEF NewDoc, ScannedOK, Scanned, LocalsOK, Locals, Busy
  <2>2. QED
    BY <1>4, <2>1, NewDocuments, UnscannedGrows DEF ScannedUnlessChanged
<1>5. QED
  BY <1>3, <1>4 DEF ScannedUnlessChanged

\* Whatever reaches SAG was passed by the secret scan, on every path and however files are
\* edited meanwhile, but for a file edited between its scan and its reading, and for the
\* derived_from that goes with an authored text.
THEOREM WhatWasScanned == Spec => []ScannedUnlessChanged
<1>1. Init => TypeOK /\ LocalsOK /\ ScannedOK /\ ScannedUnlessChanged
  BY InitType DEF Init, ScannedOK, ScannedUnlessChanged, Busy
<1>2. TypeOK /\ LocalsOK /\ ScannedOK /\ ScannedUnlessChanged /\ [Next]_vars
         => (TypeOK /\ LocalsOK /\ ScannedOK /\ ScannedUnlessChanged)'
  BY TypeStep, LocalsStep, ScannedStep
<1>3. QED
  BY <1>1, <1>2, PTL DEF Spec

-----------------------------------------------------------------------------
(* The documents of SAG: what a step does to them. *)

\* A step adds one document with a new id, takes one away, or leaves them alone.
LEMMA DocsMoves ==
    ASSUME TypeOK, [Next]_vars
    PROVE  \/ docs' = docs /\ lastId' \in {lastId, lastId + 1}
           \/ \E d \in Doc : docs' = docs \union {d} /\ d.id = lastId + 1 /\ lastId' = lastId + 1
           \/ lastId' = lastId /\ \E p \in Procs : DeleteDocument(p)
<1>1. CASE UNCHANGED <<docs, lastId>>
  BY <1>1
<1>2. ASSUME NEW p \in Procs, UploadDocument(p)
      PROVE  \E d \in Doc : docs' = docs \union {d} /\ d.id = lastId + 1 /\ lastId' = lastId + 1
  <2>1. NewDoc(p) \in Doc /\ NewDoc(p).id = lastId + 1
    BY <1>2, BusyJob DEF UploadDocument, NewDoc, Doc, Job, DocIds, TypeOK
  <2>2. QED
    BY <1>2, <2>1 DEF UploadDocument
<1>3. CASE LateUploadLands
  <2>1. PICK d \in late : docs' = docs \union {[d EXCEPT !.id = lastId + 1]}
    BY <1>3 DEF LateUploadLands
  <2>2. [d EXCEPT !.id = lastId + 1] \in Doc /\ [d EXCEPT !.id = lastId + 1].id = lastId + 1
    BY DEF TypeOK, Doc, DocIds
  <2>3. QED
    BY <1>3, <2>1, <2>2 DEF LateUploadLands
<1>4. ASSUME NEW p \in Procs, UploadTimesOut(p)
      PROVE  docs' = docs /\ lastId' \in {lastId, lastId + 1}
  BY <1>4 DEF UploadTimesOut
<1>5. ASSUME NEW p \in Procs, DeleteDocument(p)
      PROVE  lastId' = lastId
  BY <1>5 DEF DeleteDocument
<1>6. QED
  BY <1>1, <1>2, <1>3, <1>4, <1>5 DEF Next, Step, vars, Begin, CheckGit, SecretScan,
     CheckCostCap, PassCap, ReadFile, PutProvenance, FindExisting, Reprocess, AppendAudit,
     BumpCost, WriteCost, Abort, Edit, Commit, NewDay

\* SAG holds finitely many documents, with ids of their own up to lastId.
DocsOK ==
    /\ IsFiniteSet(docs)
    /\ \A d \in docs : d.id <= lastId
    /\ \A d, e \in docs : d.id = e.id => d = e

LEMMA DocsStep ==
    ASSUME TypeOK, DocsOK, [Next]_vars
    PROVE  DocsOK'
<1>1. CASE docs' = docs /\ lastId' \in {lastId, lastId + 1}
  BY <1>1 DEF DocsOK, TypeOK, Doc, DocIds
<1>2. ASSUME NEW d \in Doc, docs' = docs \union {d}, d.id = lastId + 1, lastId' = lastId + 1
      PROVE  DocsOK'
  BY <1>2, FS_AddElement DEF DocsOK, TypeOK, Doc, DocIds
<1>3. ASSUME NEW p \in Procs, DeleteDocument(p), lastId' = lastId
      PROVE  DocsOK'
  <2>1. docs' \in SUBSET docs
    BY <1>3 DEF DeleteDocument
  <2>2. QED
    BY <1>3, <2>1, FS_Subset DEF DocsOK
<1>4. QED
  BY <1>1, <1>2, <1>3, DocsMoves

\* find_existing_by_key goes on with a document only if it is the only one.
LEMMA OnlyMatch ==
    ASSUME DocsOK, NEW k, NEW d \in Live(k), ~TooMany(k)
    PROVE  Live(k) = {d}
<1>1. Live(k) \in SUBSET docs
  BY DEF Live
<1>2. IsFiniteSet(Live(k)) /\ Cardinality(Live(k)) \in Nat
  BY <1>1, FS_Subset, FS_CardinalityType DEF DocsOK
<1>3. Cardinality(Live(k)) # 0
  BY <1>2, FS_EmptySet
<1>4. Cardinality(Live(k)) = 1
  BY <1>2, <1>3 DEF TooMany
<1>5. QED
  BY <1>2, <1>4, FS_Singleton

-----------------------------------------------------------------------------
(* ReplaceKeepsServed: the document a publisher is going to delete is older   *)
(* than its own, and than every other one of the key; so its own is there for *)
(* as long as the old one is.                                                 *)

Targets(p) ==
    job[p].existing \in DocIds =>
       /\ job[p].existing <= lastId
       /\ \A d \in docs : /\ d.key = job[p].key => job[p].existing <= d.id
                          /\ d.id = job[p].existing => d.key = job[p].key

Guarded(p) ==
    pc[p] = "delete" /\ job[p].kind \in Publishing /\ Strategy = "upload_then_delete" =>
       /\ job[p].existing < job[p].doc
       /\ (\E d \in docs : d.id = job[p].existing)
            => \E e \in docs : e.id = job[p].doc /\ e.key = job[p].key

ReplaceOK == \A p \in Busy : Targets(p) /\ Guarded(p)

\* Stores that another process, or SAG, changes do not disturb a waiting process.
LEMMA OthersKeepReplace ==
    ASSUME TypeOK, LocalsOK, DocsOK, ReplaceOK, [Next]_vars,
           NEW q \in Procs, pc[q] # "idle", pc'[q] = pc[q], job'[q] = job[q]
    PROVE  Targets(q)' /\ Guarded(q)'
<1>1. job[q] \in Job /\ Locals(q) /\ Targets(q) /\ Guarded(q)
  BY BusyJob DEF LocalsOK, ReplaceOK, Busy
<1>2. CASE docs' = docs /\ lastId' \in {lastId, lastId + 1}
  BY <1>1, <1>2 DEF Targets, Guarded, Publishing, AllKinds, DocIds, TypeOK
<1>3. ASSUME NEW n \in Doc, docs' = docs \union {n}, n.id = lastId + 1, lastId' = lastId + 1
      PROVE  Targets(q)' /\ Guarded(q)'
  <2>1. Targets(q)'
    BY <1>1, <1>3 DEF Targets, DocIds, TypeOK, Doc
  <2>2. Guarded(q)'
    BY <1>1, <1>3 DEF Targets, Guarded, Publishing, AllKinds, Locals, DocIds, TypeOK, Doc
  <2>3. QED
    BY <2>1, <2>2
<1>4. ASSUME NEW p \in Procs, DeleteDocument(p), lastId' = lastId
      PROVE  Targets(q)' /\ Guarded(q)'
  <2>1. docs' = {d \in docs : d.id # job[p].existing}
    BY <1>4 DEF DeleteDocument
  <2>2. Targets(q)'
    BY <1>1, <1>4, <2>1 DEF Targets, DocIds
  <2>3. job[p].existing \in DocIds /\ Targets(p)
    BY <1>4 DEF DeleteDocument, LocalsOK, Locals, ReplaceOK, Busy
  <2>4. ASSUME pc[q] = "delete", job[q].kind \in Publishing, Strategy = "upload_then_delete",
               NEW d \in docs', d.id = job[q].existing
        PROVE  \E e \in docs' : e.id = job[q].doc /\ e.key = job[q].key
    <3>1. PICK e \in docs : e.id = job[q].doc /\ e.key = job[q].key
      BY <1>1, <2>1, <2>4 DEF Guarded
    <3>2. ASSUME e.id = job[p].existing
          PROVE  FALSE
      <4>1. d.key = job[q].key /\ job[q].existing < e.id
        BY <1>1, <2>1, <2>4, <3>1 DEF Targets, Guarded, Locals
      <4>2. job[p].existing <= d.id
        BY <2>1, <2>3, <3>1, <3>2, <4>1 DEF Targets
      <4>3. QED
        BY <2>1, <2>3, <2>4, <3>2, <4>1, <4>2 DEF TypeOK, Doc, DocIds
    <3>3. QED
      BY <2>1, <3>1, <3>2
  <2>5. Guarded(q)'
    BY <1>1, <2>4 DEF Guarded, Publishing, AllKinds
  <2>6. QED
    BY <2>2, <2>5
<1>5. QED
  BY <1>2, <1>3, <1>4, DocsMoves

LEMMA ReplaceStep ==
    ASSUME TypeOK, LocalsOK, DocsOK, ReplaceOK, [Next]_vars
    PROVE  ReplaceOK'
<1>1. SUFFICES ASSUME NEW q \in Procs, pc'[q] # "idle"
               PROVE  Targets(q)' /\ Guarded(q)'
  BY DEF ReplaceOK, Busy
<1>2. CASE pc'[q] = pc[q] /\ job'[q] = job[q]
  BY <1>1, <1>2, OthersKeepReplace
<1>3. CASE Begin(q)
  <2>1. job'[q].existing = NoDoc /\ pc'[q] # "delete"
    BY <1>3 DEF Begin, FirstStep, TypeOK, AllKinds
  <2>2. QED
    BY <2>1 DEF Targets, Guarded, DocIds
<1>4. CASE \/ CheckGit(q) \/ SecretScan(q) \/ PutProvenance(q)
           \/ Reprocess(q) \/ AppendAudit(q) \/ BumpCost(q)
  <2>1. pc[q] # "idle" /\ job'[q] = job[q] /\ pc'[q] # "delete" /\ UNCHANGED <<docs, lastId>>
    BY <1>1, <1>4 DEF CheckGit, SecretScan, PutProvenance, Reprocess,
       AppendAudit, BumpCost, Goto, Stop, TypeOK
  <2>2. QED
    BY <2>1 DEF ReplaceOK, Busy, Targets, Guarded, DocIds
<1>5. CASE CheckCostCap(q) \/ ReadFile(q)
  <2>1. /\ pc[q] # "idle" /\ pc'[q] \in {"read", "prov"} /\ UNCHANGED <<docs, lastId>>
        /\ job'[q].existing = job[q].existing /\ job'[q].key = job[q].key
    BY <1>1, <1>5, CapMove, ReadMove DEF CheckCostCap, ReadFile
  <2>2. QED
    BY <2>1 DEF ReplaceOK, Busy, Targets, Guarded, DocIds
<1>6. CASE FindExisting(q)
  <2>1. job[q] \in Job /\ Targets(q) /\ UNCHANGED <<docs, lastId>>
    BY <1>6, BusyJob DEF FindExisting, ReplaceOK, Busy
  <2>2. CASE Goto(q, "upload")
    BY <1>6, <2>1, <2>2 DEF Goto, Targets, Guarded, TypeOK, DocIds
  <2>3. ASSUME NEW d \in Live(job[q].key), ~TooMany(job[q].key),
               pc' = [pc EXCEPT ![q] = AfterFound(job[q].kind)],
               job' = [job EXCEPT ![q].existing = d.id]
        PROVE  Targets(q)' /\ Guarded(q)'
    <3>1. /\ job'[q].existing = d.id /\ job'[q].key = job[q].key
          /\ job'[q].kind = job[q].kind /\ pc'[q] = AfterFound(job[q].kind)
      BY <2>1, <2>3 DEF TypeOK, Job
    <3>2. d \in docs /\ d.key = job[q].key /\ d.id <= lastId
          /\ \A e \in docs : e.key = job[q].key => e = d
      BY <2>3, OnlyMatch DEF Live, DocsOK
    <3>3. \A e \in docs : e.id = d.id => e.key = job[q].key
      BY <3>2 DEF DocsOK
    <3>4. Targets(q)'
      BY <2>1, <3>1, <3>2, <3>3 DEF Targets, TypeOK, Doc, DocIds
    <3>5. Guarded(q)'
      BY <2>1, <3>1 DEF Guarded, AfterFound, Publishing, AllKinds
    <3>6. QED
      BY <3>4, <3>5
  <2>4. QED
    BY <1>1, <1>6, <2>2, <2>3 DEF FindExisting, Stop, TypeOK
<1>7. CASE DeleteDocument(q)
  <2>1. /\ pc[q] # "idle" /\ job'[q] = job[q] /\ pc'[q] # "delete" /\ lastId' = lastId
        /\ docs' \subseteq docs
    BY <1>7 DEF DeleteDocument, Goto, TypeOK
  <2>2. QED
    BY <2>1 DEF ReplaceOK, Busy, Targets, Guarded, DocIds
<1>8. CASE UploadDocument(q)
  <2>1. job[q] \in Job /\ Targets(q)
    BY <1>8, BusyJob DEF UploadDocument, ReplaceOK, Busy
  <2>2. /\ job'[q].existing = job[q].existing /\ job'[q].key = job[q].key
        /\ job'[q].doc = lastId + 1 /\ lastId' = lastId + 1
        /\ docs' = docs \union {NewDoc(q)}
        /\ pc'[q] = "delete" => job[q].existing \in DocIds
    BY <1>8, <2>1 DEF UploadDocument, TypeOK, Job
  <2>3. NewDoc(q).id = lastId + 1 /\ NewDoc(q).key = job[q].key
    BY DEF NewDoc
  <2>4. Targets(q)'
    BY <2>1, <2>2, <2>3 DEF Targets, TypeOK, DocIds
  <2>5. Guarded(q)'
    BY <2>1, <2>2, <2>3 DEF Targets, Guarded, TypeOK, DocIds
  <2>6. QED
    BY <2>4, <2>5
<1>9. CASE WriteCost(q) \/ UploadTimesOut(q) \/ Abort(q)
  BY <1>1, <1>9 DEF WriteCost, UploadTimesOut, Abort, Stop, TypeOK
<1>10. QED
  BY <1>2, <1>3, <1>4, <1>5, <1>6, <1>7, <1>8, <1>9, OnlyOneMoves DEF Step

\* Only an unpublish takes the last document of a key away.
LEMMA OnlyUnpublishEmpties ==
    ASSUME TypeOK, LocalsOK, DocsOK, ReplaceOK, [Next]_vars,
           Strategy = "upload_then_delete",
           NEW k \in Keys, Live(k) # {}, Live(k)' = {}
    PROVE  \E p \in Busy : pc[p] = "delete" /\ job[p].kind = "unpublish"
<1>1. PICK d \in docs : d.key = k /\ d \notin docs'
  BY DEF Live
<1>2. PICK p \in Procs : DeleteDocument(p)
  BY <1>1, DocsMoves
<1>3. /\ p \in Busy /\ pc[p] = "delete" /\ docs' = {e \in docs : e.id # job[p].existing}
      /\ job[p] \in Job /\ Locals(p) /\ Targets(p) /\ Guarded(p)
  BY <1>2, BusyJob DEF DeleteDocument, LocalsOK, ReplaceOK, Busy
<1>4. d.id = job[p].existing /\ job[p].key = k
  BY <1>1, <1>3 DEF Targets, Locals
<1>5. ASSUME job[p].kind \in Publishing
      PROVE  FALSE
  <2>1. PICK e \in docs : e.id = job[p].doc /\ e.key = k
    BY <1>1, <1>3, <1>4, <1>5 DEF Guarded
  <2>2. e.id # job[p].existing
    BY <1>3, <1>5, <2>1 DEF Guarded, Locals, DocIds
  <2>3. QED
    BY <1>3, <2>1, <2>2 DEF Live
<1>6. QED
  BY <1>3, <1>5 DEF Locals, Publishing, Job

\* upload_then_delete never leaves a key it replaces without a document.
THEOREM ReplacementIsSafe == Spec => ReplaceKeepsServed
<1>1. Init => TypeOK /\ LocalsOK /\ DocsOK /\ ReplaceOK
  BY InitType, FS_EmptySet DEF Init, DocsOK, ReplaceOK, Busy
<1>2. TypeOK /\ LocalsOK /\ DocsOK /\ ReplaceOK /\ [Next]_vars
         => (TypeOK /\ LocalsOK /\ DocsOK /\ ReplaceOK)'
  BY TypeStep, LocalsStep, DocsStep, ReplaceStep
<1>3. TypeOK /\ LocalsOK /\ DocsOK /\ ReplaceOK /\ [Next]_vars
         => [Strategy = "upload_then_delete" =>
               \A k \in Keys : Live(k) # {} /\ Live(k)' = {} =>
                  \E p \in Busy : pc[p] = "delete" /\ job[p].kind = "unpublish"]_vars
  BY OnlyUnpublishEmpties
<1>4. QED
  BY <1>1, <1>2, <1>3, PTL DEF Spec, ReplaceKeepsServed

-----------------------------------------------------------------------------
(* The caps.  A publisher enters PastCap when the count is below the cap, or   *)
(* blind; it leaves it when it adds to the count.  The count is the one that   *)
(* the lock protects: the file, or what its holder is about to write.          *)

\* One process at a time rewrites the file, which is empty meanwhile; an empty file
\* stands for an empty count, and the count is never of a day to come.
CostOK ==
    /\ \A p, q \in Procs : pc[p] = "write" /\ pc[q] = "write" => p = q
    /\ Rewriting => cost = NoCost
    /\ cost.day <= today /\ newcost.day <= today
    /\ cost.day = 0 => cost.publishes = 0 /\ \A k \in Keys : cost.per_key[k] = 0
    /\ newcost.day = 0 => newcost.publishes = 0 /\ \A k \in Keys : newcost.per_key[k] = 0

\* Counting processes: fewer of them, and one fewer.
LEMMA CountStep ==
    ASSUME NEW P \in SUBSET Procs, NEW Q \in SUBSET Procs
    PROVE  /\ Cardinality(P) \in Nat /\ Cardinality(Q) \in Nat
           /\ Cardinality(Q) <= Cardinality(Procs)
           /\ Q \subseteq P => Cardinality(Q) <= Cardinality(P)
           /\ (\E x \in P : Q \subseteq P \ {x}) => Cardinality(Q) + 1 <= Cardinality(P)
<1>1. /\ IsFiniteSet(P) /\ IsFiniteSet(Q) /\ Cardinality(Q) <= Cardinality(Procs)
      /\ Cardinality(P) \in Nat /\ Cardinality(Q) \in Nat
  BY FS_Subset, FS_CardinalityType
<1>2. Q \subseteq P => Cardinality(Q) <= Cardinality(P)
  BY <1>1, FS_Subset
<1>3. ASSUME NEW x \in P, Q \subseteq P \ {x}
      PROVE  Cardinality(Q) + 1 <= Cardinality(P)
  <2>1. IsFiniteSet(P \ {x}) /\ Cardinality(P \ {x}) = Cardinality(P) - 1
    BY <1>1, FS_RemoveElement
  <2>2. Cardinality(Q) <= Cardinality(P \ {x})
    BY <1>3, <2>1, FS_Subset
  <2>3. QED
    BY <1>1, <2>1, <2>2
<1>4. QED
  BY <1>1, <1>2, <1>3

\* A process gets past the cap by CheckCostCap only, and keeps its key and its blindness.
LEMMA PastCapEntry ==
    ASSUME TypeOK, LocalsOK, [Next]_vars, NEW q \in PastCap'
    PROVE  \/ q \in PastCap /\ job'[q].key = job[q].key /\ job'[q].blind = job[q].blind
           \/ CheckCostCap(q)
<1>1. /\ q \in Procs /\ pc'[q] # "idle" /\ job'[q].kind \in Publishing
      /\ pc'[q] \in {"read", "prov", "list", "delete", "upload", "audit", "bump"}
  BY DEF PastCap, Busy, Publishing, AllKinds
<1>2. CASE pc'[q] = pc[q] /\ job'[q] = job[q]
  BY <1>1, <1>2 DEF PastCap, Busy
<1>3. CASE Begin(q)
  BY <1>1, <1>3 DEF Begin, FirstStep, Publishing, AllKinds, TypeOK
<1>4. CASE \/ CheckGit(q) \/ SecretScan(q) \/ BumpCost(q) \/ WriteCost(q)
           \/ Abort(q) \/ UploadTimesOut(q)
  BY <1>1, <1>4 DEF CheckGit, SecretScan, BumpCost, WriteCost, Abort, UploadTimesOut,
     Goto, Stop, TypeOK
<1>5. CASE ReadFile(q)
  <2>1. q \in Busy /\ pc[q] = "read" /\ job[q].kind \in Publishing
    BY <1>1, <1>5, ReadMove DEF Busy
  <2>2. QED
    BY <1>1, <1>5, <2>1, ReadMove DEF PastCap
<1>5a. CASE FindExisting(q) \/ UploadDocument(q)
  <2>1. pc[q] \in {"list", "upload"}
    BY <1>5a DEF FindExisting, UploadDocument
  <2>2. job[q] \in Job
    BY <1>1, <2>1, BusyJob
  <2>3. /\ job'[q].kind = job[q].kind /\ job'[q].key = job[q].key
        /\ job'[q].blind = job[q].blind
    BY <1>1, <1>5a, <2>2 DEF FindExisting, UploadDocument, Goto, Stop, TypeOK, Job
  <2>4. QED
    BY <1>1, <2>1, <2>3 DEF PastCap, Busy
<1>6. CASE PutProvenance(q) \/ Reprocess(q) \/ DeleteDocument(q) \/ AppendAudit(q)
  <2>1. job'[q] = job[q] /\ pc[q] \in {"prov", "reprocess", "delete", "audit"} /\ Locals(q)
    BY <1>1, <1>6 DEF PutProvenance, Reprocess, DeleteDocument, AppendAudit, Goto, Stop,
       TypeOK, LocalsOK, Busy
  <2>2. QED
    BY <1>1, <2>1 DEF PastCap, Busy, Locals, Publishing, AllKinds
<1>7. QED
  BY <1>1, <1>2, <1>3, <1>4, <1>5, <1>5a, <1>6, OnlyOneMoves DEF Step

\* Who goes on being past the cap, is not blind, and was so before, was not blind either.
LEMMA SightedEntry ==
    ASSUME TypeOK, LocalsOK, [Next]_vars, NEW q \in (PastCap \ Blind)'
    PROVE  \/ q \in PastCap \ Blind /\ job'[q].key = job[q].key
           \/ CheckCostCap(q) /\ ~Rewriting
<1>1. q \in PastCap' /\ q \in Procs /\ pc'[q] # "idle" /\ ~job'[q].blind
  BY DEF PastCap, Blind, Busy, Publishing, AllKinds
<1>2. CASE q \in PastCap /\ job'[q].key = job[q].key /\ job'[q].blind = job[q].blind
  BY <1>1, <1>2 DEF Blind
<1>3. CASE CheckCostCap(q)
  BY <1>1, <1>3, CapMove
<1>4. QED
  BY <1>1, <1>2, <1>3, PastCapEntry

\* A process begins to write in BumpCost only.
LEMMA WriterEntry ==
    ASSUME TypeOK, [Next]_vars, NEW q \in Procs, pc'[q] = "write"
    PROVE  pc[q] = "write" \/ BumpCost(q)
<1>1. CASE Begin(q)
  BY <1>1 DEF Begin, FirstStep, TypeOK, AllKinds
<1>2. CASE FindExisting(q)
  BY <1>2 DEF FindExisting, Goto, Stop, AfterFound, TypeOK
<1>3. CASE CheckCostCap(q) \/ ReadFile(q)
  BY <1>3, CapMove, ReadMove
<1>4. CASE \/ CheckGit(q) \/ SecretScan(q) \/ PutProvenance(q) \/ Reprocess(q)
           \/ DeleteDocument(q) \/ UploadDocument(q) \/ AppendAudit(q) \/ WriteCost(q)
           \/ UploadTimesOut(q) \/ Abort(q)
  BY <1>4 DEF CheckGit, SecretScan, PutProvenance, Reprocess, DeleteDocument, UploadDocument,
     AppendAudit, WriteCost, UploadTimesOut, Abort, Goto, Stop, TypeOK
<1>5. QED
  BY <1>1, <1>2, <1>3, <1>4, OnlyOneMoves DEF Step

\* What cost_bump computes: one more than what was spent today.
LEMMA BumpedValue ==
    ASSUME TypeOK, CostOK, NEW k \in Keys, ~Rewriting
    PROVE  /\ Bumped(k).day = today /\ Bumped(k).publishes = Spent + 1
           /\ \A i \in Keys : Bumped(k).per_key[i] = IF i = k THEN SpentOn(i) + 1 ELSE SpentOn(i)
<1> DEFINE data == IF CostGet.day # today THEN EmptyCost ELSE CostGet
<1>1. /\ data.day = today /\ data.publishes = Spent
      /\ \A i \in Keys : data.per_key[i] = SpentOn(i)
  BY DEF CostGet, EmptyCost, Spent, SpentOn, Counter, CostOK, TypeOK, Cost, DocIds
<1>2. data \in Cost
  BY CostGetType DEF EmptyCost, Cost, TypeOK, DocIds
<1>3. Bumped(k) = Count(data, k)
  BY DEF Bumped
<1> HIDE DEF data
<1>4. QED
  BY <1>1, <1>2, <1>3, CountType

\* The count changes in BumpCost only, by one, and starts anew with the day and
\* when its writer dies.
LEMMA CounterMoves ==
    ASSUME TypeOK, LocalsOK, CostOK, [Next]_vars
    PROVE  \/ Counter' = Counter /\ today' = today /\ blind' = blind
           \/ today' \in Nat /\ Counter'.day # today' /\ blind' = NoCost
           \/ \E p \in PastCap :
                 /\ BumpCost(p) /\ today' = today /\ p \notin PastCap'
                 /\ job[p].key \in Keys /\ Counter' = Bumped(job[p].key) /\ ~Rewriting
                 /\ blind' = IF p \in Blind THEN Count(blind, job[p].key) ELSE blind
<1>1. ASSUME NEW p \in Procs, BumpCost(p)
      PROVE  /\ p \in PastCap /\ today' = today /\ p \notin PastCap'
             /\ job[p].key \in Keys /\ Counter' = Bumped(job[p].key) /\ ~Rewriting
             /\ blind' = IF p \in Blind THEN Count(blind, job[p].key) ELSE blind
  <2>1. p \in PastCap /\ job[p].key \in Keys /\ (p \in Blind <=> job[p].blind)
    BY <1>1, BusyJob DEF BumpCost, PastCap, Blind, Busy, LocalsOK, Locals, Job
  <2>2. pc'[p] = "write"
    BY <1>1 DEF BumpCost, Goto, TypeOK
  <2>3. QED
    BY <1>1, <2>1, <2>2 DEF BumpCost, PastCap, Counter, Rewriting
<1>2. ASSUME NEW p \in Procs, pc[p] = "write", WriteCost(p) \/ Abort(p)
      PROVE  ~Rewriting' /\ Rewriting /\ today' = today
  BY <1>2, StopType DEF WriteCost, Abort, Stop, Rewriting, CostOK, TypeOK
<1>3. ASSUME NEW p \in Procs, WriteCost(p)
      PROVE  Counter' = Counter /\ today' = today /\ blind' = blind
  BY <1>2, <1>3 DEF WriteCost, Counter
<1>4. ASSUME NEW p \in Procs, Abort(p), pc[p] = "write"
      PROVE  today' \in Nat /\ Counter'.day # today' /\ blind' = NoCost
  <2>1. Counter' = cost /\ cost = NoCost /\ today' = today
    BY <1>2, <1>4 DEF Abort, Counter, CostOK
  <2>2. QED
    BY <1>4, <2>1 DEF Abort, NoCost, TypeOK, DocIds
<1>5. CASE NewDay
  <2>1. Counter' = Counter /\ Counter.day <= today /\ Counter.day \in Nat
    BY <1>5 DEF NewDay, Counter, Rewriting, CostOK, TypeOK, Cost
  <2>2. today' = today + 1 /\ blind' = NoCost
    BY <1>5 DEF NewDay
  <2>3. QED
    BY <2>1, <2>2 DEF TypeOK, DocIds
<1>6. CASE /\ UNCHANGED <<cost, newcost, blind, today>>
           /\ \A q \in Procs : pc'[q] = "write" <=> pc[q] = "write"
  BY <1>6 DEF Counter, Rewriting
<1>7. ASSUME UNCHANGED <<cost, newcost, blind, today>>, NEW p \in Procs, pc[p] # "write",
             ~BumpCost(p), Moves(p), NEW q \in Procs
      PROVE  pc'[q] = "write" <=> pc[q] = "write"
  <2>1. pc'[p] # "write"
    BY <1>7, WriterEntry
  <2>2. q # p => pc'[q] = pc[q]
    BY <1>7, OthersStay
  <2>3. QED
    BY <1>7, <2>1, <2>2
<1>8. ASSUME NEW p \in Procs, Moves(p), pc[p] # "write", ~BumpCost(p)
      PROVE  UNCHANGED <<cost, newcost, blind, today>>
  BY <1>8 DEF Moves, Step, Begin, CheckGit, SecretScan, CheckCostCap, PassCap, ReadFile,
     PutProvenance, FindExisting, Reprocess, DeleteDocument, UploadDocument,
     UploadTimesOut, AppendAudit, WriteCost, Abort
<1>9. ASSUME NEW p \in Procs, Moves(p), pc[p] = "write"
      PROVE  WriteCost(p) \/ Abort(p)
  BY <1>9 DEF Moves, Step, Begin, CheckGit, SecretScan, CheckCostCap, ReadFile,
     PutProvenance, FindExisting, Reprocess, DeleteDocument, UploadDocument,
     UploadTimesOut, AppendAudit, BumpCost
<1>10. CASE \E p \in Procs : Moves(p)
  BY <1>1, <1>3, <1>4, <1>6, <1>7, <1>8, <1>9, <1>10
<1>11. CASE UNCHANGED vars \/ LateUploadLands \/ Edit \/ Commit
  BY <1>6, <1>11 DEF vars, LateUploadLands, Edit, Commit
<1>12. QED
  BY <1>5, <1>10, <1>11 DEF Next, Moves

LEMMA CostStep ==
    ASSUME TypeOK, LocalsOK, CostOK, [Next]_vars
    PROVE  CostOK'
<1>1. ASSUME NEW p \in Procs, BumpCost(p)
      PROVE  CostOK'
  <2>1. job[p].key \in Keys /\ ~Rewriting
    BY <1>1, BusyJob DEF BumpCost, Job
  <2>2. \A q \in Procs : pc'[q] = "write" <=> q = p
    BY <1>1, <2>1 DEF BumpCost, Goto, Rewriting, TypeOK
  <2>3. /\ newcost' = Bumped(job[p].key) /\ cost' = NoCost /\ today' = today
        /\ newcost'.day = today /\ newcost'.day # 0
    BY <1>1, <2>1, BumpedValue DEF BumpCost, TypeOK, DocIds
  <2>4. QED
    BY <2>2, <2>3 DEF CostOK, NoCost, TypeOK, DocIds
<1>2. ASSUME NEW q \in Procs, pc'[q] = "write", \A p \in Procs : ~BumpCost(p)
      PROVE  pc[q] = "write"
  BY <1>2, WriterEntry
<1>3. CASE /\ UNCHANGED <<cost, newcost>> /\ today' \in {today, today + 1}
           /\ \A p \in Procs : ~BumpCost(p)
  <2>1. Rewriting' => Rewriting
    BY <1>2, <1>3 DEF Rewriting
  <2>2. QED
    BY <1>2, <1>3, <2>1 DEF CostOK, NoCost, TypeOK, Cost, DocIds
<1>4. ASSUME NEW p \in Procs, pc[p] = "write", WriteCost(p) \/ Abort(p)
      PROVE  CostOK'
  <2>1. \A q \in Procs : pc'[q] # "write"
    BY <1>4 DEF WriteCost, Abort, Stop, CostOK, TypeOK
  <2>2. /\ cost' \in {cost, newcost} /\ newcost' = NoCost /\ today' = today
    BY <1>4 DEF WriteCost, Abort
  <2>3. QED
    BY <2>1, <2>2 DEF CostOK, Rewriting, NoCost, TypeOK, DocIds
<1>5. CASE \A p \in Procs : ~BumpCost(p) /\ ~WriteCost(p) /\ ~(Abort(p) /\ pc[p] = "write")
  <2>1. UNCHANGED <<cost, newcost>> /\ today' \in {today, today + 1}
    BY <1>5 DEF Next, Step, vars, Begin, CheckGit, SecretScan, CheckCostCap, PassCap, ReadFile,
       PutProvenance, FindExisting, Reprocess, DeleteDocument, UploadDocument,
       UploadTimesOut, AppendAudit, Abort, LateUploadLands, Edit, Commit, NewDay
  <2>2. QED
    BY <1>3, <1>5, <2>1
<1>6. ASSUME NEW p \in Procs, WriteCost(p)
      PROVE  pc[p] = "write"
  BY <1>6 DEF WriteCost
<1>7. QED
  BY <1>1, <1>4, <1>5, <1>6

\* The check lets who can see through only while the count is below the cap.
LEMMA CapCheck ==
    ASSUME TypeOK, CostOK, NEW p \in Procs, CheckCostCap(p), pc'[p] # "idle", ~Rewriting
    PROVE  /\ Spent <= LastAllowed(Cap) /\ SpentOn(job[p].key) <= LastAllowed(PerKeyCap)
           /\ Counter' = Counter /\ today' = today /\ blind' = blind
           /\ \A q \in (PastCap \ Blind)' : q = p \/ (q \in PastCap \ Blind /\ job'[q] = job[q])
           /\ job'[p].key = job[p].key
<1>1. job[p] \in Job /\ UnderCap(job[p].key) /\ pc'[p] = "read"
  BY CapMove DEF CheckCostCap, Stop, TypeOK
<1>2. cost' = cost /\ today' = today /\ blind' = blind
      /\ \A q \in Procs \ {p} : pc'[q] = pc[q] /\ job'[q] = job[q]
  BY DEF CheckCostCap, PassCap, Stop, TypeOK
<1>3. ~Rewriting' /\ Counter = cost /\ Counter' = Counter
  BY <1>1, <1>2 DEF Rewriting, Counter
<1>4. Spent <= LastAllowed(Cap) /\ SpentOn(job[p].key) <= LastAllowed(PerKeyCap)
  BY <1>1, <1>3 DEF UnderCap, CostGet, Spent, SpentOn, LastAllowed, CostOK, TypeOK, Cost,
     DocIds, Job
<1>5. QED
  BY <1>2, <1>3, <1>4, CapMove DEF PastCap, Blind, Busy, Publishing, AllKinds

\* What was spent is a number, also on one key.
LEMMA SpentType ==
    ASSUME TypeOK
    PROVE  /\ Counter \in Cost /\ Spent \in Nat
           /\ \A k \in Keys : SpentOn(k) \in Nat
BY DEF TypeOK, Cost, Counter, Spent, SpentOn

LEMMA BudgetStep ==
    ASSUME TypeOK, TypeOK', LocalsOK, CostOK, BudgetOvershootBounded, [Next]_vars
    PROVE  BudgetOvershootBounded'
<1> DEFINE P == PastCap \ Blind
           b == LastAllowed(Cap) + blind.publishes
<1>1. /\ P \in SUBSET Procs /\ P' \in SUBSET Procs
      /\ Spent \in Nat /\ Spent' \in Nat /\ LastAllowed(Cap) \in Nat
      /\ blind.publishes \in Nat /\ blind'.publishes \in Nat
      /\ Cardinality(Procs) \in Nat
  BY SpentType, FS_CardinalityType DEF TypeOK, Cost, PastCap, Busy, LastAllowed, Counter, Spent
<1>2. \/ P' \subseteq P /\ Spent' <= Spent /\ blind.publishes <= blind'.publishes
      \/ /\ Spent' <= Spent + 1 /\ blind.publishes <= blind'.publishes
         /\ \E x \in P : P' \subseteq P \ {x}
      \/ P' \subseteq P /\ Spent' <= Spent + 1 /\ blind.publishes + 1 <= blind'.publishes
      \/ Spent' <= LastAllowed(Cap) + blind'.publishes
  <2>1. CASE \E p \in P' : CheckCostCap(p) /\ ~Rewriting
    <3>1. PICK p \in P' : CheckCostCap(p) /\ ~Rewriting
      BY <2>1
    <3>2. p \in Procs /\ pc'[p] # "idle"
      BY <3>1 DEF PastCap, Busy
    <3>3. Spent' = Spent /\ Spent <= LastAllowed(Cap)
      BY <3>1, <3>2, CapCheck DEF Spent
    <3>4. QED
      BY <1>1, <3>3
  <2>2. CASE ~\E p \in P' : CheckCostCap(p) /\ ~Rewriting
    <3>1. P' \subseteq P
      BY <2>2, SightedEntry
    <3>2. CASE Counter' = Counter /\ today' = today /\ blind' = blind
      BY <1>1, <3>1, <3>2 DEF Spent
    <3>3. CASE Counter'.day # today'
      <4>1. Spent' = 0
        BY <3>3 DEF Spent
      <4>2. QED
        BY <1>1, <4>1
    <3>4. ASSUME NEW p \in PastCap, today' = today, p \notin PastCap', job[p].key \in Keys,
                 Counter' = Bumped(job[p].key), ~Rewriting,
                 blind' = IF p \in Blind THEN Count(blind, job[p].key) ELSE blind
          PROVE  \/ /\ Spent' <= Spent + 1 /\ blind.publishes <= blind'.publishes
                    /\ \E x \in P : P' \subseteq P \ {x}
                 \/ P' \subseteq P /\ Spent' <= Spent + 1 /\ blind.publishes + 1 <= blind'.publishes
      <4>1. Spent' = Spent + 1
        BY <3>4, BumpedValue DEF Spent
      <4>2. CASE p \in Blind
        <5>1. blind'.publishes = blind.publishes + 1
          BY <3>4, <4>2, CountType DEF TypeOK
        <5>2. QED
          BY <1>1, <3>1, <4>1, <5>1
      <4>3. CASE p \notin Blind
        <5>1. p \in P /\ p \notin P' /\ blind' = blind
          BY <3>4, <4>3
        <5>2. QED
          BY <1>1, <3>1, <4>1, <5>1
      <4>4. QED
        BY <4>2, <4>3
    <3>5. QED
      BY <3>2, <3>3, <3>4, CounterMoves
  <2>3. QED
    BY <2>1, <2>2
<1>3. Spent + Cardinality(P) <= b + Cardinality(Procs)
  <2>1. Spent + Cardinality(P) <= LastAllowed(Cap) + Cardinality(Procs) + blind.publishes
    BY DEF BudgetOvershootBounded
  <2>2. QED
    BY <1>1, <2>1
<1>4. b \in Nat /\ b' \in Nat /\ b' = LastAllowed(Cap) + blind'.publishes
  BY <1>1 DEF LastAllowed
<1>5. /\ blind.publishes <= blind'.publishes => b <= b'
      /\ blind.publishes + 1 <= blind'.publishes => b + 1 <= b'
  BY <1>1, <1>4
<1> HIDE DEF b, P
<1>6. Spent' + Cardinality(P') <= b' + Cardinality(Procs)
  <2>1. \/ P' \subseteq P /\ Spent' <= Spent /\ b <= b'
        \/ Spent' <= Spent + 1 /\ b <= b' /\ \E x \in P : P' \subseteq P \ {x}
        \/ P' \subseteq P /\ Spent' <= Spent + 1 /\ b + 1 <= b'
        \/ Spent' <= b'
    BY <1>2, <1>4, <1>5
  <2>2. /\ Cardinality(P) \in Nat /\ Cardinality(P') \in Nat
        /\ Cardinality(P') <= Cardinality(Procs)
        /\ P' \subseteq P => Cardinality(P') <= Cardinality(P)
        /\ (\E x \in P : P' \subseteq P \ {x}) => Cardinality(P') + 1 <= Cardinality(P)
    BY <1>1, CountStep
  <2>3. QED
    BY <1>1, <1>3, <1>4, <2>1, <2>2
<1>7. QED
  <2>1. P' \in SUBSET Procs /\ Cardinality(P') \in Nat
    BY <1>1, FS_Subset, FS_CardinalityType
  <2>2. Spent' + Cardinality(P') <= LastAllowed(Cap) + Cardinality(Procs) + blind'.publishes
    BY <1>1, <1>4, <1>6, <2>1
  <2>3. QED
    BY <2>2 DEF BudgetOvershootBounded, P, LastAllowed

\* The day's budget is overrun by the publishes in flight at most, and by those whose check
\* met cost.json being rewritten.
THEOREM BudgetHolds == Spec => []BudgetOvershootBounded
<1>1. Init => TypeOK /\ LocalsOK /\ CostOK /\ BudgetOvershootBounded
  <2> SUFFICES ASSUME Init
               PROVE  TypeOK /\ LocalsOK /\ CostOK /\ BudgetOvershootBounded
    OBVIOUS
  <2>1. TypeOK /\ LocalsOK /\ CostOK
    BY InitType DEF Init, CostOK, NoCost, Rewriting
  <2>2. PastCap \ Blind = {} /\ Spent = 0 /\ blind.publishes = 0
    BY DEF Init, PastCap, Busy, Spent, Counter, Rewriting, NoCost
  <2>3. Cardinality(Procs) \in Nat /\ LastAllowed(Cap) \in Nat
    BY FS_CardinalityType DEF LastAllowed
  <2>4. Cardinality(PastCap \ Blind) = 0
    BY <2>2, FS_EmptySet
  <2>5. QED
    BY <2>1, <2>2, <2>3, <2>4 DEF BudgetOvershootBounded
<1>2. TypeOK /\ LocalsOK /\ CostOK /\ BudgetOvershootBounded /\ [Next]_vars
         => (TypeOK /\ LocalsOK /\ CostOK /\ BudgetOvershootBounded)'
  BY TypeStep, LocalsStep, CostStep, BudgetStep
<1>3. QED
  BY <1>1, <1>2, PTL DEF Spec

LEMMA PerKeyStep ==
    ASSUME TypeOK, TypeOK', LocalsOK, CostOK, PerKeyOvershootBounded, [Next]_vars
    PROVE  PerKeyOvershootBounded'
<1> SUFFICES ASSUME NEW k \in Keys
             PROVE  SpentOn(k)' + Cardinality((PastCapOn(k) \ Blind)')
                       <= LastAllowed(PerKeyCap) + Cardinality(Procs) + blind'.per_key[k]
  BY DEF PerKeyOvershootBounded, LastAllowed
<1> DEFINE P == PastCapOn(k) \ Blind
           b == LastAllowed(PerKeyCap) + blind.per_key[k]
<1>1. /\ P \in SUBSET Procs /\ P' \in SUBSET Procs
      /\ SpentOn(k) \in Nat /\ SpentOn(k)' \in Nat /\ LastAllowed(PerKeyCap) \in Nat
      /\ blind.per_key[k] \in Nat /\ blind'.per_key[k] \in Nat
      /\ Cardinality(Procs) \in Nat
  <2>1. P \in SUBSET Procs /\ P' \in SUBSET Procs
    BY DEF PastCap, PastCapOn, Busy
  <2>2. Counter' \in Cost
    BY DEF TypeOK, Counter
  <2>3. SpentOn(k) \in Nat /\ SpentOn(k)' \in Nat
    BY <2>2, SpentType DEF Cost, SpentOn
  <2>4. blind \in Cost /\ blind' \in Cost
    BY DEF TypeOK
  <2>5. blind.per_key[k] \in Nat /\ blind'.per_key[k] \in Nat
    BY <2>4 DEF Cost
  <2>6. LastAllowed(PerKeyCap) \in Nat /\ Cardinality(Procs) \in Nat
    BY FS_CardinalityType DEF LastAllowed
  <2>7. QED
    BY <2>1, <2>3, <2>5, <2>6
<1>2. \/ P' \subseteq P /\ SpentOn(k)' <= SpentOn(k) /\ blind.per_key[k] <= blind'.per_key[k]
      \/ /\ SpentOn(k)' <= SpentOn(k) + 1 /\ blind.per_key[k] <= blind'.per_key[k]
         /\ \E x \in P : P' \subseteq P \ {x}
      \/ /\ P' \subseteq P /\ SpentOn(k)' <= SpentOn(k) + 1
         /\ blind.per_key[k] + 1 <= blind'.per_key[k]
      \/ SpentOn(k)' <= LastAllowed(PerKeyCap) + blind'.per_key[k]
  <2>1. CASE \E p \in P' : CheckCostCap(p) /\ ~Rewriting
    <3>1. PICK p \in P' : CheckCostCap(p) /\ ~Rewriting
      BY <2>1
    <3>2. p \in Procs /\ pc'[p] # "idle" /\ job'[p].key = k
      BY <3>1 DEF PastCapOn, PastCap, Busy
    <3>3. SpentOn(k)' = SpentOn(k) /\ SpentOn(k) <= LastAllowed(PerKeyCap)
      BY <3>1, <3>2, CapCheck DEF SpentOn
    <3>4. QED
      BY <1>1, <3>3
  <2>2. CASE ~\E p \in P' : CheckCostCap(p) /\ ~Rewriting
    <3>1. P' \subseteq P
      <4>1. ASSUME NEW q \in P'
            PROVE  q \in P
        <5>1. q \in (PastCap \ Blind)' /\ job'[q].key = k
          BY DEF PastCapOn
        <5>2. q \in PastCap \ Blind /\ job'[q].key = job[q].key
          BY <2>2, <5>1, SightedEntry
        <5>3. QED
          BY <5>1, <5>2 DEF PastCapOn
      <4>2. QED
        BY <4>1
    <3>2. CASE Counter' = Counter /\ today' = today /\ blind' = blind
      BY <1>1, <3>1, <3>2 DEF SpentOn
    <3>3. CASE Counter'.day # today'
      <4>1. SpentOn(k)' = 0
        BY <3>3 DEF SpentOn
      <4>2. QED
        BY <1>1, <4>1
    <3>4. ASSUME NEW p \in PastCap, today' = today, p \notin PastCap', job[p].key \in Keys,
                 Counter' = Bumped(job[p].key), ~Rewriting,
                 blind' = IF p \in Blind THEN Count(blind, job[p].key) ELSE blind
          PROVE  \/ P' \subseteq P /\ SpentOn(k)' <= SpentOn(k) /\ blind.per_key[k] <= blind'.per_key[k]
                 \/ /\ SpentOn(k)' <= SpentOn(k) + 1 /\ blind.per_key[k] <= blind'.per_key[k]
                    /\ \E x \in P : P' \subseteq P \ {x}
                 \/ /\ P' \subseteq P /\ SpentOn(k)' <= SpentOn(k) + 1
                    /\ blind.per_key[k] + 1 <= blind'.per_key[k]
      <4>1. SpentOn(k)' = IF k = job[p].key THEN SpentOn(k) + 1 ELSE SpentOn(k)
        BY <3>4, BumpedValue DEF SpentOn
      <4>2. blind'.per_key[k] = IF p \in Blind /\ k = job[p].key THEN blind.per_key[k] + 1
                                                                ELSE blind.per_key[k]
        BY <3>4, CountType DEF TypeOK
      <4>3. CASE k # job[p].key
        BY <1>1, <3>1, <4>1, <4>2, <4>3
      <4>4. CASE k = job[p].key /\ p \in Blind
        BY <1>1, <3>1, <4>1, <4>2, <4>4
      <4>5. CASE k = job[p].key /\ p \notin Blind
        <5>1. p \in P /\ p \notin P'
          BY <3>4, <4>5 DEF PastCapOn
        <5>2. QED
          BY <1>1, <3>1, <4>1, <4>2, <4>5, <5>1
      <4>6. QED
        BY <4>3, <4>4, <4>5
    <3>5. QED
      BY <3>2, <3>3, <3>4, CounterMoves
  <2>3. QED
    BY <2>1, <2>2
<1>3. SpentOn(k) + Cardinality(P) <= b + Cardinality(Procs)
  <2>1. SpentOn(k) + Cardinality(P)
           <= LastAllowed(PerKeyCap) + Cardinality(Procs) + blind.per_key[k]
    BY DEF PerKeyOvershootBounded
  <2>2. QED
    BY <1>1, <2>1
<1>4. b \in Nat /\ b' \in Nat /\ b' = LastAllowed(PerKeyCap) + blind'.per_key[k]
  BY <1>1 DEF LastAllowed
<1>5. /\ blind.per_key[k] <= blind'.per_key[k] => b <= b'
      /\ blind.per_key[k] + 1 <= blind'.per_key[k] => b + 1 <= b'
  BY <1>1, <1>4
<1> HIDE DEF b, P
<1>6. SpentOn(k)' + Cardinality(P') <= b' + Cardinality(Procs)
  <2>1. \/ P' \subseteq P /\ SpentOn(k)' <= SpentOn(k) /\ b <= b'
        \/ SpentOn(k)' <= SpentOn(k) + 1 /\ b <= b' /\ \E x \in P : P' \subseteq P \ {x}
        \/ P' \subseteq P /\ SpentOn(k)' <= SpentOn(k) + 1 /\ b + 1 <= b'
        \/ SpentOn(k)' <= b'
    BY <1>2, <1>4, <1>5
  <2>2. /\ Cardinality(P) \in Nat /\ Cardinality(P') \in Nat
        /\ Cardinality(P') <= Cardinality(Procs)
        /\ P' \subseteq P => Cardinality(P') <= Cardinality(P)
        /\ (\E x \in P : P' \subseteq P \ {x}) => Cardinality(P') + 1 <= Cardinality(P)
    BY <1>1, CountStep
  <2>3. QED
    BY <1>1, <1>3, <1>4, <2>1, <2>2
<1>7. QED
  <2>1. P' \in SUBSET Procs /\ Cardinality(P') \in Nat
    BY <1>1, FS_Subset, FS_CardinalityType
  <2>2. SpentOn(k)' + Cardinality(P')
           <= LastAllowed(PerKeyCap) + Cardinality(Procs) + blind'.per_key[k]
    BY <1>1, <1>4, <1>6, <2>1
  <2>3. QED
    BY <2>2 DEF P

\* So is the republish-loop guard of each key.
THEOREM PerKeyHolds == Spec => []PerKeyOvershootBounded
<1>1. Init => TypeOK /\ LocalsOK /\ CostOK /\ PerKeyOvershootBounded
  <2> SUFFICES ASSUME Init
               PROVE  TypeOK /\ LocalsOK /\ CostOK /\ PerKeyOvershootBounded
    OBVIOUS
  <2>1. TypeOK /\ LocalsOK /\ CostOK
    BY InitType DEF Init, CostOK, NoCost, Rewriting
  <2>2. \A k \in Keys : PastCapOn(k) \ Blind = {} /\ SpentOn(k) = 0 /\ blind.per_key[k] = 0
    BY DEF Init, PastCap, PastCapOn, Busy, SpentOn, Counter, Rewriting, NoCost
  <2>3. Cardinality(Procs) \in Nat /\ LastAllowed(PerKeyCap) \in Nat
    BY FS_CardinalityType DEF LastAllowed
  <2>4. \A k \in Keys : Cardinality(PastCapOn(k) \ Blind) = 0
    BY <2>2, FS_EmptySet
  <2>5. ASSUME NEW k \in Keys
        PROVE  SpentOn(k) + Cardinality(PastCapOn(k) \ Blind)
                  <= LastAllowed(PerKeyCap) + Cardinality(Procs) + blind.per_key[k]
    <3>1. SpentOn(k) = 0 /\ Cardinality(PastCapOn(k) \ Blind) = 0 /\ blind.per_key[k] = 0
      BY <2>2, <2>4
    <3>2. QED
      BY <2>3, <3>1
  <2>6. QED
    BY <2>1, <2>5 DEF PerKeyOvershootBounded
<1>2. TypeOK /\ LocalsOK /\ CostOK /\ PerKeyOvershootBounded /\ [Next]_vars
         => (TypeOK /\ LocalsOK /\ CostOK /\ PerKeyOvershootBounded)'
  BY TypeStep, LocalsStep, CostStep, PerKeyStep
<1>3. QED
  BY <1>1, <1>2, PTL DEF Spec

-----------------------------------------------------------------------------
(* DuplicatesBounded: a publisher past the listing brings at most one more     *)
(* document, and with delete_first the document it is about to delete will not *)
(* stay; so the documents nobody is about to delete and the publishers past    *)
(* the listing are never more than the processes.                              *)

Pending(k) ==
    {p \in Busy : /\ job[p].kind \in Publishing /\ job[p].key = k
                  /\ pc[p] = "upload" \/ (pc[p] = "delete" /\ Strategy = "delete_first")}

Doomed(k) ==
    {d \in Live(k) : \E p \in Pending(k) : pc[p] = "delete" /\ job[p].existing = d.id}

Staying(k) == Live(k) \ Doomed(k)

Spare == IF Strategy = "delete_first" THEN 0 ELSE 1

DuplicatesOK ==
    \A k \in Keys :
       Cardinality(Staying(k)) + Cardinality(Pending(k)) <= Cardinality(Procs) + Spare

\* Without late uploads none is ever under way.
NoneLate == late = {}

LEMMA NoneLateStep ==
    ASSUME ~LateUploads, NoneLate, [Next]_vars
    PROVE  NoneLate'
BY DEF NoneLate, Next, Step, vars, Begin, CheckGit, SecretScan, CheckCostCap, PassCap, ReadFile,
   PutProvenance, FindExisting, Reprocess, DeleteDocument, UploadDocument,
   UploadTimesOut, AppendAudit, BumpCost, WriteCost, Abort, LateUploadLands, Edit, Commit, NewDay

\* Counting: one element may move from the second set to the first.
LEMMA CountTwo ==
    ASSUME NEW S, IsFiniteSet(S), NEW T, IsFiniteSet(T), NEW P \in SUBSET Procs,
           NEW Q \in SUBSET Procs, NEW b \in Nat, Cardinality(S) + Cardinality(P) <= b,
           \/ T \subseteq S /\ Q \subseteq P
           \/ \E x \in P : Q \subseteq P \ {x} /\ \E y : T \subseteq S \union {y}
    PROVE  Cardinality(T) + Cardinality(Q) <= b
<1>1. /\ IsFiniteSet(P) /\ IsFiniteSet(Q)
      /\ Cardinality(S) \in Nat /\ Cardinality(T) \in Nat
      /\ Cardinality(P) \in Nat /\ Cardinality(Q) \in Nat
  BY FS_Subset, FS_CardinalityType
<1>2. CASE T \subseteq S /\ Q \subseteq P
  <2>1. Cardinality(T) <= Cardinality(S) /\ Cardinality(Q) <= Cardinality(P)
    BY <1>1, <1>2, FS_Subset
  <2>2. QED
    BY <1>1, <2>1
<1>3. ASSUME NEW x \in P, NEW y, T \subseteq S \union {y}, Q \subseteq P \ {x}
      PROVE  Cardinality(T) + Cardinality(Q) <= b
  <2>1. IsFiniteSet(P \ {x}) /\ Cardinality(P \ {x}) = Cardinality(P) - 1
    BY <1>1, FS_RemoveElement
  <2>2. IsFiniteSet(S \union {y}) /\ Cardinality(S \union {y}) <= Cardinality(S) + 1
    <3>1. /\ IsFiniteSet(S \union {y})
          /\ Cardinality(S \union {y})
                = IF y \in S THEN Cardinality(S) ELSE Cardinality(S) + 1
      BY FS_AddElement, Zenon
    <3>2. QED
      BY <1>1, <3>1
  <2>3. Cardinality(Q) <= Cardinality(P \ {x}) /\ Cardinality(T) <= Cardinality(S \union {y})
    BY <1>3, <2>1, <2>2, FS_Subset
  <2>4. Cardinality(S \union {y}) \in Nat
    BY <2>2, FS_CardinalityType
  <2>5. QED
    BY <1>1, <2>1, <2>2, <2>3, <2>4
<1>4. QED
  BY <1>2, <1>3

\* Who stays past the listing goes on dooming its document.
LEMMA WhoSpares ==
    ASSUME TypeOK, NEW p \in Procs, Moves(p), NEW k \in Keys,
           NEW d \in docs, d \in Staying(k)', d \notin Staying(k)
    PROVE  p \in Pending(k) /\ pc[p] = "delete" /\ job[p].existing = d.id
<1>1. d \in docs' /\ d.key = k
  BY DEF Staying, Live
<1>2. PICK q \in Pending(k) : pc[q] = "delete" /\ job[q].existing = d.id
  BY <1>1 DEF Staying, Doomed, Live
<1>3. ASSUME q # p
      PROVE  FALSE
  <2>1. q \in Procs /\ pc'[q] = pc[q] /\ job'[q] = job[q]
    BY <1>2, <1>3, OthersStay DEF Pending, Busy
  <2>2. q \in Pending(k)'
    BY <1>2, <2>1 DEF Pending, Busy, Publishing, AllKinds
  <2>3. d \in Doomed(k)'
    BY <1>1, <1>2, <2>1, <2>2 DEF Doomed, Live
  <2>4. QED
    BY <2>3 DEF Staying
<1>4. QED
  BY <1>2, <1>3

\* The others of Pending(k) stay in it.
LEMMA OthersPending ==
    ASSUME TypeOK, NEW p \in Procs, Moves(p), NEW k \in Keys, NEW q \in Pending(k)', q # p
    PROVE  q \in Pending(k)
<1>1. q \in Procs /\ pc'[q] = pc[q] /\ job'[q] = job[q]
  BY OthersStay DEF Pending, Busy
<1>2. QED
  BY <1>1 DEF Pending, Busy, Publishing, AllKinds

LEMMA StayingFinite ==
    ASSUME DocsOK, NEW k
    PROVE  IsFiniteSet(Staying(k)) /\ IsFiniteSet(Live(k))
<1>1. Staying(k) \in SUBSET docs /\ Live(k) \in SUBSET docs
  BY DEF Staying, Live
<1>2. QED
  BY <1>1, FS_Subset DEF DocsOK

\* The listing: with delete_first what it finds is doomed, else it found one at most.
LEMMA ListingStep ==
    ASSUME TypeOK, DocsOK, DocsOK', NEW p \in Procs, FindExisting(p),
           NEW k \in Keys, p \in Pending(k)'
    PROVE  Cardinality(Staying(k)') + Cardinality(Pending(k)') <= Cardinality(Procs) + Spare
<1>1. /\ docs' = docs /\ job[p] \in Job /\ pc[p] = "list"
      /\ pc'[p] # "idle" /\ job'[p].kind \in Publishing /\ job'[p].key = k
      /\ pc'[p] = "upload" \/ (pc'[p] = "delete" /\ Strategy = "delete_first")
  BY BusyJob DEF FindExisting, Pending, Busy, Publishing, AllKinds
<1>2. Cardinality(Pending(k)') <= Cardinality(Procs)
      /\ Cardinality(Pending(k)') \in Nat /\ Cardinality(Procs) \in Nat
  <2>1. Pending(k)' \in SUBSET Procs
    BY DEF Pending, Busy
  <2>2. QED
    BY <2>1, FS_Subset, FS_CardinalityType
<1>3. job'[p].kind = job[p].kind /\ job[p].key = k
  BY <1>1 DEF FindExisting, Goto, Stop, TypeOK, Job
<1>4. CASE Live(k) = {}
  <2>1. Staying(k)' = {}
    BY <1>1, <1>4 DEF Staying, Live
  <2>2. QED
    BY <1>2, <2>1, FS_EmptySet DEF Spare
<1>5. ASSUME NEW d \in Live(k), ~TooMany(k), pc' = [pc EXCEPT ![p] = AfterFound(job[p].kind)],
             job' = [job EXCEPT ![p].existing = d.id]
      PROVE  Cardinality(Staying(k)') + Cardinality(Pending(k)') <= Cardinality(Procs) + Spare
  <2>1. Live(k) = {d}
    BY <1>5, OnlyMatch
  <2>2. Live(k)' = {d}
    BY <1>1, <2>1 DEF Live
  <2>3. CASE Strategy = "delete_first"
    <3>1. pc'[p] = "delete" /\ job'[p].existing = d.id
      BY <1>1, <1>3, <1>5, <2>3 DEF AfterFound, TypeOK, Job, Publishing
    <3>2. d \in Doomed(k)'
      BY <2>2, <3>1 DEF Doomed
    <3>3. Staying(k)' = {}
      BY <2>2, <3>2 DEF Staying
    <3>4. QED
      BY <1>2, <3>3, FS_EmptySet DEF Spare
  <2>4. CASE Strategy # "delete_first"
    <3>1. Staying(k)' \in SUBSET {d}
      BY <2>2 DEF Staying
    <3>2. IsFiniteSet({d}) /\ Cardinality({d}) = 1
      BY FS_Singleton
    <3>3. Cardinality(Staying(k)') <= 1 /\ Cardinality(Staying(k)') \in Nat
      BY <3>1, <3>2, FS_Subset, FS_CardinalityType
    <3>4. QED
      BY <1>2, <2>4, <3>3 DEF Spare
  <2>5. QED
    BY <2>3, <2>4
<1>6. QED
  BY <1>1, <1>3, <1>4, <1>5 DEF FindExisting, Stop, TypeOK

LEMMA DuplicatesStep ==
    ASSUME ~LateUploads, NoneLate, TypeOK, LocalsOK, DocsOK, DocsOK', DuplicatesOK, [Next]_vars
    PROVE  DuplicatesOK'
<1> SUFFICES ASSUME NEW k \in Keys
             PROVE  Cardinality(Staying(k)') + Cardinality(Pending(k)') <= Cardinality(Procs) + Spare
  BY DEF DuplicatesOK, Spare
<1> DEFINE Kept == Staying(k)' \subseteq Staying(k) /\ Pending(k)' \subseteq Pending(k)
           Shifted == \E x \in Pending(k) : /\ Pending(k)' \subseteq Pending(k) \ {x}
                                           /\ \E y : Staying(k)' \subseteq Staying(k) \union {y}
<1>1. SUFFICES Kept \/ Shifted \/ \E p \in Procs : FindExisting(p) /\ p \in Pending(k)'
  <2>1. CASE \E p \in Procs : FindExisting(p) /\ p \in Pending(k)'
    BY <2>1, ListingStep
  <2>2. CASE Kept \/ Shifted
    <3>1. /\ Cardinality(Staying(k)) + Cardinality(Pending(k)) <= Cardinality(Procs) + Spare
          /\ Pending(k) \in SUBSET Procs /\ Pending(k)' \in SUBSET Procs
          /\ IsFiniteSet(Staying(k))
      BY StayingFinite DEF DuplicatesOK, Pending, Busy
    <3>2. IsFiniteSet(Staying(k)')
      <4>1. Staying(k)' \in SUBSET docs'
        BY DEF Staying, Live
      <4>2. QED
        BY <4>1, FS_Subset DEF DocsOK
    <3>3. Cardinality(Procs) + Spare \in Nat
      BY FS_CardinalityType DEF Spare
    <3>4. QED
      BY <2>2, <3>1, <3>2, <3>3, CountTwo
  <2>3. QED
    BY <1>1, <2>1, <2>2
<1>2. CASE UNCHANGED <<docs, pc, job>>
  BY <1>2 DEF Staying, Doomed, Live, Pending, Busy, Publishing, AllKinds
<1>3. ASSUME NEW p \in Procs, Moves(p), docs' = docs, pc[p] \notin {"delete", "upload"}, p \notin Pending(k)'
      PROVE  Kept
  BY <1>3, WhoSpares, OthersPending DEF Staying, Live
<1>4. ASSUME NEW p \in Procs, DeleteDocument(p)
      PROVE  Kept
  <2>1. Moves(p) /\ docs' = {d \in docs : d.id # job[p].existing} /\ pc[p] = "delete"
    BY <1>4 DEF Moves, Step, DeleteDocument
  <2>2. Staying(k)' \subseteq Staying(k)
    BY <2>1, WhoSpares DEF Staying, Live
  <2>3. p \in Pending(k)' => p \in Pending(k)
    BY <1>4 DEF DeleteDocument, Goto, Pending, Busy, TypeOK, Publishing, AllKinds
  <2>4. QED
    BY <2>1, <2>2, <2>3, OthersPending
<1>5. ASSUME NEW p \in Procs, UploadDocument(p)
      PROVE  Kept \/ Shifted
  <2>1. /\ Moves(p) /\ docs' = docs \union {NewDoc(p)} /\ pc[p] = "upload"
        /\ job[p].kind \in Publishing /\ NewDoc(p).key = job[p].key
    BY <1>5 DEF Moves, Step, UploadDocument, LocalsOK, Locals, Busy, NewDoc
  <2>2. p \notin Pending(k)'
    <3>1. pc'[p] # "upload" /\ (pc'[p] = "delete" => Strategy = "upload_then_delete")
      BY <1>5 DEF UploadDocument, TypeOK
    <3>2. QED
      BY <3>1 DEF Pending
  <2>3. Pending(k)' \subseteq Pending(k) \ {p}
    BY <2>1, <2>2, OthersPending
  <2>4. CASE job[p].key = k
    <3>1. p \in Pending(k)
      BY <2>1, <2>4 DEF Pending, Busy
    <3>2. Staying(k)' \subseteq Staying(k) \union {NewDoc(p)}
      BY <2>1, WhoSpares DEF Staying, Live
    <3>3. QED
      BY <2>3, <3>1, <3>2
  <2>5. CASE job[p].key # k
    <3>1. Staying(k)' \subseteq Staying(k)
      BY <2>1, <2>5, WhoSpares DEF Staying, Live
    <3>2. QED
      BY <2>3, <3>1
  <2>6. QED
    BY <2>4, <2>5
<1>6. ASSUME NEW p \in Procs, Abort(p)
      PROVE  Kept \/ Shifted
  <2>1. Moves(p) /\ docs' = docs /\ p \notin Pending(k)'
    BY <1>6 DEF Moves, Abort, Stop, Pending, Busy, TypeOK
  <2>2. Pending(k)' \subseteq Pending(k) \ {p}
    BY <2>1, OthersPending
  <2>3. CASE p \in Pending(k)
    <3> DEFINE y == CHOOSE d \in docs : d.id = job[p].existing
    <3>1. \A d \in docs : d.id = job[p].existing => d = y
      BY DEF DocsOK
    <3>2. Staying(k)' \subseteq Staying(k) \union {y}
      BY <2>1, <3>1, WhoSpares DEF Staying, Live
    <3>3. QED
      BY <2>2, <2>3, <3>2
  <2>4. CASE p \notin Pending(k)
    BY <2>1, <2>2, <2>4, WhoSpares DEF Staying, Live
  <2>5. QED
    BY <2>3, <2>4
<1>7. ASSUME NEW p \in Procs, FindExisting(p), p \notin Pending(k)'
      PROVE  Kept
  BY <1>3, <1>7 DEF Moves, Step, FindExisting
<1>8. ASSUME NEW p \in Procs,
             \/ Begin(p) \/ CheckGit(p) \/ SecretScan(p) \/ CheckCostCap(p) \/ ReadFile(p)
             \/ PutProvenance(p) \/ Reprocess(p) \/ AppendAudit(p) \/ BumpCost(p) \/ WriteCost(p)
      PROVE  Kept
  <2>1. Moves(p) /\ docs' = docs /\ pc[p] \notin {"delete", "upload"}
    BY <1>8 DEF Moves, Step, Begin, CheckGit, SecretScan, CheckCostCap, PassCap, ReadFile,
       PutProvenance, Reprocess, AppendAudit, BumpCost, WriteCost
  <2>2. pc'[p] \notin {"delete", "upload"}
    BY <1>8 DEF Begin, FirstStep, CheckGit, SecretScan, CheckCostCap, PassCap, ReadFile,
       PutProvenance, Reprocess, AppendAudit, BumpCost, WriteCost, Goto, Stop, TypeOK, AllKinds
  <2>3. QED
    BY <1>3, <2>1, <2>2 DEF Pending
<1>9. QED
  BY <1>2, <1>4, <1>5, <1>6, <1>7, <1>8 DEF Next, Step, vars, UploadTimesOut,
     LateUploadLands, NoneLate, Edit, Commit, NewDay

\* Each doomed document has a publisher of its own.
LEMMA DoomedAreFew ==
    ASSUME DocsOK, NEW k \in Keys
    PROVE  /\ IsFiniteSet(Doomed(k))
           /\ Cardinality(Doomed(k)) <= Cardinality(Pending(k))
<1> DEFINE by == [d \in Doomed(k) |-> CHOOSE p \in Pending(k) : job[p].existing = d.id]
<1>1. \A d \in Doomed(k) : by[d] \in Pending(k) /\ job[by[d]].existing = d.id
  BY DEF Doomed
<1>2. \A d, e \in Doomed(k) : by[d] = by[e] => d = e
  BY <1>1 DEF Doomed, Live, DocsOK
<1>3. by \in Injection(Doomed(k), Pending(k))
  BY <1>1, <1>2 DEF Injection, IsInjective
<1>4. IsFiniteSet(Pending(k))
  <2>1. Pending(k) \in SUBSET Procs
    BY DEF Pending, Busy
  <2>2. QED
    BY <2>1, FS_Subset
<1> HIDE DEF by
<1>5. QED
  BY <1>3, <1>4, FS_Injection

LEMMA DuplicatesFollow ==
    ASSUME DocsOK, DuplicatesOK
    PROVE  DuplicatesBounded
<1> SUFFICES ASSUME NEW k \in Keys
             PROVE  Cardinality(Live(k)) <= Cardinality(Procs) + Spare
  BY DEF DuplicatesBounded, Spare
<1>1. Live(k) = Staying(k) \union Doomed(k) /\ Staying(k) \intersect Doomed(k) = {}
  BY DEF Staying, Doomed
<1>2. IsFiniteSet(Staying(k)) /\ IsFiniteSet(Doomed(k))
      /\ Cardinality(Doomed(k)) <= Cardinality(Pending(k))
  BY StayingFinite, DoomedAreFew
<1>3. Cardinality(Live(k)) = Cardinality(Staying(k)) + Cardinality(Doomed(k))
                               - Cardinality(Staying(k) \intersect Doomed(k))
  BY <1>1, <1>2, FS_Union
<1>4. Cardinality(Staying(k) \intersect Doomed(k)) = 0
  BY <1>1, FS_EmptySet
<1>5. IsFiniteSet(Pending(k))
  <2>1. Pending(k) \in SUBSET Procs
    BY DEF Pending, Busy
  <2>2. QED
    BY <2>1, FS_Subset
<1>6. /\ Cardinality(Staying(k)) \in Nat /\ Cardinality(Doomed(k)) \in Nat
      /\ Cardinality(Pending(k)) \in Nat /\ Cardinality(Procs) \in Nat
  BY <1>2, <1>5, FS_CardinalityType
<1>7. Cardinality(Staying(k)) + Cardinality(Pending(k)) <= Cardinality(Procs) + Spare
  BY DEF DuplicatesOK
<1>8. QED
  BY <1>2, <1>3, <1>4, <1>6, <1>7 DEF Spare

\* However publishers interleave and die, a key has at most a document for each
\* process (one more with upload_then_delete).
THEOREM FewDuplicates == Spec => []DuplicatesBounded
<1>1. CASE LateUploads
  <2>1. DuplicatesBounded
    BY <1>1 DEF DuplicatesBounded
  <2>2. QED
    BY <2>1, PTL
<1>2. CASE ~LateUploads
  <2>1. Init => NoneLate /\ TypeOK /\ LocalsOK /\ DocsOK /\ DuplicatesOK
    <3> SUFFICES ASSUME Init
                 PROVE  NoneLate /\ TypeOK /\ LocalsOK /\ DocsOK /\ DuplicatesOK
      OBVIOUS
    <3>1. NoneLate /\ TypeOK /\ LocalsOK /\ DocsOK
      BY InitType, FS_EmptySet DEF Init, NoneLate, DocsOK
    <3>2. \A k \in Keys : Staying(k) = {} /\ Pending(k) = {}
      BY DEF Init, Staying, Live, Pending, Busy
    <3>3. Cardinality(Procs) \in Nat
      BY FS_CardinalityType
    <3>4. DuplicatesOK
      <4>1. \A k \in Keys : Cardinality(Staying(k)) = 0 /\ Cardinality(Pending(k)) = 0
        BY <3>2, FS_EmptySet
      <4>2. QED
        BY <3>3, <4>1 DEF DuplicatesOK, Spare
    <3>5. QED
      BY <3>1, <3>4
  <2>2. NoneLate /\ TypeOK /\ LocalsOK /\ DocsOK /\ DuplicatesOK /\ [Next]_vars
           => (NoneLate /\ TypeOK /\ LocalsOK /\ DocsOK /\ DuplicatesOK)'
    BY <1>2, NoneLateStep, TypeStep, LocalsStep, DocsStep, DuplicatesStep
  <2>3. DocsOK /\ DuplicatesOK => DuplicatesBounded
    BY DuplicatesFollow
  <2>4. QED
    BY <2>1, <2>2, <2>3, PTL DEF Spec
<1>3. QED
  BY <1>1, <1>2

-----------------------------------------------------------------------------
(* AuditBacksCounter: each publisher writes a record of its own, because its  *)
(* document is new; it counts only after that.                                *)

Carries(p) ==
    /\ job[p].kind \in Publishing
    /\ pc[p] = "audit" \/ (pc[p] = "delete" /\ Strategy = "upload_then_delete")

FreshOK ==
    /\ IsFiniteSet(audit)
    /\ \A r \in Published : r.id <= lastId
    /\ \A p \in Busy : Carries(p) =>
          job[p].doc <= lastId /\ \A r \in Published : r.id # job[p].doc
    /\ \A p, q \in Busy : p # q /\ Carries(p) /\ Carries(q) => job[p].doc # job[q].doc

\* An operation gets its document from UploadDocument only.
LEMMA CarriesEntry ==
    ASSUME TypeOK, LocalsOK, [Next]_vars, NEW q \in Busy', Carries(q)'
    PROVE  \/ UploadDocument(q)
           \/ q \in Busy /\ Carries(q) /\ job'[q].doc = job[q].doc
<1>1. /\ q \in Procs /\ pc'[q] # "idle" /\ job'[q].kind \in Publishing
      /\ pc'[q] = "audit" \/ (pc'[q] = "delete" /\ Strategy = "upload_then_delete")
  BY DEF Busy, Carries, Publishing, AllKinds
<1>2. CASE pc'[q] = pc[q] /\ job'[q] = job[q]
  BY <1>1, <1>2 DEF Carries, Busy
<1>3. CASE Begin(q)
  BY <1>1, <1>3 DEF Begin, FirstStep, TypeOK, AllKinds
<1>4. CASE FindExisting(q)
  <2>1. pc[q] = "list"
    BY <1>4 DEF FindExisting
  <2>2. job[q] \in Job
    BY <1>1, <2>1, BusyJob
  <2>3. job'[q].kind = job[q].kind
    BY <1>1, <1>4, <2>2 DEF FindExisting, Goto, Stop, TypeOK, Job
  <2>4. QED
    BY <1>1, <1>4, <2>3 DEF FindExisting, Goto, Stop, AfterFound, TypeOK, Publishing
<1>5. CASE Reprocess(q)
  <2>1. pc[q] = "reprocess" /\ q \in Busy
    BY <1>1, <1>5 DEF Reprocess, Busy
  <2>2. job[q].kind = "reprocess"
    BY <2>1 DEF LocalsOK, Locals
  <2>3. pc'[q] = "idle" \/ job'[q] = job[q]
    BY <1>1, <1>5 DEF Reprocess, Goto, Stop, TypeOK
  <2>4. QED
    BY <1>1, <2>2, <2>3 DEF Publishing
<1>6. CASE DeleteDocument(q)
  <2>1. pc[q] = "delete" /\ q \in Busy /\ job'[q] = job[q]
    BY <1>1, <1>6 DEF DeleteDocument, Goto, Busy
  <2>2. job[q].kind # "unpublish"
    BY <1>1, <2>1 DEF Publishing
  <2>3. Strategy = "upload_then_delete"
    BY <1>1, <1>6, <2>2 DEF DeleteDocument, Goto, TypeOK
  <2>4. QED
    BY <1>1, <2>1, <2>3 DEF Carries
<1>6a. CASE CheckCostCap(q) \/ ReadFile(q)
  BY <1>1, <1>6a, CapMove, ReadMove
<1>7. CASE \/ CheckGit(q) \/ SecretScan(q)
           \/ PutProvenance(q) \/ AppendAudit(q) \/ BumpCost(q) \/ WriteCost(q)
           \/ UploadTimesOut(q) \/ Abort(q)
  BY <1>1, <1>7 DEF CheckGit, SecretScan, PutProvenance,
     AppendAudit, BumpCost, WriteCost, UploadTimesOut, Abort, Goto, Stop, TypeOK
<1>8. \/ pc'[q] = pc[q] /\ job'[q] = job[q]
      \/ Begin(q) \/ Step(q) \/ UploadTimesOut(q) \/ Abort(q)
  BY <1>1, OnlyOneMoves
<1>9. QED
  BY <1>2, <1>3, <1>4, <1>5, <1>6, <1>6a, <1>7, <1>8 DEF Step

\* The log grows by what AppendAudit writes.
LEMMA AuditMoves ==
    ASSUME TypeOK, LocalsOK, [Next]_vars
    PROVE  \/ audit' = audit
           \/ \E p \in Busy : /\ AppendAudit(p) /\ Carries(p) /\ ~Carries(p)'
                             /\ \E r \in AuditRecord : /\ audit' = audit \union {r}
                                                       /\ r.event = "published"
                                                       /\ r.id = job[p].doc
           \/ \E r \in AuditRecord : audit' = audit \union {r} /\ r.event # "published"
<1>1. ASSUME NEW p \in Procs, AppendAudit(p)
      PROVE  \/ /\ p \in Busy /\ Carries(p) /\ ~Carries(p)'
                /\ \E r \in AuditRecord : /\ audit' = audit \union {r}
                                          /\ r.event = "published" /\ r.id = job[p].doc
             \/ \E r \in AuditRecord : audit' = audit \union {r} /\ r.event # "published"
  <2> DEFINE r == [event |-> Event(job[p].kind), key |-> job[p].key,
                   id |-> IF job[p].kind \in Publishing THEN job[p].doc ELSE job[p].existing]
  <2>1. job[p] \in Job /\ pc[p] = "audit" /\ p \in Busy /\ Locals(p) /\ audit' = audit \union {r}
    BY <1>1, BusyJob DEF AppendAudit, LocalsOK, Busy
  <2>2. r \in AuditRecord
    BY <2>1 DEF AuditRecord, Job, Event, Locals
  <2>3. CASE job[p].kind \in Publishing
    <3>1. r.event = "published" /\ r.id = job[p].doc
      BY <2>3 DEF Event, Publishing
    <3>2. pc'[p] = "bump"
      BY <1>1, <2>3 DEF AppendAudit, Goto, TypeOK
    <3>3. Carries(p) /\ ~Carries(p)'
      BY <2>1, <2>3, <3>2 DEF Carries
    <3>4. QED
      BY <2>1, <2>2, <3>1, <3>3
  <2>4. CASE job[p].kind \notin Publishing
    <3>1. r.event # "published"
      BY <2>1, <2>4 DEF Event, Publishing, Job, AllKinds
    <3>2. QED
      BY <2>1, <2>2, <3>1
  <2>5. QED
    BY <2>3, <2>4
<1>2. QED
  BY <1>1 DEF Next, Step, vars, Begin, CheckGit, SecretScan, CheckCostCap, PassCap, ReadFile,
     PutProvenance, FindExisting, Reprocess, DeleteDocument, UploadDocument, UploadTimesOut,
     BumpCost, WriteCost, Abort, LateUploadLands, Edit, Commit, NewDay

LEMMA FreshStep ==
    ASSUME TypeOK, LocalsOK, FreshOK, [Next]_vars
    PROVE  FreshOK'
<1>1. lastId' >= lastId /\ lastId \in Nat /\ lastId' \in Nat
  BY DEF TypeOK, Next, Step, vars, Begin, CheckGit, SecretScan, CheckCostCap, PassCap, ReadFile,
     PutProvenance, FindExisting, Reprocess, DeleteDocument, UploadDocument, UploadTimesOut,
     AppendAudit, BumpCost, WriteCost, Abort, LateUploadLands, Edit, Commit, NewDay
<1>2. IsFiniteSet(audit')
  BY AuditMoves, FS_AddElement DEF FreshOK
<1>3. ASSUME NEW r \in Published'
      PROVE  \/ r \in Published
             \/ \E p \in Busy : Carries(p) /\ ~Carries(p)' /\ r.id = job[p].doc
  BY <1>3, AuditMoves DEF Published
<1>4. ASSUME NEW p \in Procs, UploadDocument(p), p \in Busy', Carries(p)'
      PROVE  job'[p].doc = lastId + 1 /\ lastId' = lastId + 1
  <2>1. pc[p] = "upload"
    BY <1>4 DEF UploadDocument
  <2>2. job[p] \in Job
    BY <2>1, BusyJob
  <2>3. QED
    BY <1>4, <2>2 DEF UploadDocument, Job, TypeOK
<1>5. ASSUME NEW p \in Busy, Carries(p)
      PROVE  job[p].doc \in Nat /\ job[p].doc <= lastId
  BY <1>5 DEF FreshOK, LocalsOK, Locals, Carries, DocIds
<1>6. \A r \in Published : r.id \in Nat /\ r.id <= lastId
  BY DEF FreshOK, Published, TypeOK, AuditRecord, DocIds
<1>7. ASSUME NEW r \in Published'
      PROVE  r.id <= lastId'
  BY <1>1, <1>3, <1>5, <1>6
<1>8. ASSUME NEW q \in Busy', Carries(q)'
      PROVE  job'[q].doc <= lastId' /\ \A r \in Published' : r.id # job'[q].doc
  <2>1. CASE UploadDocument(q)
    <3>1. job'[q].doc = lastId + 1 /\ lastId' = lastId + 1
      BY <1>4, <1>8, <2>1 DEF Busy
    <3>2. \A r \in Published' : r.id \in Nat /\ r.id <= lastId
      BY <1>3, <1>5, <1>6
    <3>3. QED
      BY <1>1, <3>1, <3>2
  <2>2. CASE q \in Busy /\ Carries(q) /\ job'[q].doc = job[q].doc
    <3>1. job'[q].doc <= lastId'
      BY <1>1, <1>5, <2>2
    <3>2. ASSUME NEW r \in Published'
          PROVE  r.id # job'[q].doc
      BY <1>3, <1>8, <2>2 DEF FreshOK
    <3>3. QED
      BY <3>1, <3>2
  <2>3. QED
    BY <1>8, <2>1, <2>2, CarriesEntry
<1>9. ASSUME NEW p \in Busy', NEW q \in Busy', p # q, Carries(p)', Carries(q)'
      PROVE  job'[p].doc # job'[q].doc
  <2>1. p \in Procs /\ q \in Procs
    BY DEF Busy
  <2>2. ASSUME NEW x \in Busy', NEW y \in Busy', x # y, UploadDocument(x), Carries(x)', Carries(y)'
        PROVE  job'[x].doc # job'[y].doc
    <3>1. x \in Procs /\ y \in Procs
      BY DEF Busy
    <3>2. ~UploadDocument(y)
      BY <2>2, <3>1 DEF UploadDocument, TypeOK, Carries
    <3>3. y \in Busy /\ Carries(y) /\ job'[y].doc = job[y].doc
      BY <2>2, <3>2, CarriesEntry
    <3>4. QED
      BY <1>1, <1>4, <1>5, <2>2, <3>1, <3>3
  <2>3. CASE ~UploadDocument(p) /\ ~UploadDocument(q)
    <3>1. /\ p \in Busy /\ Carries(p) /\ job'[p].doc = job[p].doc
          /\ q \in Busy /\ Carries(q) /\ job'[q].doc = job[q].doc
      BY <1>9, <2>3, CarriesEntry
    <3>2. QED
      BY <1>9, <3>1 DEF FreshOK
  <2>4. QED
    BY <1>9, <2>2, <2>3
<1>10. QED
  BY <1>2, <1>7, <1>8, <1>9 DEF FreshOK

\* A publisher comes to the counter from AppendAudit only.
LEMMA BumpingEntry ==
    ASSUME TypeOK, [Next]_vars, NEW q \in Bumping'
    PROVE  q \in Bumping \/ (AppendAudit(q) /\ job[q].kind \in Publishing)
<1>1. q \in Procs /\ pc'[q] = "bump"
  BY DEF Bumping, Busy
<1>2. CASE pc'[q] = pc[q]
  BY <1>1, <1>2 DEF Bumping, Busy
<1>3. CASE Begin(q)
  BY <1>1, <1>3 DEF Begin, FirstStep, TypeOK, AllKinds
<1>4. CASE AppendAudit(q)
  BY <1>1, <1>4 DEF AppendAudit, Stop, TypeOK
<1>5. CASE FindExisting(q)
  BY <1>1, <1>5 DEF FindExisting, Goto, Stop, AfterFound, TypeOK
<1>6. CASE \/ CheckGit(q) \/ SecretScan(q) \/ CheckCostCap(q) \/ ReadFile(q)
           \/ PutProvenance(q) \/ Reprocess(q) \/ DeleteDocument(q) \/ UploadDocument(q)
           \/ BumpCost(q) \/ WriteCost(q) \/ UploadTimesOut(q) \/ Abort(q)
  BY <1>1, <1>6 DEF CheckGit, SecretScan, CheckCostCap, PassCap, ReadFile, PutProvenance, Reprocess,
     DeleteDocument, UploadDocument, BumpCost, WriteCost, UploadTimesOut, Abort, Goto, Stop, TypeOK
<1>7. QED
  BY <1>1, <1>2, <1>3, <1>4, <1>5, <1>6, OnlyOneMoves DEF Step

\* What is about to be written is backed by the audit log as well.
AuditBacksBoth ==
    \A c \in {cost, newcost} : c.publishes + Cardinality(Bumping) <= Cardinality(Published)

LEMMA AuditCountStep ==
    ASSUME TypeOK, LocalsOK, CostOK, FreshOK, AuditBacksBoth, [Next]_vars
    PROVE  AuditBacksBoth'
<1>1. /\ IsFiniteSet(Published) /\ IsFiniteSet(Published') /\ Published \subseteq Published'
      /\ IsFiniteSet(Bumping) /\ IsFiniteSet(Bumping')
  <2>1. /\ IsFiniteSet(audit) /\ IsFiniteSet(audit')
        /\ Published \in SUBSET audit /\ Published' \in SUBSET audit'
    BY FreshStep DEF FreshOK, Published
  <2>2. audit \subseteq audit'
    BY AuditMoves
  <2>3. Bumping \in SUBSET Procs /\ Bumping' \in SUBSET Procs
    BY DEF Bumping, Busy
  <2>4. QED
    BY <2>1, <2>2, <2>3, FS_Subset, ConstantsAssumption DEF Published
<1>2. /\ Cardinality(Published) \in Nat /\ Cardinality(Published') \in Nat
      /\ Cardinality(Bumping) \in Nat /\ Cardinality(Bumping') \in Nat
      /\ Cardinality(Published) <= Cardinality(Published')
      /\ cost.publishes \in Nat /\ cost'.publishes \in Nat
      /\ newcost.publishes \in Nat /\ newcost'.publishes \in Nat
      /\ cost.publishes + Cardinality(Bumping) <= Cardinality(Published)
      /\ newcost.publishes + Cardinality(Bumping) <= Cardinality(Published)
  <2>1. cost \in Cost /\ cost' \in Cost /\ newcost \in Cost /\ newcost' \in Cost
    BY TypeStep DEF TypeOK
  <2>2. QED
    BY <1>1, <2>1, FS_CardinalityType, FS_Subset DEF AuditBacksBoth, Cost
<1>3. ASSUME NEW p \in Procs, AppendAudit(p), job[p].kind \in Publishing
      PROVE  AuditBacksBoth'
  <2>1. cost' = cost /\ newcost' = newcost /\ p \in Busy /\ Carries(p)
    BY <1>3 DEF AppendAudit, Busy, Carries
  <2>2. Bumping' \subseteq Bumping \union {p}
    <3>1. ASSUME NEW q \in Bumping', q # p
          PROVE  q \in Bumping
      BY <1>3, <3>1 DEF Bumping, Busy, AppendAudit, Goto, TypeOK
    <3>2. QED
      BY <3>1
  <2>3. Cardinality(Bumping') <= Cardinality(Bumping) + 1
    <3>1. /\ IsFiniteSet(Bumping \union {p})
          /\ Cardinality(Bumping \union {p}) = IF p \in Bumping THEN Cardinality(Bumping)
                                                ELSE Cardinality(Bumping) + 1
      BY <1>1, FS_AddElement
    <3>2. Cardinality(Bumping') <= Cardinality(Bumping \union {p})
      BY <2>2, <3>1, FS_Subset
    <3>3. Cardinality(Bumping \union {p}) \in Nat
      BY <3>1, FS_CardinalityType
    <3>4. QED
      BY <1>2, <3>1, <3>2, <3>3
  <2>4. PICK r \in Published' : r \notin Published
    <3> DEFINE r == [event |-> Event(job[p].kind), key |-> job[p].key, id |-> job[p].doc]
    <3>1. audit' = audit \union {r} /\ r.event = "published"
      BY <1>3 DEF AppendAudit, Event, Publishing
    <3>2. r.id = job[p].doc
      OBVIOUS
    <3>3. \A x \in Published : x.id # job[p].doc
      BY <2>1 DEF FreshOK
    <3>4. QED
      BY <3>1, <3>2, <3>3 DEF Published
  <2>5. Cardinality(Published') >= Cardinality(Published) + 1
    <3>1. /\ IsFiniteSet(Published \union {r})
          /\ Cardinality(Published \union {r}) = Cardinality(Published) + 1
      BY <1>1, <2>4, FS_AddElement
    <3>2. Cardinality(Published \union {r}) <= Cardinality(Published')
      BY <1>1, <2>4, FS_Subset
    <3>3. QED
      BY <1>2, <3>1, <3>2
  <2>6. QED
    BY <1>2, <2>1, <2>3, <2>5 DEF AuditBacksBoth
<1>4. CASE Bumping' \subseteq Bumping
  <2>1. Cardinality(Bumping') <= Cardinality(Bumping)
    BY <1>1, <1>4, FS_Subset
  <2>2. CASE /\ cost'.publishes \in {0, cost.publishes, newcost.publishes}
             /\ newcost'.publishes \in {0, newcost.publishes}
    <3>1. /\ cost'.publishes + Cardinality(Bumping') <= Cardinality(Published')
          /\ newcost'.publishes + Cardinality(Bumping') <= Cardinality(Published')
      <4>1. 0 + Cardinality(Bumping) <= Cardinality(Published)
        BY <1>2
      <4>2. QED
        BY <1>2, <2>1, <2>2, <4>1
    <3>2. QED
      BY <3>1 DEF AuditBacksBoth
  <2>3. ASSUME NEW p \in Procs, BumpCost(p)
        PROVE  AuditBacksBoth'
    <3>1. p \in Bumping /\ Bumping' \subseteq Bumping \ {p}
      BY <1>4, <2>3 DEF BumpCost, Goto, Bumping, Busy, TypeOK
    <3>2. /\ IsFiniteSet(Bumping \ {p})
          /\ Cardinality(Bumping \ {p}) = Cardinality(Bumping) - 1
      BY <1>1, <3>1, FS_RemoveElement
    <3>3. Cardinality(Bumping') <= Cardinality(Bumping) - 1
      BY <3>1, <3>2, FS_Subset
    <3>4. newcost'.publishes <= cost.publishes + 1 /\ cost'.publishes = 0
      <4>1. job[p].key \in Keys /\ ~Rewriting
        BY <2>3, BusyJob DEF BumpCost, Job
      <4>2. newcost'.publishes = Spent + 1 /\ cost' = NoCost
        BY <2>3, <4>1, BumpedValue DEF BumpCost
      <4>3. Spent <= cost.publishes
        BY <1>2, <4>1 DEF Spent, Counter
      <4>4. QED
        BY <1>2, <4>2, <4>3, SpentType DEF NoCost
    <3>5. QED
      BY <1>2, <3>3, <3>4 DEF AuditBacksBoth
  <2>4. \/ /\ cost' \in {cost, newcost, NoCost} /\ newcost' \in {newcost, NoCost}
        \/ \E p \in Procs : BumpCost(p)
    BY DEF Next, Step, vars, Begin, CheckGit, SecretScan, CheckCostCap, PassCap, ReadFile,
       PutProvenance, FindExisting, Reprocess, DeleteDocument, UploadDocument,
       UploadTimesOut, AppendAudit, WriteCost, Abort, LateUploadLands, Edit, Commit, NewDay
  <2>5. QED
    BY <2>2, <2>3, <2>4 DEF NoCost
<1>5. QED
  BY <1>3, <1>4, BumpingEntry DEF Bumping, Busy

\* The counter never exceeds the records of publishes in the audit log.
THEOREM AuditFirst == Spec => []AuditBacksCounter
<1>1. Init => TypeOK /\ LocalsOK /\ CostOK /\ FreshOK /\ AuditBacksBoth
  <2> SUFFICES ASSUME Init
               PROVE  TypeOK /\ LocalsOK /\ CostOK /\ FreshOK /\ AuditBacksBoth
    OBVIOUS
  <2>1. TypeOK /\ LocalsOK /\ CostOK /\ FreshOK
    BY InitType, FS_EmptySet DEF Init, CostOK, NoCost, Rewriting, FreshOK, Published, Busy
  <2>2. Bumping = {} /\ Published = {} /\ cost = NoCost /\ newcost = NoCost
    BY DEF Init, Bumping, Published, Busy
  <2>3. QED
    BY <2>1, <2>2, FS_EmptySet DEF AuditBacksBoth, NoCost
<1>2. TypeOK /\ LocalsOK /\ CostOK /\ FreshOK /\ AuditBacksBoth /\ [Next]_vars
         => (TypeOK /\ LocalsOK /\ CostOK /\ FreshOK /\ AuditBacksBoth)'
  BY TypeStep, LocalsStep, CostStep, FreshStep, AuditCountStep
<1>3. AuditBacksBoth => AuditBacksCounter
  BY DEF AuditBacksBoth, AuditBacksCounter
<1>4. QED
  BY <1>1, <1>2, <1>3, PTL DEF Spec

-----------------------------------------------------------------------------
(* What a call achieves if no other call works on its key meanwhile: at each   *)
(* place, which documents of the key there are.                                *)

OneCallPerKey == \A p, q \in Busy : job[p].key = job[q].key => p = q

Mine(p) == [id |-> job[p].doc, key |-> job[p].key, bytes |-> job[p].bytes]
OldOnly(p) == \A d \in Live(job[p].key) : d.id = job[p].existing
MineOnly(p) == Live(job[p].key) = {Mine(p)}
TheOne(p) == \E d \in docs : Live(job[p].key) = {d} /\ d.id = job[p].existing

Before == {"git", "scan", "cap", "read", "prov", "list"}
LeavesMine(p) == job[p].kind \in Publishing /\ Strategy = "upload_then_delete"

Sole(p) ==
    /\ pc[p] \in Before => job[p].existing = NoDoc
    /\ pc[p] \in Before \union {"upload"} => job[p].doc = NoDoc
    /\ pc[p] = "reprocess" => TheOne(p)
    /\ pc[p] = "upload" => OldOnly(p) /\ (Strategy = "delete_first" => Live(job[p].key) = {})
    /\ pc[p] = "delete" /\ ~LeavesMine(p) => OldOnly(p) /\ job[p].doc = NoDoc
    /\ pc[p] = "delete" /\ LeavesMine(p) =>
          /\ Mine(p) \in docs
          /\ \A d \in Live(job[p].key) : d.id = job[p].existing \/ d = Mine(p)
    /\ pc[p] \in {"audit", "bump"} =>
          /\ job[p].kind \in Publishing => MineOnly(p)
          /\ job[p].kind = "unpublish" => Live(job[p].key) = {}
          /\ job[p].kind = "reprocess" => TheOne(p)

SoleOK == \A p \in Busy : Sole(p)

\* What others do is about other keys.
LEMMA LiveElsewhere ==
    ASSUME TypeOK, LocalsOK, ReplaceOK, NoneLate, OneCallPerKey, [Next]_vars,
           NEW p \in Procs, pc[p] # "idle", pc'[p] = pc[p], job'[p] = job[p]
    PROVE  Live(job[p].key)' = Live(job[p].key)
<1>1. CASE docs' = docs
  BY <1>1 DEF Live
<1>2. ASSUME NEW q \in Procs, pc[q] # "idle", q # p
      PROVE  job[q].key # job[p].key
  BY <1>2 DEF OneCallPerKey, Busy
<1>3. ASSUME NEW q \in Procs, UploadDocument(q)
      PROVE  Live(job[p].key)' = Live(job[p].key)
  <2>1. q # p /\ pc[q] # "idle"
    BY <1>3 DEF UploadDocument, TypeOK
  <2>2. docs' = docs \union {NewDoc(q)} /\ NewDoc(q).key # job[p].key
    BY <1>2, <1>3, <2>1 DEF UploadDocument, NewDoc
  <2>3. QED
    BY <2>2 DEF Live
<1>4. ASSUME NEW q \in Procs, DeleteDocument(q)
      PROVE  Live(job[p].key)' = Live(job[p].key)
  <2>1. q # p /\ pc[q] # "idle"
    BY <1>4 DEF DeleteDocument, Goto, TypeOK
  <2>2. Targets(q) /\ job[q].existing \in DocIds
    BY <1>4, <2>1 DEF DeleteDocument, ReplaceOK, LocalsOK, Locals, Busy
  <2>3. \A d \in docs : d.id = job[q].existing => d.key # job[p].key
    BY <1>2, <2>1, <2>2 DEF Targets
  <2>4. QED
    BY <1>4, <2>3 DEF DeleteDocument, Live
<1>5. CASE LateUploadLands
  BY <1>5 DEF LateUploadLands, NoneLate
<1>6. QED
  BY <1>1, <1>3, <1>4, <1>5 DEF Next, Step, vars, Begin, CheckGit, SecretScan,
     CheckCostCap, PassCap, ReadFile, PutProvenance, FindExisting, Reprocess, UploadTimesOut,
     AppendAudit, BumpCost, WriteCost, Abort, Edit, Commit, NewDay

LEMMA SoleWaits ==
    ASSUME TypeOK, LocalsOK, ReplaceOK, NoneLate, OneCallPerKey, [Next]_vars,
           NEW p \in Procs, pc[p] # "idle", pc'[p] = pc[p], job'[p] = job[p], Sole(p)
    PROVE  Sole(p)'
<1>1. Live(job[p].key)' = Live(job[p].key)
  BY LiveElsewhere
<1>2. job[p].key = job'[p].key /\ Mine(p)' = Mine(p)
  BY DEF Mine
<1>3. Live(job[p].key) = {d \in docs : d.key = job[p].key}
      /\ Live(job[p].key)' = {d \in docs' : d.key = job[p].key}
  BY DEF Live
<1>4. Mine(p) \in docs => Mine(p) \in docs'
  BY <1>1, <1>3 DEF Mine
<1>5. /\ TheOne(p) => TheOne(p)'
      /\ OldOnly(p) => OldOnly(p)'
      /\ MineOnly(p) => MineOnly(p)'
  BY <1>1, <1>2, <1>3 DEF TheOne, OldOnly, MineOnly
<1>6. QED
  BY <1>1, <1>2, <1>4, <1>5 DEF Sole, LeavesMine

LEMMA SoleStep ==
    ASSUME TypeOK, LocalsOK, DocsOK, ReplaceOK, NoneLate, OneCallPerKey, SoleOK, [Next]_vars
    PROVE  SoleOK'
<1> SUFFICES ASSUME NEW p \in Procs, pc'[p] # "idle"
             PROVE  Sole(p)'
  BY DEF SoleOK, Busy
<1>0. ASSUME pc[p] # "idle"
      PROVE  Sole(p) /\ Locals(p) /\ Targets(p) /\ Guarded(p) /\ job[p] \in Job
  BY <1>0, BusyJob DEF SoleOK, LocalsOK, ReplaceOK, Busy
<1>1. CASE pc'[p] = pc[p] /\ job'[p] = job[p]
  BY <1>0, <1>1, SoleWaits
<1>2. CASE Begin(p)
  <2>1. pc'[p] \in {"git", "scan", "list"} /\ job'[p].existing = NoDoc /\ job'[p].doc = NoDoc
    BY <1>2 DEF Begin, FirstStep, AllKinds, TypeOK
  <2>2. QED
    BY <2>1 DEF Sole, Before
<1>3. CASE CheckGit(p) \/ SecretScan(p) \/ PutProvenance(p)
  <2>1. pc[p] \in Before /\ pc'[p] \in Before /\ job'[p] = job[p]
    BY <1>3 DEF CheckGit, SecretScan, PutProvenance, Goto, Stop, TypeOK, Before
  <2>2. QED
    BY <1>0, <2>1 DEF Sole, Before, TypeOK
<1>4. CASE CheckCostCap(p) \/ ReadFile(p)
  <2>1. /\ pc[p] \in {"cap", "read"} /\ pc'[p] \in {"read", "prov"}
        /\ job'[p].existing = job[p].existing /\ job'[p].doc = job[p].doc
    BY <1>4, CapMove, ReadMove
  <2>2. QED
    BY <1>0, <2>1 DEF Sole, Before
<1>5. CASE FindExisting(p)
  <2>1. pc[p] = "list" /\ docs' = docs
    BY <1>5 DEF FindExisting
  <2>2. Sole(p) /\ Locals(p) /\ job[p] \in Job /\ job[p].existing = NoDoc /\ job[p].doc = NoDoc
    BY <1>0, <2>1 DEF Sole, Before
  <2>3. CASE Live(job[p].key) = {} /\ Goto(p, "upload")
    <3>1. pc'[p] = "upload" /\ job'[p] = job[p] /\ Live(job[p].key)' = {}
      BY <2>1, <2>3 DEF Goto, TypeOK, Live
    <3>2. QED
      BY <2>2, <3>1 DEF Sole, Before, OldOnly
  <2>4. ASSUME NEW d \in Live(job[p].key), ~TooMany(job[p].key),
               pc' = [pc EXCEPT ![p] = AfterFound(job[p].kind)],
               job' = [job EXCEPT ![p].existing = d.id]
        PROVE  Sole(p)'
    <3>1. /\ pc'[p] = AfterFound(job[p].kind) /\ job'[p].existing = d.id
          /\ job'[p].key = job[p].key /\ job'[p].kind = job[p].kind /\ job'[p].doc = NoDoc
      BY <2>2, <2>4 DEF TypeOK, Job
    <3>2. Live(job[p].key) = {d} /\ d \in docs
      BY <2>4, OnlyMatch DEF Live
    <3>3. Live(job[p].key)' = {d}
      BY <2>1, <3>1, <3>2 DEF Live
    <3>4. TheOne(p)' /\ OldOnly(p)'
      BY <2>1, <3>1, <3>2, <3>3 DEF TheOne, OldOnly
    <3>5. CASE pc'[p] = "reprocess"
      BY <3>4, <3>5 DEF Sole, Before
    <3>6. CASE pc'[p] = "upload" /\ Strategy # "delete_first"
      BY <3>1, <3>4, <3>6 DEF Sole, Before
    <3>7. CASE pc'[p] = "delete" /\ ~LeavesMine(p)'
      BY <3>1, <3>4, <3>7 DEF Sole, Before
    <3>8. \/ pc'[p] = "reprocess"
          \/ pc'[p] = "upload" /\ Strategy # "delete_first"
          \/ pc'[p] = "delete" /\ ~LeavesMine(p)'
      BY <3>1 DEF AfterFound, LeavesMine, Publishing
    <3>9. QED
      BY <3>5, <3>6, <3>7, <3>8
  <2>5. QED
    BY <1>5, <2>3, <2>4 DEF FindExisting, Stop, TypeOK
<1>6. CASE Reprocess(p)
  <2>1. pc[p] = "reprocess" /\ pc'[p] = "audit" /\ job'[p] = job[p] /\ docs' = docs
    BY <1>6 DEF Reprocess, Goto, Stop, TypeOK
  <2>2. TheOne(p) /\ job[p].kind = "reprocess"
    BY <1>0, <2>1 DEF Sole, Locals
  <2>3. TheOne(p)'
    BY <2>1, <2>2 DEF TheOne, Live
  <2>4. QED
    BY <2>1, <2>2, <2>3 DEF Sole, Before, Publishing
<1>7. CASE DeleteDocument(p)
  <2> DEFINE e == job[p].existing
  <2>1. /\ pc[p] = "delete" /\ job'[p] = job[p] /\ docs' = {d \in docs : d.id # e}
        /\ pc'[p] = IF job[p].kind = "unpublish" \/ Strategy = "upload_then_delete"
                      THEN "audit" ELSE "upload"
    BY <1>7 DEF DeleteDocument, Goto, TypeOK
  <2>2. Live(job[p].key)' = {d \in Live(job[p].key) : d.id # e}
    BY <2>1 DEF Live
  <2>3. job[p].kind \in Publishing \union {"unpublish"}
    BY <1>0, <2>1 DEF Locals, Publishing, Job
  <2>4. CASE LeavesMine(p)
    <3>1. Mine(p) \in docs /\ \A d \in Live(job[p].key) : d.id = e \/ d = Mine(p)
      BY <1>0, <2>1, <2>4 DEF Sole
    <3>2. Mine(p).id # e /\ Mine(p)' = Mine(p) /\ Mine(p) \in Live(job[p].key)
      <4>1. e < job[p].doc /\ e \in Nat /\ job[p].doc \in Nat
        BY <1>0, <2>1, <2>4 DEF Guarded, LeavesMine, Locals, DocIds
      <4>2. QED
        BY <2>1, <3>1, <4>1 DEF Mine, Live
    <3>3. MineOnly(p)'
      BY <2>1, <2>2, <3>1, <3>2 DEF MineOnly
    <3>4. pc'[p] = "audit" /\ job[p].kind \in Publishing
      BY <2>1, <2>4 DEF LeavesMine
    <3>5. QED
      BY <2>1, <3>3, <3>4 DEF Sole, Before, Publishing
  <2>5. CASE ~LeavesMine(p)
    <3>1. OldOnly(p) /\ job[p].doc = NoDoc
      BY <1>0, <2>1, <2>5 DEF Sole
    <3>2. Live(job[p].key)' = {}
      BY <2>2, <3>1 DEF OldOnly
    <3>3. CASE job[p].kind = "unpublish"
      BY <2>1, <3>2, <3>3 DEF Sole, Before, Publishing
    <3>4. CASE job[p].kind \in Publishing
      <4>1. pc'[p] = "upload"
        BY <2>1, <2>5, <3>4 DEF LeavesMine, Publishing
      <4>2. QED
        BY <2>1, <3>1, <3>2, <4>1 DEF Sole, Before, OldOnly
    <3>5. QED
      BY <2>3, <3>3, <3>4
  <2>6. QED
    BY <2>4, <2>5
<1>8. CASE UploadDocument(p)
  <2>1. /\ pc[p] = "upload" /\ docs' = docs \union {NewDoc(p)}
        /\ pc'[p] = IF Strategy = "upload_then_delete" /\ job[p].existing # NoDoc
                      THEN "delete" ELSE "audit"
    BY <1>8 DEF UploadDocument, TypeOK
  <2>2. /\ job'[p].existing = job[p].existing /\ job'[p].key = job[p].key
        /\ job'[p].kind = job[p].kind /\ Mine(p)' = NewDoc(p)
    BY <1>0, <1>8 DEF UploadDocument, TypeOK, Job, Mine, NewDoc
  <2>3. Live(job[p].key)' = Live(job[p].key) \union {NewDoc(p)}
    BY <2>1, <2>2 DEF Live, NewDoc
  <2>4. OldOnly(p) /\ (Strategy = "delete_first" => Live(job[p].key) = {})
        /\ job[p].kind \in Publishing
    BY <1>0, <2>1 DEF Sole, Locals
  <2>5. CASE pc'[p] = "delete"
    <3>1. LeavesMine(p)'
      BY <2>1, <2>2, <2>4, <2>5 DEF LeavesMine
    <3>2. Mine(p)' \in docs' /\ \A d \in Live(job[p].key)' : d.id = job[p].existing \/ d = Mine(p)'
      BY <2>1, <2>2, <2>3, <2>4 DEF OldOnly
    <3>3. QED
      BY <2>2, <2>5, <3>1, <3>2 DEF Sole, Before
  <2>6. CASE pc'[p] = "audit"
    <3>1. \A d \in Live(job[p].key) : d.id # NoDoc
      BY DEF Live, TypeOK, Doc, DocIds
    <3>2. Live(job[p].key) = {}
      BY <2>1, <2>4, <2>6, <3>1 DEF OldOnly
    <3>3. MineOnly(p)'
      BY <2>2, <2>3, <3>2 DEF MineOnly
    <3>4. QED
      BY <2>2, <2>4, <2>6, <3>3 DEF Sole, Before, Publishing
  <2>7. QED
    BY <2>1, <2>5, <2>6
<1>9. CASE AppendAudit(p)
  <2>1. /\ pc[p] = "audit" /\ pc'[p] = "bump" /\ job'[p] = job[p] /\ docs' = docs
        /\ job[p].kind \in Publishing
    BY <1>9 DEF AppendAudit, Goto, Stop, TypeOK
  <2>2. MineOnly(p)
    BY <1>0, <2>1 DEF Sole
  <2>3. MineOnly(p)'
    BY <2>1, <2>2 DEF MineOnly, Mine, Live
  <2>4. QED
    BY <2>1, <2>3 DEF Sole, Before, Publishing
<1>10. CASE BumpCost(p)
  <2>1. pc'[p] = "write"
    BY <1>10 DEF BumpCost, Goto, TypeOK
  <2>2. QED
    BY <2>1 DEF Sole, Before
<1>10a. CASE WriteCost(p) \/ UploadTimesOut(p) \/ Abort(p)
  BY <1>10a DEF WriteCost, UploadTimesOut, Abort, Stop, TypeOK
<1>11. QED
  BY <1>1, <1>2, <1>3, <1>4, <1>5, <1>6, <1>7, <1>8, <1>9, <1>10, <1>10a, OnlyOneMoves DEF Step

\* What a call has read is what is in its file, and what is in a file is committed once
\* check_git_state saw it, as long as nobody edits the file of a call.
Faithful(p) ==
    job[p].kind \in {"file", "unreviewed"} =>
       /\ pc[p] \notin {"git", "scan", "cap", "read"} => job[p].bytes = file[job[p].key]
       /\ job[p].kind = "file" /\ pc[p] # "git" => file[job[p].key] = head[job[p].key]

FaithfulOK == \A p \in Busy : Faithful(p)

LEMMA FaithfulStep ==
    ASSUME ~ConcurrentEdits, TypeOK, LocalsOK, FaithfulOK, [Next]_vars
    PROVE  FaithfulOK'
<1> SUFFICES ASSUME NEW p \in Procs, pc'[p] # "idle"
             PROVE  Faithful(p)'
  BY DEF FaithfulOK, Busy
<1>0. ASSUME pc[p] # "idle"
      PROVE  Faithful(p) /\ Locals(p) /\ job[p] \in Job
  BY <1>0, BusyJob DEF FaithfulOK, LocalsOK, Busy
<1>1. ASSUME pc[p] # "idle"
      PROVE  /\ file'[job[p].key] = file[job[p].key]
             /\ file[job[p].key] = head[job[p].key] => file'[job[p].key] = head'[job[p].key]
  <2>1. CASE Edit
    BY <1>0, <1>1, <2>1 DEF Edit, Busy, TypeOK, Job
  <2>2. CASE Commit
    BY <1>0, <1>1, <2>2 DEF Commit, TypeOK, Job
  <2>3. CASE UNCHANGED <<file, head>>
    BY <2>3
  <2>4. QED
    BY <2>1, <2>2, <2>3 DEF Next, Step, vars, Begin, CheckGit, SecretScan, CheckCostCap, PassCap,
       ReadFile, PutProvenance, FindExisting, Reprocess, DeleteDocument, UploadDocument,
       UploadTimesOut, AppendAudit, BumpCost, WriteCost, Abort, LateUploadLands, NewDay
<1>2. CASE pc'[p] = pc[p] /\ job'[p] = job[p]
  BY <1>0, <1>1, <1>2 DEF Faithful
<1>3. CASE Begin(p)
  <2>1. /\ pc'[p] = FirstStep(job'[p].kind)
        /\ job'[p].kind \in AllKinds
    BY <1>3 DEF Begin, TypeOK
  <2>2. /\ job'[p].kind = "file" => pc'[p] = "git"
        /\ job'[p].kind = "unreviewed" => pc'[p] = "scan"
    BY <2>1 DEF FirstStep
  <2>3. QED
    BY <2>2 DEF Faithful
<1>4. CASE CheckGit(p)
  <2>1. /\ pc[p] = "git" /\ pc'[p] = "scan" /\ job'[p] = job[p]
        /\ file[job[p].key] = head[job[p].key]
    BY <1>4 DEF CheckGit, Goto, Stop, TypeOK
  <2>2. QED
    BY <1>1, <2>1 DEF Faithful
<1>5. CASE SecretScan(p)
  <2>1. pc[p] = "scan" /\ job'[p] = job[p] /\ pc'[p] = "cap"
    BY <1>5 DEF SecretScan, Goto, Stop, TypeOK
  <2>2. QED
    BY <1>0, <1>1, <2>1 DEF Faithful
<1>5a. CASE CheckCostCap(p)
  BY <1>0, <1>1, <1>5a, CapMove DEF Faithful
<1>6. CASE ReadFile(p)
  BY <1>0, <1>1, <1>6, ReadMove DEF Faithful
<1>7. CASE PutProvenance(p) \/ FindExisting(p) \/ Reprocess(p) \/ DeleteDocument(p)
           \/ UploadDocument(p) \/ AppendAudit(p) \/ BumpCost(p)
  <2>1. pc[p] \in {"prov", "list", "reprocess", "delete", "upload", "audit", "bump"}
    BY <1>7 DEF PutProvenance, FindExisting, Reprocess, DeleteDocument, UploadDocument,
       AppendAudit, BumpCost
  <2>2. /\ job'[p].bytes = job[p].bytes /\ job'[p].kind = job[p].kind
        /\ job'[p].key = job[p].key
    BY <1>0, <1>7, <2>1 DEF PutProvenance, FindExisting, Reprocess, DeleteDocument,
       UploadDocument, AppendAudit, BumpCost, Goto, Stop, TypeOK, Job
  <2>3. QED
    BY <1>0, <1>1, <2>1, <2>2 DEF Faithful
<1>8. CASE WriteCost(p) \/ UploadTimesOut(p) \/ Abort(p)
  BY <1>8 DEF WriteCost, UploadTimesOut, Abort, Stop, TypeOK
<1>9. QED
  BY <1>2, <1>3, <1>4, <1>5, <1>5a, <1>6, <1>7, <1>8, OnlyOneMoves DEF Step

\* What a call has achieved when it comes to the audit log.
Delivered(p) ==
    /\ job[p].kind \in Publishing => MineOnly(p)
    /\ job[p].kind = "unpublish" => Live(job[p].key) = {}
    /\ job[p].kind = "reprocess" => TheOne(p)
    /\ ~ConcurrentEdits /\ job[p].kind \in {"file", "unreviewed"} => job[p].bytes = file[job[p].key]
    /\ ~ConcurrentEdits /\ job[p].kind = "file" => job[p].bytes = head[job[p].key]

CallsDeliver == \A p \in Busy : pc[p] \in {"audit", "bump"} => Delivered(p)

\* The postconditions of publish.py, for any number of calls, killed wherever, if no two work
\* on one key at a time and no upload arrives late: a publish that comes to record itself has
\* left exactly its own document of the key, with the bytes of the file as committed; an
\* unpublish none; a reprocess the one that it asked for.
THEOREM CallsDeliverDocuments ==
    ~LateUploads => (Spec /\ []OneCallPerKey => []CallsDeliver)
<1> SUFFICES ASSUME ~LateUploads
             PROVE  Spec /\ []OneCallPerKey => []CallsDeliver
  OBVIOUS
<1> DEFINE Inv == /\ TypeOK /\ LocalsOK /\ DocsOK /\ ReplaceOK /\ NoneLate /\ SoleOK
                  /\ ~ConcurrentEdits => FaithfulOK
<1>1. Init => Inv
  BY InitType, FS_EmptySet DEF Init, DocsOK, ReplaceOK, NoneLate, SoleOK, FaithfulOK, Busy
<1>2. Inv /\ OneCallPerKey /\ [Next]_vars => Inv'
  BY TypeStep, LocalsStep, DocsStep, ReplaceStep, NoneLateStep, SoleStep, FaithfulStep
<1>3. Inv => CallsDeliver
  <2> SUFFICES ASSUME Inv, NEW p \in Busy, pc[p] \in {"audit", "bump"}
               PROVE  Delivered(p)
    BY DEF CallsDeliver
  <2>1. Sole(p) /\ (~ConcurrentEdits => Faithful(p))
    BY DEF SoleOK, FaithfulOK
  <2>2. QED
    BY <2>1 DEF Delivered, Sole, Faithful
<1>4. QED
  BY <1>1, <1>2, <1>3, PTL DEF Spec
=============================================================================
