---------------------------- MODULE ReviewProofs ----------------------------
(***************************************************************************)
(* Theorems about Review, for any number of calls, tokens, manifests and    *)
(* assessments and a queue of any length.                                   *)
(***************************************************************************)
EXTENDS Review, FiniteSetTheorems, SequenceTheorems, TLAPS

-----------------------------------------------------------------------------
(* Shapes. *)

\* The part of TypeOK about calls, with n items in the queue.
CallsOK(n) ==
    /\ pc \in [Procs -> Steps \union {"idle"}]
    /\ job \in [Procs -> Job \union {NoJob}]
    /\ \A q \in Procs : job[q] = NoJob <=> pc[q] = "idle"
    /\ \A q \in Procs : pc[q] # "idle" => job[q].item \in 0 .. n

\* Whatever ends a call, or takes it to a next step, keeps these shapes.
LEMMA StopKeepsCalls ==
    ASSUME NEW n \in Nat, CallsOK(n), NEW p \in Procs, Stop(p)
    PROVE  CallsOK(n)'
BY DEF CallsOK, Stop

LEMMA GotoKeepsCalls ==
    ASSUME NEW n \in Nat, CallsOK(n), NEW p \in Procs, NEW step \in Steps,
           pc[p] # "idle", pc' = [pc EXCEPT ![p] = step], job' = job
    PROVE  CallsOK(n)'
BY DEF CallsOK, Steps

LEMMA StartKeepsCalls ==
    ASSUME NEW n \in Nat, CallsOK(n), NEW p \in Procs, NEW step \in Steps,
           NEW j \in Job, j.item \in 0 .. n, Start(p, step, j)
    PROVE  CallsOK(n)'
<1>1. "idle" \notin Steps
  BY DEF Steps
<1>2. j # NoJob
  BY NoJobAssumption
<1> QED
  BY <1>1, <1>2 DEF CallsOK, Start

LEMMA JobOfCall ==
    ASSUME TypeOK, NEW p \in Procs, pc[p] # "idle"
    PROVE  /\ job[p] \in Job
           /\ job[p].item \in 0 .. Len(queue)
BY DEF TypeOK

\* A step of a call, of a user or of the clock keeps them; n is the length of the
\* queue before the step.
LEMMA NextKeepsCalls ==
    ASSUME NEW n \in Nat, n = Len(queue), TypeOK, Next
    PROVE  CallsOK(n)'
<1>1. CallsOK(n)
  BY DEF TypeOK, CallsOK
<1>2. CASE \E t \in Tokens : Mint(t) \/ MintWrites(t) \/ CleanupExpired(t) \/ Expire(t)
  BY <1>1, <1>2 DEF Mint, MintWrites, CleanupExpired, Expire, CallsOK
<1>3. CASE ChangeManifest
  BY <1>1, <1>3 DEF ChangeManifest, CallsOK
<1>4. ASSUME NEW p \in Procs,
             BeginPublish(p) \/ BeginReview(p) \/ Step(p) \/ WriteFails(p) \/ Abort(p)
      PROVE  CallsOK(n)'
  <2> USE <1>1
  <2>1. CASE BeginPublish(p)
    <3>1. PICK path \in Paths, a \in Given, t \in Tokens \union {NoToken} :
             Start(p, IF t = NoToken THEN "decide" ELSE "exists",
                   [kind |-> "publish", path |-> path, assessment |-> a,
                    token |-> t, manifest |-> manifest, route |-> "queue", item |-> 0,
                    document |-> FALSE])
      BY <2>1 DEF BeginPublish
    <3>2. [kind |-> "publish", path |-> path, assessment |-> a,
           token |-> t, manifest |-> manifest, route |-> "queue", item |-> 0,
           document |-> FALSE] \in Job
      BY DEF TypeOK, Job, Kinds, Routes
    <3>3. QED
      BY <3>1, <3>2, StartKeepsCalls DEF Steps
  <2>2. CASE BeginReview(p)
    <3>1. PICK i \in DOMAIN queue, kind \in {"approve", "reject"} :
             Start(p, "set_status",
                   [kind |-> kind, path |-> queue[i].path,
                    assessment |-> queue[i].assessment, token |-> NoToken,
                    manifest |-> manifest, route |-> "queue", item |-> i,
                    document |-> FALSE])
      BY <2>2 DEF BeginReview
    <3>2. i \in 1 .. n /\ queue[i] \in Item
      BY LenProperties DEF TypeOK
    <3>3. [kind |-> kind, path |-> queue[i].path,
           assessment |-> queue[i].assessment, token |-> NoToken,
           manifest |-> manifest, route |-> "queue", item |-> i,
           document |-> FALSE] \in Job
      BY <3>2 DEF TypeOK, Job, Item, Kinds, Routes
    <3>4. QED
      BY <3>1, <3>2, <3>3, StartKeepsCalls DEF Steps
  <2>3. CASE Exists(p) \/ ReadToken(p) \/ UnlinkToken(p)
    BY <2>3, GotoKeepsCalls, StopKeepsCalls DEF Exists, ReadToken, UnlinkToken, Goto, Steps
  <2>4. CASE SetStatus(p)
    BY <2>4, GotoKeepsCalls, StopKeepsCalls DEF SetStatus, DecideItem, Steps
  <2>5. CASE Load(p)
    <3>1. [job[p] EXCEPT !.manifest = manifest] \in Job
      BY <2>5, JobOfCall DEF Load, TypeOK, Job
    <3>2. [job[p] EXCEPT !.manifest = manifest].item = job[p].item
      BY <2>5, JobOfCall DEF Load, Job
    <3>3. QED
      BY <2>5, <3>1, <3>2, JobOfCall, StartKeepsCalls DEF Load, Steps
  <2>6. CASE Route(p)
    <3> DEFINE j == job[p]
               route == Decide(j.path, j.manifest, j.assessment, j.token # NoToken)
    <3>1. j \in Job /\ j.item \in 0 .. n
      BY <2>6, JobOfCall DEF Route
    <3>2. route \in Routes
      BY DEF Decide, Judge, Routes
    <3>3. AfterDecide(j, route) \in Steps \union {"idle"}
      BY DEF AfterDecide, Steps
    <3>4. /\ [j EXCEPT !.route = route] \in Job
          /\ [j EXCEPT !.route = route].item = j.item
      <4> HIDE DEF route
      <4> QED
        BY <3>1, <3>2 DEF Job
    <3>5. CASE AfterDecide(j, route) = "idle"
      BY <2>6, <3>5, StopKeepsCalls DEF Route
    <3>6. CASE AfterDecide(j, route) # "idle"
      <4>1. Start(p, AfterDecide(j, route), [j EXCEPT !.route = route])
        BY <2>6, <3>6 DEF Route
      <4> HIDE DEF route, j
      <4>2. QED
        BY <3>1, <3>3, <3>4, <3>6, <4>1, StartKeepsCalls
    <3>7. QED
      BY <3>5, <3>6
  <2>7. CASE Floor(p)
    BY <2>7, GotoKeepsCalls, StopKeepsCalls DEF Floor, Goto, Steps
  <2>8. CASE Enqueue(p)
    BY <2>8, GotoKeepsCalls, StopKeepsCalls DEF Enqueue, Finish, Goto, Steps
  <2>9. CASE Publish(p)
    <3>1. /\ [job[p] EXCEPT !.document = TRUE] \in Job
          /\ [job[p] EXCEPT !.document = TRUE].item = job[p].item
      BY <2>9, JobOfCall DEF Publish, Job
    <3>2. QED
      BY <2>9, <3>1, JobOfCall, StartKeepsCalls, StopKeepsCalls DEF Publish, Steps
  <2>10. CASE Sign(p) \/ WriteFails(p) \/ Abort(p)
    BY <2>10, StopKeepsCalls DEF Sign, WriteFails, Abort
  <2>11. QED
    BY <1>4, <2>1, <2>2, <2>3, <2>4, <2>5, <2>6, <2>7, <2>8, <2>9, <2>10 DEF Step
<1>5. QED
  BY <1>2, <1>3, <1>4 DEF Next

LEMMA InitTypeOK == Init => TypeOK
BY DEF Init, TypeOK, TokenFile

\* The part of TypeOK about the stores; the queue has n items at least.
StoresOK(n) ==
    /\ manifest \in Manifests
    /\ tokens \in [Tokens -> TokenFile]
    /\ queue \in Seq(Item) /\ Len(queue) \in Nat /\ Len(queue) >= n
    /\ lost \subseteq DOMAIN queue
    /\ accepted \in [Tokens -> Nat]
    /\ trail \subseteq AuditRecord

LEMMA TokenMoves ==
    ASSUME TypeOK, NEW t, NEW state \in {"half", "there", "gone"},
           tokens' = [tokens EXCEPT ![t].state = state]
    PROVE  /\ tokens' \in [Tokens -> TokenFile]
           /\ \A u \in Tokens : tokens'[u].args = tokens[u].args
<1>1. tokens \in [Tokens -> TokenFile]
  BY DEF TypeOK
<1>2. ASSUME NEW u \in Tokens
      PROVE  /\ [tokens[u] EXCEPT !.state = state] \in TokenFile
             /\ [tokens[u] EXCEPT !.state = state].args = tokens[u].args
  BY <1>1 DEF TokenFile
<1>3. QED
  BY <1>1, <1>2

LEMMA TokenExpires ==
    ASSUME TypeOK, NEW t, Expire(t)
    PROVE  /\ tokens' \in [Tokens -> TokenFile]
           /\ \A u \in Tokens : tokens'[u].args = tokens[u].args
<1>1. tokens \in [Tokens -> TokenFile]
  BY DEF TypeOK
<1>2. ASSUME NEW u \in Tokens
      PROVE  /\ [tokens[u] EXCEPT !.expired = TRUE] \in TokenFile
             /\ [tokens[u] EXCEPT !.expired = TRUE].args = tokens[u].args
  BY <1>1 DEF TokenFile
<1>3. QED
  BY <1>1, <1>2 DEF Expire

\* A token's file changes its state and expires; the path it is bound to stays.
LEMMA TokensStayBound ==
    ASSUME TypeOK, Next
    PROVE  /\ tokens' \in [Tokens -> TokenFile]
           /\ \A u \in Tokens : tokens'[u].args = tokens[u].args
<1>1. CASE tokens' = tokens
  BY <1>1 DEF TypeOK
<1>2. CASE \E t \in Tokens : Mint(t) \/ MintWrites(t) \/ CleanupExpired(t)
  BY <1>2, TokenMoves DEF Mint, MintWrites, CleanupExpired
<1>3. CASE \E t \in Tokens : Expire(t)
  BY <1>3, TokenExpires
<1>4. CASE \E p \in Procs : UnlinkToken(p)
  BY <1>1, <1>4, TokenMoves DEF UnlinkToken
<1>5. QED
  BY <1>1, <1>2, <1>3, <1>4 DEF Next, Step, ChangeManifest, BeginPublish, BeginReview, Exists,
     ReadToken, SetStatus, WriteFails, Load, Route, Floor, Enqueue, Publish, Sign, Abort, stores

LEMMA ItemsInARow ==
    ASSUME NEW n \in Nat, NEW q, q = [k \in 1 .. n |-> q[k]], \A k \in 1 .. n : q[k] \in Item
    PROVE  q \in Seq(Item) /\ Len(q) = n
OBVIOUS

\* A decision about an item, whole or cut short, changes the status of this item only.
LEMMA StatusMoves ==
    ASSUME NEW q \in Seq(Item), NEW i, NEW status \in {"approved", "rejected"}
    PROVE  /\ [q EXCEPT ![i].status = status] \in Seq(Item)
           /\ Len([q EXCEPT ![i].status = status]) = Len(q)
<1> DEFINE u == [q EXCEPT ![i].status = status]
<1>1. PICK n \in Nat : n = Len(q) /\ DOMAIN q = 1 .. n
  BY LenProperties
<1>2. ASSUME NEW k \in 1 .. n
      PROVE  u[k] \in Item
  <2>1. q[k] \in Item /\ k \in DOMAIN q
    BY <1>1
  <2>2. u[k] = q[k] \/ u[k] = [q[k] EXCEPT !.status = status]
    BY <2>1
  <2>3. [q[k] EXCEPT !.status = status] \in Item
    BY <2>1 DEF Item
  <2>4. QED
    BY <2>1, <2>2, <2>3
<1>3. u = [k \in 1 .. n |-> u[k]]
  BY <1>1
<1> HIDE DEF u
<1>4. u \in Seq(Item) /\ Len(u) = n
  BY <1>2, <1>3, ItemsInARow
<1>5. QED
  BY <1>1, <1>4 DEF u

\* The manifests since a decision are manifests.
LEMMA NextKeepsSince ==
    ASSUME TypeOK, Next
    PROVE  since' \in [Procs -> SUBSET Manifests]
<1> manifest \in Manifests /\ since \in [Procs -> SUBSET Manifests]
  BY DEF TypeOK
<1>1. CASE UNCHANGED since
  BY <1>1
<1>2. ASSUME NEW p \in Procs, since' = [since EXCEPT ![p] = {}]
      PROVE  since' \in [Procs -> SUBSET Manifests]
  BY <1>2
<1>3. ASSUME NEW p \in Procs, since' = [since EXCEPT ![p] = {manifest}]
      PROVE  since' \in [Procs -> SUBSET Manifests]
  BY <1>3
<1>4. CASE ChangeManifest
  BY <1>4 DEF ChangeManifest
<1>5. CASE \E p \in Procs : BeginPublish(p) \/ BeginReview(p) \/ Step(p) \/ WriteFails(p) \/ Abort(p)
  BY <1>1, <1>2, <1>3, <1>5 DEF Step, BeginPublish, BeginReview, Exists, ReadToken, UnlinkToken,
     SetStatus, DecideItem, WriteFails, Load, Route, Floor, Enqueue, Finish, Publish, Sign, Abort,
     Goto, Stop, Start
<1>6. QED
  BY <1>1, <1>4, <1>5 DEF Next, Mint, MintWrites, CleanupExpired, Expire

LEMMA NextTypeOK == TypeOK /\ Next => TypeOK'
<1> SUFFICES ASSUME TypeOK, Next
             PROVE  TypeOK'
  OBVIOUS
<1>1. PICK n \in Nat : n = Len(queue)
  BY LenProperties DEF TypeOK
<1>2. CallsOK(n)'
  BY <1>1, NextKeepsCalls
<1>3. StoresOK(n)'
  <2> USE <1>1, TokensStayBound DEF StoresOK
  <2>1. CASE \E t \in Tokens : Mint(t) \/ MintWrites(t) \/ CleanupExpired(t) \/ Expire(t)
    BY <2>1 DEF Mint, MintWrites, CleanupExpired, Expire, TypeOK
  <2>2. CASE ChangeManifest
    BY <2>2 DEF ChangeManifest, TypeOK
  <2>3. ASSUME NEW p \in Procs,
               BeginPublish(p) \/ BeginReview(p) \/ Step(p) \/ WriteFails(p) \/ Abort(p)
        PROVE  StoresOK(n)'
    <3>1. CASE \/ BeginPublish(p) \/ BeginReview(p) \/ Exists(p) \/ ReadToken(p) \/ Load(p)
               \/ Route(p) \/ Floor(p) \/ Publish(p) \/ Abort(p)
      BY <3>1 DEF BeginPublish, BeginReview, Exists, ReadToken, Load, Route, Floor,
         Publish, Abort, stores, TypeOK
    <3>2. CASE UnlinkToken(p)
      <4>1. accepted \in [Tokens -> Nat] /\ queue \in Seq(Item)
        BY DEF TypeOK
      <4> DEFINE t == job[p].token
      <4>2. accepted' = accepted \/ accepted' = [accepted EXCEPT ![t] = @ + 1]
        BY <3>2 DEF UnlinkToken
      <4> HIDE DEF t
      <4>3. accepted' \in [Tokens -> Nat]
        <5>1. CASE t \in Tokens
          BY <4>1, <4>2, <5>1
        <5>2. CASE t \notin Tokens
          <6>1. [accepted EXCEPT ![t] = @ + 1] = accepted
            BY <4>1, <5>2
          <6>2. QED
            BY <4>1, <4>2, <6>1
        <5>3. QED
          BY <5>1, <5>2
      <4>4. /\ manifest' \in Manifests /\ queue' = queue /\ lost' \subseteq DOMAIN queue
            /\ trail' \subseteq AuditRecord
        BY <3>2 DEF UnlinkToken, TypeOK
      <4>5. QED
        BY <4>1, <4>3, <4>4
    <3>3. CASE SetStatus(p) \/ WriteFails(p)
      <4> DEFINE item == job[p].item
                 status == Decision(job[p].kind)
      <4>1. queue' = queue \/ queue' = [queue EXCEPT ![item].status = status]
        BY <3>3 DEF SetStatus, DecideItem, WriteFails
      <4>2. status \in {"approved", "rejected"}
        BY DEF Decision
      <4> HIDE DEF item, status
      <4>3. queue' \in Seq(Item) /\ Len(queue') = n
        <5>1. queue \in Seq(Item)
          BY DEF TypeOK
        <5> DEFINE u == [queue EXCEPT ![item].status = status]
        <5>2. u \in Seq(Item) /\ Len(u) = Len(queue)
          BY <4>2, <5>1, StatusMoves
        <5> HIDE DEF u
        <5>3. queue' = queue \/ queue' = u
          BY <4>1 DEF u
        <5>4. QED
          BY <1>1, <5>1, <5>2, <5>3
      <4>4. DOMAIN queue = 1 .. n /\ DOMAIN queue' = 1 .. n
        BY <1>1, <4>3, LenProperties DEF TypeOK
      <4>5. lost' \subseteq 1 .. n
        <5>1. lost \subseteq 1 .. n
          BY <4>4 DEF TypeOK
        <5>2. CASE SetStatus(p)
          BY <5>1, <5>2 DEF SetStatus
        <5>3. CASE WriteFails(p)
          BY <1>1, <5>1, <5>3 DEF WriteFails
        <5>4. QED
          BY <3>3, <5>2, <5>3
      <4>6. manifest' = manifest /\ accepted' = accepted /\ trail' = trail
        BY <3>3 DEF SetStatus, WriteFails
      <4>7. QED
        BY <4>3, <4>4, <4>5, <4>6 DEF TypeOK
    <3>4. CASE Enqueue(p)
      <4>1. [path |-> job[p].path, assessment |-> job[p].assessment, status |-> "pending"] \in Item
        BY <3>4, JobOfCall DEF Enqueue, Job, Item
      <4>2. queue' = Append(queue, [path |-> job[p].path, assessment |-> job[p].assessment,
                                    status |-> "pending"])
        BY <3>4 DEF Enqueue
      <4>3. queue' \in Seq(Item) /\ Len(queue') = n + 1
        BY <1>1, <4>1, <4>2, AppendProperties DEF TypeOK
      <4>4. lost' \subseteq DOMAIN queue'
        <5>1. DOMAIN queue = 1 .. n /\ DOMAIN queue' = 1 .. n + 1
          BY <1>1, <4>3, LenProperties DEF TypeOK
        <5>2. QED
          BY <3>4, <5>1 DEF Enqueue, TypeOK
      <4>5. QED
        BY <3>4, <4>3, <4>4 DEF Enqueue, TypeOK
    <3>5. CASE Sign(p)
      BY <3>5, JobOfCall DEF Sign, TypeOK, Job, AuditRecord
    <3>6. QED
      BY <2>3, <3>1, <3>2, <3>3, <3>4, <3>5 DEF Step
  <2>4. QED
    BY <2>1, <2>2, <2>3 DEF Next
<1>4. \A q \in Procs : pc'[q] # "idle" => job'[q].item \in 0 .. Len(queue')
  BY <1>2, <1>3 DEF CallsOK, StoresOK
<1>5. QED
  BY <1>2, <1>3, <1>4, NextKeepsSince DEF TypeOK, CallsOK, StoresOK

\* The variables keep their shapes: exactly the running calls have local variables, and
\* what they review is an item of the queue.
THEOREM ReviewTypeCorrect == Spec => []TypeOK
<1>1. TypeOK /\ [Next]_vars => TypeOK'
  <2>1. TypeOK /\ UNCHANGED vars => TypeOK'
    BY DEF vars, stores, TypeOK
  <2>2. QED
    BY <2>1, NextTypeOK
<1>2. QED
  BY InitTypeOK, <1>1, PTL DEF Spec

-----------------------------------------------------------------------------
(* What lets a document through. *)

\* The grounds of a call on its way: it spends a token of its own path, or its
\* assessment is enough; reviewers have no token, and the policy was looked at.
GroundsOf(p) ==
    LET j == job[p]
    IN  /\ pc[p] \in {"set_status", "load"} => j.token = NoToken
        /\ pc[p] \in {"decide", "floor", "release"} => j.token = NoToken \/ Ordered(j)
        /\ pc[p] \in {"floor", "release"} =>
              /\ j.token # NoToken \/ Judged(j)
              /\ CheckPathPolicy(j.path, j.manifest)

Grounds == \A p \in Procs : GroundsOf(p)

\* Routing lets nothing through that the path clause of the floor stops.
LEMMA FloorAgrees ==
    ASSUME NEW path, NEW m, NEW a, NEW valid, Decide(path, m, a, valid) \in {"auto", "manual"}
    PROVE  CheckPathPolicy(path, m)
BY DEF Decide, Judge, Included, CheckPathPolicy

\* Without an order only a sure assessment of what need not be asked gets through.
LEMMA AutoIsJudged ==
    ASSUME NEW j, j.token = NoToken,
           Decide(j.path, j.manifest, j.assessment, j.token # NoToken) \in {"auto", "manual"}
    PROVE  Judged(j)
BY DEF Decide, Judge, Judged

LEMMA InitGrounds == Init => Grounds
BY DEF Init, Grounds, GroundsOf

LEMMA GroundsStep == TypeOK /\ Grounds /\ Next => Grounds'
<1> SUFFICES ASSUME TypeOK, Grounds, Next
             PROVE  Grounds'
  OBVIOUS
<1>1. \A t \in Tokens : tokens'[t].args = tokens[t].args
  BY TokensStayBound
\* A call that does not move keeps its grounds.
<1>2. ASSUME NEW q \in Procs, pc'[q] = pc[q], job'[q] = job[q]
      PROVE  GroundsOf(q)'
  <2>1. pc[q] # "idle" => job[q].token \in Tokens \union {NoToken}
    BY JobOfCall DEF Job
  <2>2. QED
    BY <1>1, <1>2, <2>1 DEF Grounds, GroundsOf, Ordered, Judged
<1>3. ASSUME NEW p \in Procs,
             BeginPublish(p) \/ BeginReview(p) \/ Step(p) \/ WriteFails(p) \/ Abort(p)
      PROVE  /\ \A q \in Procs \ {p} : pc'[q] = pc[q] /\ job'[q] = job[q]
             /\ GroundsOf(p)'
  <2> pc \in [Procs -> Steps \union {"idle"}] /\ job \in [Procs -> Job \union {NoJob}]
    BY DEF TypeOK
  <2> GroundsOf(p)
    BY DEF Grounds
  <2>1. CASE BeginPublish(p) \/ BeginReview(p)
    BY <2>1 DEF BeginPublish, BeginReview, Start, GroundsOf
  <2>2. CASE Exists(p) \/ ReadToken(p)
    BY <2>2 DEF Exists, ReadToken, Goto, Stop, GroundsOf
  <2>3. CASE UnlinkToken(p)
    <3>1. CASE Valid(p)
      <4>1. pc' = [pc EXCEPT ![p] = "decide"] /\ job' = job
        BY <2>3, <3>1 DEF UnlinkToken, Goto
      <4>2. tokens[job[p].token].args = job[p].path
        BY <3>1 DEF Valid
      <4>3. job[p].token \in Tokens \union {NoToken}
        BY <2>3, JobOfCall DEF UnlinkToken, Job
      <4>4. QED
        BY <1>1, <4>1, <4>2, <4>3 DEF GroundsOf, Ordered
    <3>2. CASE ~Valid(p)
      BY <2>3, <3>2 DEF UnlinkToken, Stop, GroundsOf
    <3>3. QED
      BY <3>1, <3>2
  <2>4. CASE SetStatus(p)
    BY <2>4 DEF SetStatus, DecideItem, Stop, GroundsOf
  <2>5. CASE Load(p)
    <3>1. [job[p] EXCEPT !.manifest = manifest].token = job[p].token
      BY <2>5, JobOfCall DEF Load, Job
    <3>2. QED
      BY <2>5, <3>1 DEF Load, Start, GroundsOf
  <2>6. CASE Route(p)
    <3> DEFINE j == job[p]
               route == Decide(j.path, j.manifest, j.assessment, j.token # NoToken)
               next == AfterDecide(j, route)
               k == [j EXCEPT !.route = route]
    <3>1. j \in Job /\ (j.token = NoToken \/ Ordered(j))
      BY <2>6, JobOfCall DEF Route, GroundsOf
    <3>2. /\ k.token = j.token /\ k.path = j.path
          /\ k.assessment = j.assessment /\ k.manifest = j.manifest
      <4> HIDE DEF route
      <4> QED
        BY <3>1 DEF Job
    <3>3. next \in {"enqueue", "floor", "sign", "idle"}
      BY DEF AfterDecide
    <3>4. ASSUME next = "floor"
          PROVE  /\ CheckPathPolicy(k.path, k.manifest)
                 /\ k.token # NoToken \/ Judged(k)
                 /\ k.token = NoToken \/ Ordered(k)
      <4>1. route \in {"auto", "manual"}
        BY <3>4 DEF AfterDecide
      <4>2. CheckPathPolicy(j.path, j.manifest)
        BY <4>1, FloorAgrees
      <4>3. j.token # NoToken \/ Judged(j)
        BY <4>1, AutoIsJudged
      <4> HIDE DEF k
      <4>4. QED
        BY <3>1, <3>2, <4>2, <4>3 DEF Judged, Ordered
    <3>5. CASE next = "idle"
      BY <2>6, <3>5 DEF Route, Stop, GroundsOf
    <3>6. CASE next # "idle"
      <4>1. Start(p, next, k)
        BY <2>6, <3>6 DEF Route
      <4>2. /\ pc' = [pc EXCEPT ![p] = next] /\ job' = [job EXCEPT ![p] = k]
            /\ pc'[p] = next /\ job'[p] = k
        BY <4>1 DEF Start
      <4> HIDE DEF next, k
      <4>3. QED
        BY <1>1, <3>1, <3>2, <3>3, <3>4, <4>2 DEF GroundsOf, Ordered, Judged, Job
    <3>7. QED
      BY <3>5, <3>6
  <2>7. CASE Floor(p) \/ Enqueue(p) \/ Publish(p) \/ Sign(p) \/ WriteFails(p) \/ Abort(p)
    <3>1. CASE Floor(p)
      <4>1. job[p].token \in Tokens \union {NoToken}
        BY <3>1, JobOfCall DEF Floor, Job
      <4>2. QED
        BY <1>1, <3>1, <4>1 DEF Floor, Goto, Stop, GroundsOf, Ordered, Judged
    <3>2. CASE Enqueue(p) \/ Publish(p) \/ Sign(p) \/ WriteFails(p) \/ Abort(p)
      BY <3>2 DEF Enqueue, Finish, Publish, Sign, WriteFails, Abort, Goto, Stop, Start, GroundsOf
    <3>3. QED
      BY <2>7, <3>1, <3>2
  <2>8. QED
    BY <1>3, <2>1, <2>2, <2>3, <2>4, <2>5, <2>6, <2>7 DEF Step
<1>4. QED
  <2>1. CASE \E p \in Procs :
                BeginPublish(p) \/ BeginReview(p) \/ Step(p) \/ WriteFails(p) \/ Abort(p)
    BY <1>2, <1>3, <2>1 DEF Grounds
  <2>2. CASE UNCHANGED <<pc, job>>
    BY <1>2, <2>2 DEF Grounds
  <2>3. QED
    BY <2>1, <2>2 DEF Next, Mint, MintWrites, CleanupExpired, Expire, ChangeManifest

THEOREM GroundsHold == Spec => []Grounds
<1>1. TypeOK /\ Grounds /\ [Next]_vars => Grounds'
  <2>1. Grounds /\ UNCHANGED vars => Grounds'
    BY DEF vars, stores, Grounds, GroundsOf, Ordered, Judged
  <2>2. QED
    BY <2>1, GroundsStep
<1>2. QED
  BY InitGrounds, <1>1, ReviewTypeCorrect, PTL DEF Spec

\* What is about to be published was ordered by a user for this very path, or judged to
\* be knowledge with enough confidence and not to be asked about.
THEOREM NothingUnordered == Spec => []OnlyOrderedOrJudged
<1>1. Grounds => OnlyOrderedOrJudged
  BY DEF Grounds, GroundsOf, OnlyOrderedOrJudged
<1>2. QED
  BY <1>1, GroundsHold, PTL

\* Routing and floor agree about the paths of a manifest.
THEOREM PoliciesAgree == Spec => []PolicyAgrees
<1>1. Grounds => PolicyAgrees
  BY DEF Grounds, GroundsOf, PolicyAgrees
<1>2. QED
  BY <1>1, GroundsHold, PTL

-----------------------------------------------------------------------------
(* Tokens. *)

\* The calls that have read a token and are about to remove its file.
Readers(t) == {p \in Procs : pc[p] = "unlink" /\ job[p].token = t}

\* A token is accepted once its file is gone, and then only by calls that had read it.
SpentOf(t) ==
    /\ accepted[t] > 0 => tokens[t].state = "gone"
    /\ accepted[t] + Cardinality(Readers(t)) <= Cardinality(Procs)

Spent == \A t \in Tokens : SpentOf(t)

LEMMA ReadersAreFew ==
    ASSUME NEW S, S \subseteq Procs
    PROVE  IsFiniteSet(S) /\ Cardinality(S) \in Nat /\ Cardinality(S) <= Cardinality(Procs)
BY ReviewAssumption, FS_Subset, FS_CardinalityType

\* No call has read the token without having had its file, and no acceptance is new.
LEMMA SpentStays ==
    ASSUME TypeOK, NEW t \in Tokens, SpentOf(t), accepted'[t] = accepted[t],
           tokens[t].state = "gone" => tokens'[t].state = "gone",
           Readers(t)' \subseteq Readers(t)
    PROVE  SpentOf(t)'
<1>1. accepted[t] \in Nat
  BY DEF TypeOK
<1>2. Readers(t) \subseteq Procs
  BY DEF Readers
<1>3. /\ Cardinality(Readers(t)') <= Cardinality(Readers(t))
      /\ Cardinality(Readers(t)') \in Nat /\ Cardinality(Readers(t)) \in Nat
  BY <1>2, ReadersAreFew, FS_Subset, FS_CardinalityType
<1>4. Cardinality(Procs) \in Nat
  BY ReviewAssumption, FS_CardinalityType
<1>5. QED
  BY <1>1, <1>3, <1>4 DEF SpentOf

LEMMA SpentStep == TypeOK /\ Spent /\ Next => Spent'
<1> SUFFICES ASSUME TypeOK, Spent, Next, NEW t \in Tokens
             PROVE  SpentOf(t)'
  BY DEF Spent
<1> /\ tokens \in [Tokens -> TokenFile] /\ accepted \in [Tokens -> Nat]
    /\ pc \in [Procs -> Steps \union {"idle"}] /\ job \in [Procs -> Job \union {NoJob}]
    /\ SpentOf(t)
  BY DEF TypeOK, Spent
<1>1. CASE \E u \in Tokens : Mint(u) \/ MintWrites(u) \/ CleanupExpired(u) \/ Expire(u)
  <2>1. Readers(t)' = Readers(t) /\ accepted' = accepted
    BY <1>1 DEF Mint, MintWrites, CleanupExpired, Expire, Readers
  <2>2. tokens[t].state = "gone" => tokens'[t].state = "gone"
    BY <1>1 DEF Mint, MintWrites, CleanupExpired, Expire, TokenFile
  <2>3. QED
    BY <2>1, <2>2, SpentStays
<1>2. ASSUME NEW p \in Procs, UnlinkToken(p)
      PROVE  SpentOf(t)'
  <2> DEFINE u == job[p].token
  <2>1. /\ tokens' = [tokens EXCEPT ![u].state = "gone"]
        /\ \/ accepted' = accepted
           \/ accepted' = [accepted EXCEPT ![u] = @ + 1]
        /\ pc[p] = "unlink" /\ pc'[p] \in {"decide", "idle"}
        /\ \A q \in Procs \ {p} : pc'[q] = pc[q] /\ job'[q] = job[q]
    BY <1>2 DEF UnlinkToken, Goto, Stop
  <2>2. Readers(t)' = Readers(t) \ {p}
    BY <2>1 DEF Readers
  <2> HIDE DEF u
  <2>3. tokens[t].state = "gone" => tokens'[t].state = "gone"
    BY <2>1 DEF TokenFile
  <2>4. CASE accepted'[t] = accepted[t]
    BY <2>2, <2>3, <2>4, SpentStays
  <2>5. CASE accepted'[t] # accepted[t]
    <3>1. u = t /\ accepted'[t] = accepted[t] + 1 /\ tokens'[t].state = "gone"
      BY <2>1, <2>5 DEF TokenFile
    <3>2. p \in Readers(t) /\ Readers(t) \subseteq Procs
      BY <2>1, <3>1 DEF Readers, u
    <3>3. /\ Cardinality(Readers(t)') = Cardinality(Readers(t)) - 1
          /\ Cardinality(Readers(t)) \in Nat /\ Cardinality(Procs) \in Nat
      BY <2>2, <3>2, ReadersAreFew, FS_RemoveElement, ReviewAssumption, FS_CardinalityType
    <3>4. QED
      BY <3>1, <3>3 DEF SpentOf
  <2>6. QED
    BY <2>4, <2>5
<1>3. ASSUME NEW p \in Procs, ReadToken(p)
      PROVE  SpentOf(t)'
  <2>1. tokens' = tokens /\ accepted' = accepted /\ \A q \in Procs \ {p} : pc'[q] = pc[q] /\ job'[q] = job[q]
    BY <1>3 DEF ReadToken, Goto, Stop, stores
  <2>2. CASE pc'[p] = "unlink" /\ job[p].token = t
    <3>1. tokens[t].state = "there"
      BY <1>3, <2>2 DEF ReadToken, Stop
    <3>2. accepted[t] = 0
      BY <3>1 DEF SpentOf
    <3>3. Cardinality(Readers(t)') \in Nat /\ Cardinality(Readers(t)') <= Cardinality(Procs)
      BY ReadersAreFew DEF Readers
    <3>4. QED
      BY <2>1, <3>2, <3>3 DEF SpentOf
  <2>3. CASE ~(pc'[p] = "unlink" /\ job[p].token = t)
    <3>1. Readers(t)' \subseteq Readers(t)
      BY <1>3, <2>1, <2>3 DEF ReadToken, Goto, Stop, Readers
    <3>2. QED
      BY <2>1, <3>1, SpentStays
  <2>4. QED
    BY <2>2, <2>3
<1>4. ASSUME NEW p \in Procs,
             \/ BeginPublish(p) \/ BeginReview(p) \/ Exists(p) \/ SetStatus(p) \/ Load(p) \/ Route(p)
             \/ Floor(p) \/ Enqueue(p) \/ Publish(p) \/ Sign(p) \/ WriteFails(p) \/ Abort(p)
      PROVE  SpentOf(t)'
  <2>1. tokens' = tokens /\ accepted' = accepted
    BY <1>4 DEF BeginPublish, BeginReview, Exists, SetStatus, Load, Route, Floor, Enqueue, Publish,
       Sign, WriteFails, Abort, stores
  <2>2. pc'[p] # "unlink" /\ \A q \in Procs \ {p} : pc'[q] = pc[q] /\ job'[q] = job[q]
    BY <1>4 DEF BeginPublish, BeginReview, Exists, SetStatus, DecideItem, Load, Route, AfterDecide,
       Floor, Enqueue, Finish, Publish, Sign, WriteFails, Abort, Goto, Stop, Start
  <2>3. Readers(t)' \subseteq Readers(t)
    BY <2>2 DEF Readers
  <2>4. QED
    BY <2>1, <2>3, SpentStays
<1>5. CASE ChangeManifest
  BY <1>5, SpentStays DEF ChangeManifest, Readers
<1>6. QED
  BY <1>1, <1>2, <1>3, <1>4, <1>5 DEF Next, Step

\* An order of the user is good for no more publishes than calls run at a time.
THEOREM TokensSharedByOverlapOnly == Spec => []SharedByOverlapOnly
<1>1. Init => Spent
  <2> SUFFICES ASSUME Init, NEW t \in Tokens
               PROVE  SpentOf(t)
    BY DEF Spent
  <2>1. accepted[t] = 0 /\ Readers(t) \subseteq Procs /\ Readers(t) = {}
    BY DEF Init, Readers
  <2>2. QED
    BY <2>1, ReadersAreFew DEF SpentOf
<1>2. TypeOK /\ Spent /\ [Next]_vars => Spent'
  <2>1. Spent /\ UNCHANGED vars => Spent'
    BY DEF vars, stores, Spent, SpentOf, Readers
  <2>2. QED
    BY <2>1, SpentStep
<1>3. TypeOK /\ Spent => SharedByOverlapOnly
  <2> SUFFICES ASSUME TypeOK, Spent, NEW t \in Tokens
               PROVE  accepted[t] <= Cardinality(Procs)
    BY DEF SharedByOverlapOnly
  <2>1. Readers(t) \subseteq Procs /\ accepted[t] \in Nat /\ SpentOf(t)
    BY DEF Readers, TypeOK, Spent
  <2>2. QED
    BY <2>1, ReadersAreFew, ReviewAssumption, FS_CardinalityType DEF SpentOf
<1>4. QED
  BY <1>1, <1>2, <1>3, ReviewTypeCorrect, PTL DEF Spec

-----------------------------------------------------------------------------
(* Decisions of reviewers. *)

\* The call carries out a decision about an item.
Decides(p) == pc[p] \notin {"idle", "set_status"} /\ job[p].item # 0

\* What is true of one call: it reviews an item or publishes, and the item it decides
\* about has the status it gave it.
ReviewerOK(p) ==
    /\ pc[p] # "idle" => (job[p].item = 0 <=> job[p].kind = "publish")
    /\ pc[p] \in {"set_status", "load", "sign"} => job[p].kind # "publish"
    /\ Decides(p) => queue[job[p].item].status = Decision(job[p].kind)

SignatureOK(r) ==
    /\ r.item \in DOMAIN queue
    /\ r.event = IF queue[r.item].status = "approved" THEN "queue_approved" ELSE "queue_rejected"
    /\ queue[r.item].status # "pending"

\* An item is in the hands of one call, or has one signature, or none of both.
OneHand ==
    /\ \A p, q \in Procs : Decides(p) /\ Decides(q) /\ job[p].item = job[q].item => p = q
    /\ \A p \in Procs, r \in trail : Decides(p) => r.item # job[p].item
    /\ \A r, s \in trail : r.item = s.item => r = s

Decided ==
    /\ \A p \in Procs : ReviewerOK(p)
    /\ \A r \in trail : SignatureOK(r)
    /\ OneHand

LEMMA DecidedImpliesDecidedOnce == TypeOK /\ Decided => DecidedOnce
<1> SUFFICES ASSUME TypeOK, Decided, NEW i \in DOMAIN queue
             PROVE  /\ Cardinality(Deciders(i)) + Cardinality(Signatures(i))
                          <= (IF queue[i].status = "pending" THEN 0 ELSE 1)
                    /\ \A r \in Signatures(i) :
                          r.event = IF queue[i].status = "approved" THEN "queue_approved"
                                    ELSE "queue_rejected"
  BY DEF DecidedOnce
<1>1. i # 0
  BY LenProperties DEF TypeOK
<1>2. \A p \in Deciders(i) : p \in Procs /\ Decides(p) /\ job[p].item = i
  BY <1>1 DEF Deciders, Decides
<1>3. \A r \in Signatures(i) : r \in trail /\ r.item = i /\ SignatureOK(r)
  BY DEF Signatures, Decided
<1>4. CASE Deciders(i) = {} /\ Signatures(i) = {}
  BY <1>4, FS_EmptySet
<1>5. CASE \E p \in Deciders(i) : TRUE
  <2>1. PICK p \in Deciders(i) : TRUE
    BY <1>5
  <2>2. Deciders(i) = {p} /\ Signatures(i) = {}
    BY <1>2, <1>3, <2>1 DEF Decided, OneHand
  <2>3. Cardinality(Deciders(i)) = 1 /\ Cardinality(Signatures(i)) = 0
    BY <2>2, FS_EmptySet, FS_Singleton
  <2>4. queue[i].status # "pending"
    BY <1>2, <2>1 DEF Decided, ReviewerOK, Decision
  <2>5. QED
    BY <2>2, <2>3, <2>4
<1>6. CASE Deciders(i) = {} /\ \E r \in Signatures(i) : TRUE
  <2>1. PICK r \in Signatures(i) : TRUE
    BY <1>6
  <2>2. Signatures(i) = {r}
    BY <1>3, <2>1 DEF Decided, OneHand
  <2>3. Cardinality(Deciders(i)) = 0 /\ Cardinality(Signatures(i)) = 1
    BY <1>6, <2>2, FS_EmptySet, FS_Singleton
  <2>4. QED
    BY <1>3, <2>1, <2>2, <2>3 DEF SignatureOK
<1>7. QED
  BY <1>4, <1>5, <1>6

LEMMA InitDecided == Init => Decided
BY DEF Init, Decided, ReviewerOK, Decides, OneHand

\* A step that changes neither items nor signatures, and after which each call stands
\* where it stood, has stopped, or goes on with the same decision.
LEMMA SameDecisions ==
    ASSUME Decided, queue' = queue, trail' = trail,
           \A q \in Procs : ReviewerOK(q)' /\ (Decides(q)' => Decides(q) /\ job'[q].item = job[q].item)
    PROVE  Decided'
BY DEF Decided, OneHand, SignatureOK

\* No call and no signature knows of a decision about a pending item, so a new one, by a
\* call that goes on or stops, leaves what is known as it was.
LEMMA NewDecision ==
    ASSUME TypeOK, Decided, NEW p \in Procs, pc[p] = "set_status",
           queue[job[p].item].status = "pending",
           queue' = [queue EXCEPT ![job[p].item].status = Decision(job[p].kind)], trail' = trail,
           \/ job' = job /\ pc' = [pc EXCEPT ![p] = IF job[p].kind = "approve" THEN "load" ELSE "sign"]
           \/ Stop(p)
    PROVE  Decided'
<1> DEFINE j == job[p]
           i == job[p].item
<1> /\ pc \in [Procs -> Steps \union {"idle"}]
    /\ job \in [Procs -> Job \union {NoJob}]
    /\ \A q \in Procs : ReviewerOK(q)
  BY DEF TypeOK, Decided
<1>1. /\ j \in Job /\ i \in 0 .. Len(queue)
      /\ j.kind \in {"approve", "reject"} /\ i \in DOMAIN queue
  <2>1. j \in Job /\ i \in 0 .. Len(queue) /\ j.kind # "publish" /\ i # 0
    BY JobOfCall DEF ReviewerOK
  <2>2. DOMAIN queue = 1 .. Len(queue) /\ Len(queue) \in Nat
    BY LenProperties DEF TypeOK
  <2>3. QED
    BY <2>1, <2>2 DEF Job, Kinds
<1>2. /\ ~Decides(p) /\ trail' = trail
      /\ \A q \in Procs \ {p} : pc'[q] = pc[q] /\ job'[q] = job[q]
      /\ pc'[p] # "idle" => job'[p] = j /\ pc'[p] = IF j.kind = "approve" THEN "load" ELSE "sign"
  BY DEF Decides, Stop
<1>3. /\ DOMAIN queue' = DOMAIN queue
      /\ \A k \in DOMAIN queue \ {i} : queue'[k] = queue[k]
      /\ queue'[i].status = Decision(j.kind)
  <2>1. queue[i] \in Item
    BY <1>1 DEF TypeOK
  <2>2. [queue[i] EXCEPT !.status = Decision(j.kind)].status = Decision(j.kind)
    BY <2>1 DEF Item
  <2>3. QED
    BY <1>1, <2>2
<1>4. \A q \in Procs : Decides(q) => job[q].item # i
  BY DEF ReviewerOK, Decision
<1>5. \A r \in trail : r.item # i /\ r.item \in DOMAIN queue
  BY DEF Decided, SignatureOK
<1>6. \A q \in Procs : Decides(q) => job[q].item \in DOMAIN queue
  <2>1. ASSUME NEW q \in Procs, Decides(q)
        PROVE  job[q].item \in 0 .. Len(queue) /\ job[q].item # 0
    BY <2>1, JobOfCall DEF Decides
  <2>2. DOMAIN queue = 1 .. Len(queue) /\ Len(queue) \in Nat
    BY LenProperties DEF TypeOK
  <2>3. QED
    BY <2>1, <2>2
<1> HIDE DEF i
<1>7. \A r \in trail : SignatureOK(r)'
  BY <1>2, <1>3, <1>5 DEF Decided, SignatureOK
<1>8. ReviewerOK(p)'
  BY <1>1, <1>2, <1>3 DEF ReviewerOK, Decides, i
<1>9. ASSUME NEW q \in Procs \ {p}
      PROVE  ReviewerOK(q)' /\ Decides(q)' = Decides(q)
  <2>1. pc'[q] = pc[q] /\ job'[q] = job[q] /\ ReviewerOK(q)
    BY <1>2
  <2>2. CASE Decides(q)
    <3>1. queue'[job[q].item] = queue[job[q].item]
      BY <1>3, <1>4, <1>6, <2>2
    <3>2. QED
      BY <2>1, <2>2, <3>1 DEF ReviewerOK, Decides
  <2>3. CASE ~Decides(q)
    BY <2>1, <2>3 DEF ReviewerOK, Decides
  <2>4. QED
    BY <2>2, <2>3
<1>10. OneHand'
  <2>1. Decides(p)' => job'[p].item = i
    BY <1>2 DEF Decides, i
  <2>2. QED
    BY <1>2, <1>4, <1>5, <1>9, <2>1 DEF Decided, OneHand
<1>11. QED
  BY <1>2, <1>7, <1>8, <1>9, <1>10 DEF Decided

LEMMA DecidedStep == TypeOK /\ Decided /\ Next => Decided'
<1> SUFFICES ASSUME TypeOK, Decided, Next
             PROVE  Decided'
  OBVIOUS
<1> /\ pc \in [Procs -> Steps \union {"idle"}]
    /\ job \in [Procs -> Job \union {NoJob}]
    /\ \A q \in Procs : ReviewerOK(q)
  BY DEF TypeOK, Decided
<1>1. CASE UNCHANGED <<pc, job, queue, trail>>
  BY <1>1, SameDecisions DEF ReviewerOK, Decides
<1>2. ASSUME NEW p \in Procs,
             BeginPublish(p) \/ BeginReview(p) \/ Step(p) \/ WriteFails(p) \/ Abort(p)
      PROVE  Decided'
  <2>1. CASE BeginPublish(p) \/ BeginReview(p)
    <3>1. /\ queue' = queue /\ trail' = trail
          /\ \A q \in Procs \ {p} : pc'[q] = pc[q] /\ job'[q] = job[q]
          /\ pc'[p] \in {"decide", "exists"} => job'[p].item = 0 /\ job'[p].kind = "publish"
          /\ pc'[p] \notin {"decide", "exists"} =>
                pc'[p] = "set_status" /\ job'[p].item # 0 /\ job'[p].kind # "publish"
      <4>1. \A i \in DOMAIN queue : i # 0
        BY LenProperties DEF TypeOK
      <4>2. CASE BeginPublish(p)
        BY <4>2 DEF BeginPublish, Start, stores
      <4>3. CASE BeginReview(p)
        BY <4>1, <4>3 DEF BeginReview, Start, stores
      <4>4. QED
        BY <2>1, <4>2, <4>3
    <3>2. QED
      BY <3>1, SameDecisions DEF ReviewerOK, Decides
  <2>2. CASE Exists(p) \/ ReadToken(p) \/ UnlinkToken(p) \/ Floor(p) \/ Abort(p)
    <3>1. /\ queue' = queue /\ trail' = trail
          /\ \A q \in Procs \ {p} : pc'[q] = pc[q] /\ job'[q] = job[q]
          /\ \/ pc'[p] = "idle"
             \/ /\ pc[p] \notin {"idle", "set_status"} /\ job'[p] = job[p]
                /\ pc'[p] \in {"read", "unlink", "decide", "enqueue", "release"}
      BY <2>2 DEF Exists, ReadToken, UnlinkToken, Floor, Abort, Goto, Stop, stores
    <3>2. QED
      BY <3>1, SameDecisions DEF ReviewerOK, Decides
  <2>3. CASE Load(p)
    <3>1. /\ [job[p] EXCEPT !.manifest = manifest].item = job[p].item
          /\ [job[p] EXCEPT !.manifest = manifest].kind = job[p].kind
      BY <2>3, JobOfCall DEF Load, Job
    <3>2. QED
      BY <2>3, <3>1, SameDecisions DEF Load, Start, stores, ReviewerOK, Decides
  <2>4. CASE Route(p)
    <3> DEFINE j == job[p]
               route == Decide(j.path, j.manifest, j.assessment, j.token # NoToken)
               next == AfterDecide(j, route)
    <3>1. /\ [j EXCEPT !.route = route].item = j.item
          /\ [j EXCEPT !.route = route].kind = j.kind
      <4>1. j \in Job
        BY <2>4, JobOfCall DEF Route
      <4> HIDE DEF route
      <4> QED
        BY <4>1 DEF Job
    <3>2. /\ next \in {"enqueue", "floor", "sign", "idle"}
          /\ next = "sign" => j.kind # "publish"
      BY DEF AfterDecide
    <3>3. \/ Stop(p)
          \/ Start(p, next, [j EXCEPT !.route = route])
      BY <2>4 DEF Route
    <3>4. queue' = queue /\ trail' = trail /\ pc[p] = "decide"
      BY <2>4 DEF Route, stores
    <3> HIDE DEF next, route
    <3> DEFINE k == [j EXCEPT !.route = route]
    <3>5. CASE Stop(p)
      BY <3>4, <3>5, SameDecisions DEF Stop, ReviewerOK, Decides
    <3>6. CASE Start(p, next, k)
      <4>1. /\ pc' = [pc EXCEPT ![p] = next] /\ job' = [job EXCEPT ![p] = k]
            /\ k.item = j.item /\ k.kind = j.kind
        BY <3>1, <3>6 DEF Start
      <4> HIDE DEF k
      <4>2. /\ pc'[p] = next /\ job'[p].item = job[p].item /\ job'[p].kind = job[p].kind
            /\ \A q \in Procs \ {p} : pc'[q] = pc[q] /\ job'[q] = job[q]
        BY <4>1
      <4>3. \A q \in Procs : ReviewerOK(q)' /\ (Decides(q)' => Decides(q) /\ job'[q].item = job[q].item)
        BY <3>2, <3>4, <4>2 DEF ReviewerOK, Decides
      <4>4. QED
        BY <3>4, <4>3, SameDecisions
    <3>7. QED
      BY <3>3, <3>5, <3>6
  <2>5. CASE Publish(p)
    <3>1. /\ [job[p] EXCEPT !.document = TRUE].item = job[p].item
          /\ [job[p] EXCEPT !.document = TRUE].kind = job[p].kind
      BY <2>5, JobOfCall DEF Publish, Job
    <3>2. /\ queue' = queue /\ trail' = trail /\ pc[p] = "release"
          /\ \/ Stop(p)
             \/ job[p].kind = "approve" /\ Start(p, "sign", [job[p] EXCEPT !.document = TRUE])
      BY <2>5 DEF Publish, stores
    <3>3. CASE Stop(p)
      BY <3>2, <3>3, SameDecisions DEF Stop, ReviewerOK, Decides
    <3>4. CASE job[p].kind = "approve" /\ Start(p, "sign", [job[p] EXCEPT !.document = TRUE])
      <4> DEFINE k == [job[p] EXCEPT !.document = TRUE]
      <4>1. /\ pc' = [pc EXCEPT ![p] = "sign"] /\ job' = [job EXCEPT ![p] = k]
            /\ k.item = job[p].item /\ k.kind = "approve"
        BY <3>1, <3>4 DEF Start
      <4> HIDE DEF k
      <4>2. /\ pc'[p] = "sign" /\ job'[p].item = job[p].item /\ job'[p].kind = job[p].kind
            /\ \A q \in Procs \ {p} : pc'[q] = pc[q] /\ job'[q] = job[q]
        BY <3>4, <4>1
      <4>3. \A q \in Procs : ReviewerOK(q)' /\ (Decides(q)' => Decides(q) /\ job'[q].item = job[q].item)
        BY <3>2, <3>4, <4>2 DEF ReviewerOK, Decides
      <4>4. QED
        BY <3>2, <4>3, SameDecisions
    <3>5. QED
      BY <3>2, <3>3, <3>4
  <2>6. CASE SetStatus(p) \/ WriteFails(p)
    <3>1. CASE Stop(p) /\ queue' = queue /\ trail' = trail
      BY <3>1, SameDecisions DEF Stop, ReviewerOK, Decides
    <3>2. CASE ~(Stop(p) /\ queue' = queue /\ trail' = trail)
      <4>1. /\ pc[p] = "set_status" /\ queue[job[p].item].status = "pending" /\ trail' = trail
            /\ queue' = [queue EXCEPT ![job[p].item].status = Decision(job[p].kind)]
        BY <2>6, <3>2 DEF SetStatus, DecideItem, WriteFails, Pending
      <4>2. \/ job' = job /\ pc' = [pc EXCEPT ![p] = IF job[p].kind = "approve" THEN "load" ELSE "sign"]
            \/ Stop(p)
        BY <2>6 DEF SetStatus, DecideItem, WriteFails
      <4>3. QED
        BY <4>1, <4>2, NewDecision
    <3>3. QED
      BY <3>1, <3>2
  <2>7. CASE Enqueue(p)
    <3> DEFINE item == [path |-> job[p].path, assessment |-> job[p].assessment,
                        status |-> "pending"]
    <3>1. queue' = Append(queue, item) /\ trail' = trail /\ pc[p] = "enqueue"
      BY <2>7 DEF Enqueue
    <3>2. item \in Item
      BY <2>7, JobOfCall DEF Enqueue, Job, Item
    <3> HIDE DEF item
    <3>3. \A k \in DOMAIN queue : k \in DOMAIN queue' /\ queue'[k] = queue[k]
      BY <3>1, <3>2, AppendProperties, LenProperties DEF TypeOK
    <3>4. /\ \/ job[p].kind = "approve" /\ pc' = [pc EXCEPT ![p] = "sign"] /\ job' = job
             \/ Stop(p)
          /\ \A q \in Procs \ {p} : pc'[q] = pc[q] /\ job'[q] = job[q]
      BY <2>7 DEF Enqueue, Finish, Goto, Stop
    <3>5. \A q \in Procs : Decides(q) => job[q].item \in DOMAIN queue
      <4>1. ASSUME NEW q \in Procs, Decides(q)
            PROVE  job[q].item \in 0 .. Len(queue) /\ job[q].item # 0
        BY <4>1, JobOfCall DEF Decides
      <4>2. DOMAIN queue = 1 .. Len(queue) /\ Len(queue) \in Nat
        BY LenProperties DEF TypeOK
      <4>3. QED
        BY <4>1, <4>2
    <3>6. \A q \in Procs : ReviewerOK(q)' /\ (Decides(q)' => Decides(q) /\ job'[q].item = job[q].item)
      BY <3>1, <3>3, <3>4, <3>5 DEF Stop, ReviewerOK, Decides
    <3>7. \A r \in trail' : SignatureOK(r)'
      BY <3>1, <3>3 DEF Decided, SignatureOK
    <3>8. QED
      BY <3>1, <3>6, <3>7 DEF Decided, OneHand
  <2>8. CASE Sign(p)
    <3> DEFINE r == [event |-> IF job[p].kind = "approve" THEN "queue_approved" ELSE "queue_rejected",
                     item |-> job[p].item, document |-> job[p].document]
    <3>1. /\ trail' = trail \union {r} /\ queue' = queue /\ pc[p] = "sign"
          /\ pc' = [pc EXCEPT ![p] = "idle"]
          /\ \A q \in Procs \ {p} : job'[q] = job[q]
      BY <2>8 DEF Sign, Stop
    <3>2. /\ Decides(p) /\ job[p].kind \in {"approve", "reject"}
          /\ job[p].item \in DOMAIN queue
      <4>1. /\ job[p] \in Job /\ job[p].item \in 0 .. Len(queue)
            /\ job[p].kind # "publish" /\ job[p].item # 0
        BY <3>1, JobOfCall DEF ReviewerOK
      <4>2. DOMAIN queue = 1 .. Len(queue) /\ Len(queue) \in Nat
        BY LenProperties DEF TypeOK
      <4>3. QED
        BY <3>1, <4>1, <4>2 DEF Decides, Job, Kinds
    <3>3. SignatureOK(r)
      BY <3>2 DEF ReviewerOK, SignatureOK, Decision
    <3>4. r.item = job[p].item
      OBVIOUS
    <3> HIDE DEF r
    <3>5. \A q \in Procs : ReviewerOK(q)' /\ (Decides(q)' => q # p /\ Decides(q) /\ job'[q].item = job[q].item)
      BY <3>1 DEF ReviewerOK, Decides
    <3>6. \A s \in trail' : SignatureOK(s)'
      BY <3>1, <3>3 DEF Decided, SignatureOK
    <3>7. QED
      BY <3>1, <3>2, <3>4, <3>5, <3>6 DEF Decided, OneHand
  <2>9. QED
    BY <1>2, <2>1, <2>2, <2>3, <2>4, <2>5, <2>6, <2>7, <2>8 DEF Step
<1>3. QED
  BY <1>1, <1>2 DEF Next, Mint, MintWrites, CleanupExpired, Expire, ChangeManifest

LEMMA SpecDecided == Spec => []Decided
<1>1. TypeOK /\ Decided /\ [Next]_vars => Decided'
  <2>1. Decided /\ UNCHANGED vars => Decided'
    BY DEF vars, stores, Decided, ReviewerOK, Decides, SignatureOK, OneHand
  <2>2. QED
    BY <2>1, DecidedStep
<1>2. QED
  BY InitDecided, <1>1, ReviewTypeCorrect, PTL DEF Spec

\* However many reviewers work on the queue at a time, an item is decided by one of
\* them and signed once, as it was decided.
THEOREM ItemsDecidedOnce == Spec => []DecidedOnce
BY SpecDecided, ReviewTypeCorrect, DecidedImpliesDecidedOnce, PTL

-----------------------------------------------------------------------------
(* What an approval is worth. *)

\* An approval orders nothing: a document that reaches SAG as the approval of an item
\* is one whose author could have published it without a reviewer, under a manifest of
\* the repository; what routing refused or asked about is signed, and stays unpublished.
ApprovalIsNoOrder ==
    \A r \in trail : r.document =>
       /\ r.event = "queue_approved"
       /\ \E m \in Manifests : Cleared(queue[r.item], m)

\* What is decided stays decided, about the same text; a step that drops an item from the
\* file does not change what it was.
FinalStep ==
    \A i \in DOMAIN queue :
       /\ i \in DOMAIN queue'
       /\ queue'[i].path = queue[i].path
       /\ queue'[i].assessment = queue[i].assessment
       /\ queue[i].status # "pending" => queue'[i].status = queue[i].status

LEMMA NextIsFinal ==
    ASSUME TypeOK, Next
    PROVE  FinalStep
<1>1. CASE queue' = queue
  BY <1>1 DEF FinalStep
<1>2. ASSUME NEW p \in Procs, SetStatus(p) \/ WriteFails(p)
      PROVE  FinalStep
  <2> DEFINE i == job[p].item
             status == Decision(job[p].kind)
  <2>1. queue' # queue =>
           queue[i].status = "pending" /\ queue' = [queue EXCEPT ![i].status = status]
    BY <1>2 DEF SetStatus, DecideItem, WriteFails, Pending
  <2>2. \A k \in DOMAIN queue : queue[k] \in Item
    BY DEF TypeOK
  <2> HIDE DEF i, status
  <2>3. ASSUME NEW k \in DOMAIN queue, queue' # queue
        PROVE  /\ k \in DOMAIN queue'
               /\ queue'[k].path = queue[k].path
               /\ queue'[k].assessment = queue[k].assessment
               /\ queue[k].status # "pending" => queue'[k].status = queue[k].status
    <3>1. k \in DOMAIN queue' /\ (k # i => queue'[k] = queue[k])
      BY <2>1, <2>3
    <3>2. k = i => queue'[k] = [queue[k] EXCEPT !.status = status]
      BY <2>1, <2>3
    <3>3. QED
      BY <2>1, <2>2, <2>3, <3>1, <3>2 DEF Item
  <2>4. QED
    BY <1>1, <2>3 DEF FinalStep
<1>3. ASSUME NEW p \in Procs, Enqueue(p)
      PROVE  FinalStep
  <2> DEFINE item == [path |-> job[p].path, assessment |-> job[p].assessment,
                      status |-> "pending"]
  <2>1. queue' = Append(queue, item) /\ pc[p] = "enqueue"
    BY <1>3 DEF Enqueue
  <2>2. item \in Item
    BY <2>1, JobOfCall DEF Job, Item
  <2> HIDE DEF item
  <2>3. \A k \in DOMAIN queue : k \in DOMAIN queue' /\ queue'[k] = queue[k]
    BY <2>1, <2>2, AppendProperties, LenProperties DEF TypeOK
  <2>4. QED
    BY <2>3 DEF FinalStep
<1>4. QED
  BY <1>1, <1>2, <1>3 DEF Next, Step, Mint, MintWrites, CleanupExpired, Expire, ChangeManifest,
     BeginPublish, BeginReview, Exists, ReadToken, UnlinkToken, Load, Route, Floor, Publish,
     Sign, Abort, stores

\* What is true of one call: a reviewer's call holds the item as it stands in the queue
\* and no token, it gets past routing on the item's own assessment, and what it has
\* published it is about to sign as approved.
Carries(p) ==
    LET j == job[p]
    IN  pc[p] # "idle" =>
           /\ j.kind # "publish" =>
                 /\ j.token = NoToken
                 /\ j.item \in DOMAIN queue
                 /\ queue[j.item].path = j.path
                 /\ queue[j.item].assessment = j.assessment
                 /\ pc[p] \in {"floor", "release"} => Cleared(queue[j.item], j.manifest)
           /\ j.document =>
                 /\ j.kind = "approve" /\ pc[p] = "sign"
                 /\ \E m \in Manifests : Cleared(queue[j.item], m)

Carried ==
    /\ \A p \in Procs : Carries(p)
    /\ \A r \in trail : r.item \in DOMAIN queue
    /\ ApprovalIsNoOrder

LEMMA InitCarried == Init => Carried
BY DEF Init, Carried, Carries, ApprovalIsNoOrder

\* An item is judged the same as long as its path and its assessment stay.
LEMMA SameItemSameJudgement ==
    ASSUME NEW it, NEW other, other.path = it.path, other.assessment = it.assessment
    PROVE  \A m : Cleared(other, m) <=> Cleared(it, m)
BY DEF Cleared

\* Without an order routing says auto or keeps the document back.
LEMMA NoOrderNoManual ==
    ASSUME NEW path, NEW m, NEW a
    PROVE  Decide(path, m, a, FALSE) # "manual"
BY DEF Decide, Judge

\* A call that stands still keeps what it carries, and so does one that only goes on.
LEMMA CarriesOn ==
    ASSUME Carried, FinalStep, NEW p \in Procs, Carries(p), pc[p] # "idle", job'[p] = job[p],
           pc'[p] \in {"floor", "release"} => pc[p] \in {"floor", "release"},
           job[p].document => pc'[p] = "sign"
    PROVE  Carries(p)'
<1>1. ASSUME job[p].kind # "publish" \/ job[p].document
      PROVE  /\ job[p].item \in DOMAIN queue /\ job[p].item \in DOMAIN queue'
             /\ queue'[job[p].item].path = queue[job[p].item].path
             /\ queue'[job[p].item].assessment = queue[job[p].item].assessment
             /\ \A m : Cleared(queue'[job[p].item], m) <=> Cleared(queue[job[p].item], m)
  <2>1. job[p].item \in DOMAIN queue
    BY <1>1 DEF Carries
  <2>2. /\ job[p].item \in DOMAIN queue'
        /\ queue'[job[p].item].path = queue[job[p].item].path
        /\ queue'[job[p].item].assessment = queue[job[p].item].assessment
    BY <2>1 DEF FinalStep
  <2>3. QED
    BY <2>1, <2>2, SameItemSameJudgement
<1>2. QED
  BY <1>1 DEF Carries

LEMMA SignaturesStay ==
    ASSUME Carried, FinalStep,
           \A r \in trail' \ trail :
              /\ r.item \in DOMAIN queue'
              /\ r.document => /\ r.event = "queue_approved"
                               /\ \E m \in Manifests : Cleared(queue'[r.item], m)
    PROVE  (\A r \in trail : r.item \in DOMAIN queue)' /\ ApprovalIsNoOrder'
<1>1. ASSUME NEW r \in trail' \cap trail
      PROVE  /\ r.item \in DOMAIN queue'
             /\ \A m : Cleared(queue'[r.item], m) <=> Cleared(queue[r.item], m)
  <2>1. r.item \in DOMAIN queue
    BY DEF Carried
  <2>2. /\ r.item \in DOMAIN queue'
        /\ queue'[r.item].path = queue[r.item].path
        /\ queue'[r.item].assessment = queue[r.item].assessment
    BY <2>1 DEF FinalStep
  <2>3. QED
    BY <2>2, SameItemSameJudgement
<1>2. QED
  BY <1>1 DEF Carried, ApprovalIsNoOrder

LEMMA CarriedStep == TypeOK /\ Decided /\ Carried /\ Next => Carried'
<1> SUFFICES ASSUME TypeOK, Decided, Carried, Next
             PROVE  Carried'
  OBVIOUS
<1> /\ pc \in [Procs -> Steps \union {"idle"}]
    /\ job \in [Procs -> Job \union {NoJob}]
    /\ \A q \in Procs : Carries(q)
  BY DEF TypeOK, Carried
<1> FinalStep
  BY NextIsFinal
\* A call that does not move.
<1>1. ASSUME NEW q \in Procs, pc'[q] = pc[q], job'[q] = job[q]
      PROVE  Carries(q)'
  <2>1. CASE pc[q] = "idle"
    BY <1>1, <2>1 DEF Carries
  <2>2. CASE pc[q] # "idle"
    BY <1>1, <2>2, CarriesOn DEF Carries
  <2>3. QED
    BY <2>1, <2>2
<1>2. ASSUME trail' = trail, \A q \in Procs : Carries(q)'
      PROVE  Carried'
  BY <1>2, SignaturesStay DEF Carried
<1>3. CASE UNCHANGED <<pc, job, trail>>
  BY <1>1, <1>2, <1>3
<1>4. ASSUME NEW p \in Procs,
             BeginPublish(p) \/ BeginReview(p) \/ Step(p) \/ WriteFails(p) \/ Abort(p)
      PROVE  Carried'
  <2>1. \A q \in Procs \ {p} : pc'[q] = pc[q] /\ job'[q] = job[q]
    BY <1>4 DEF BeginPublish, BeginReview, Step, WriteFails, Abort, Exists, ReadToken, UnlinkToken,
       SetStatus, DecideItem, Load, Route, Floor, Enqueue, Finish, Publish, Sign, Start, Goto, Stop
  <2>2. \A q \in Procs \ {p} : Carries(q)'
    BY <1>1, <2>1
  <2>3. ASSUME pc'[p] = "idle"
        PROVE  Carries(p)'
    BY <2>3 DEF Carries
  <2>4. ASSUME trail' = trail, Carries(p)'
        PROVE  Carried'
    BY <1>2, <2>2, <2>4
  <2>5. CASE Stop(p) /\ trail' = trail
    <3>1. pc'[p] = "idle"
      BY <2>5 DEF Stop
    <3>2. QED
      BY <2>3, <2>4, <2>5, <3>1
  <2>6. CASE BeginPublish(p)
    <3>1. /\ trail' = trail /\ pc'[p] \in {"decide", "exists"}
          /\ job'[p].kind = "publish" /\ ~job'[p].document
      BY <2>6 DEF BeginPublish, Start, stores
    <3>2. QED
      BY <2>4, <3>1 DEF Carries
  <2>7. CASE BeginReview(p)
    <3>1. PICK i \in DOMAIN queue, kind \in {"approve", "reject"} :
             Start(p, "set_status",
                   [kind |-> kind, path |-> queue[i].path,
                    assessment |-> queue[i].assessment, token |-> NoToken,
                    manifest |-> manifest, route |-> "queue", item |-> i,
                    document |-> FALSE])
      BY <2>7 DEF BeginReview
    <3>2. /\ pc'[p] = "set_status" /\ queue' = queue /\ trail' = trail
          /\ job'[p].token = NoToken /\ job'[p].item = i /\ ~job'[p].document
          /\ job'[p].path = queue[i].path /\ job'[p].assessment = queue[i].assessment
      BY <2>7, <3>1 DEF BeginReview, Start, stores
    <3>3. QED
      BY <2>4, <3>2 DEF Carries
  <2>8. CASE Exists(p) \/ ReadToken(p) \/ UnlinkToken(p) \/ SetStatus(p) \/ Enqueue(p)
    <3>1. /\ trail' = trail /\ pc[p] \notin {"idle", "sign"}
          /\ \/ Stop(p)
             \/ job'[p] = job[p] /\ pc'[p] \notin {"idle", "floor", "release"}
      BY <2>8 DEF Exists, ReadToken, UnlinkToken, SetStatus, DecideItem, Enqueue, Finish, Goto, Stop,
         stores
    <3>2. CASE job'[p] = job[p] /\ pc'[p] \notin {"idle", "floor", "release"}
      <4>1. ~job[p].document
        BY <3>1 DEF Carries
      <4>2. QED
        BY <2>4, <3>1, <3>2, <4>1, CarriesOn
    <3>3. QED
      BY <2>5, <3>1, <3>2
  <2>9. CASE Load(p)
    <3> DEFINE k == [job[p] EXCEPT !.manifest = manifest]
    <3>1. /\ k.kind = job[p].kind /\ k.token = job[p].token /\ k.item = job[p].item
          /\ k.path = job[p].path /\ k.assessment = job[p].assessment
          /\ k.document = job[p].document
      BY <2>9, JobOfCall DEF Load, Job
    <3>2. /\ pc[p] = "load" /\ pc' = [pc EXCEPT ![p] = "decide"] /\ job' = [job EXCEPT ![p] = k]
          /\ queue' = queue /\ trail' = trail
      BY <2>9 DEF Load, Start, stores
    <3> HIDE DEF k
    <3>3. pc'[p] = "decide" /\ job'[p] = k /\ ~job[p].document
      BY <3>2 DEF Carries
    <3>4. QED
      BY <2>4, <3>1, <3>2, <3>3 DEF Carries
  <2>10. CASE Route(p)
    <3> DEFINE j == job[p]
               route == Decide(j.path, j.manifest, j.assessment, j.token # NoToken)
               next == AfterDecide(j, route)
               k == [j EXCEPT !.route = route]
    <3>1. /\ k.kind = j.kind /\ k.token = j.token /\ k.item = j.item /\ k.path = j.path
          /\ k.assessment = j.assessment /\ k.document = j.document /\ k.manifest = j.manifest
      <4>1. j \in Job
        BY <2>10, JobOfCall DEF Route
      <4> HIDE DEF route
      <4> QED
        BY <4>1 DEF Job
    <3>2. /\ next \in {"enqueue", "floor", "sign", "idle"}
          /\ next = "floor" => route \in {"auto", "manual"}
      BY DEF AfterDecide
    <3>3. j.token = NoToken /\ route \in {"auto", "manual"} =>
             Decide(j.path, j.manifest, j.assessment, FALSE) = "auto"
      BY NoOrderNoManual
    <3>4. /\ pc[p] = "decide" /\ queue' = queue /\ trail' = trail
          /\ \/ Stop(p)
             \/ pc' = [pc EXCEPT ![p] = next] /\ job' = [job EXCEPT ![p] = k]
      BY <2>10 DEF Route, Start, stores
    <3> HIDE DEF route, next, k
    <3>5. CASE pc' = [pc EXCEPT ![p] = next] /\ job' = [job EXCEPT ![p] = k]
      <4>1. /\ pc'[p] = next /\ job'[p] = k /\ ~j.document
        BY <3>4, <3>5 DEF Carries
      <4>2. j.kind # "publish" =>
               /\ j.token = NoToken /\ j.item \in DOMAIN queue
               /\ queue[j.item].path = j.path /\ queue[j.item].assessment = j.assessment
        BY <3>4 DEF Carries
      <4>3. j.kind # "publish" /\ next = "floor" => Cleared(queue[j.item], j.manifest)
        BY <3>2, <3>3, <4>2 DEF Cleared
      <4> HIDE DEF j
      <4>4. Carries(p)'
        BY <3>1, <3>2, <3>4, <4>1, <4>2, <4>3 DEF Carries
      <4>5. QED
        BY <2>4, <3>4, <4>4
    <3>6. QED
      BY <2>5, <3>4, <3>5
  <2>11. CASE Floor(p)
    <3>1. /\ trail' = trail /\ pc[p] = "floor"
          /\ \/ Stop(p)
             \/ job'[p] = job[p] /\ pc'[p] \in {"enqueue", "release"}
      BY <2>11 DEF Floor, Goto, Stop, stores
    <3>2. CASE job'[p] = job[p] /\ pc'[p] \in {"enqueue", "release"}
      <4>1. ~job[p].document
        BY <3>1 DEF Carries
      <4>2. QED
        BY <2>4, <3>1, <3>2, <4>1, CarriesOn
    <3>3. QED
      BY <2>5, <3>1, <3>2
  <2>12. CASE Publish(p)
    <3> DEFINE k == [job[p] EXCEPT !.document = TRUE]
    <3>1. /\ k.kind = job[p].kind /\ k.token = job[p].token /\ k.item = job[p].item
          /\ k.path = job[p].path /\ k.assessment = job[p].assessment
          /\ job[p].manifest \in Manifests
      BY <2>12, JobOfCall DEF Publish, Job
    <3>2. /\ pc[p] = "release" /\ queue' = queue /\ trail' = trail
          /\ \/ Stop(p)
             \/ /\ job[p].kind = "approve"
                /\ pc' = [pc EXCEPT ![p] = "sign"] /\ job' = [job EXCEPT ![p] = k]
      BY <2>12 DEF Publish, Start, stores
    <3> HIDE DEF k
    <3>3. CASE job[p].kind = "approve" /\ pc' = [pc EXCEPT ![p] = "sign"]
               /\ job' = [job EXCEPT ![p] = k]
      <4>1. pc'[p] = "sign" /\ job'[p] = k
        BY <3>3
      <4>2. Cleared(queue[job[p].item], job[p].manifest)
        BY <3>2, <3>3 DEF Carries
      <4>3. Carries(p)'
        BY <3>1, <3>2, <3>3, <4>1, <4>2 DEF Carries
      <4>4. QED
        BY <2>4, <3>2, <4>3
    <3>4. QED
      BY <2>5, <3>2, <3>3
  <2>13. CASE Sign(p)
    <3> DEFINE r == [event |-> IF job[p].kind = "approve" THEN "queue_approved" ELSE "queue_rejected",
                     item |-> job[p].item, document |-> job[p].document]
    <3>1. /\ trail' = trail \union {r} /\ queue' = queue /\ pc[p] = "sign"
          /\ pc'[p] = "idle"
      BY <2>13 DEF Sign, Stop
    <3>2. /\ r.item = job[p].item
          /\ r.document => r.event = "queue_approved"
                           /\ \E m \in Manifests : Cleared(queue[job[p].item], m)
      BY <3>1 DEF Carries
    <3>3. job[p].item \in DOMAIN queue
      BY <3>1 DEF Decided, ReviewerOK, Carries
    <3> HIDE DEF r
    <3>4. QED
      BY <2>2, <2>3, <3>1, <3>2, <3>3, SignaturesStay DEF Carried
  <2>14. CASE WriteFails(p) \/ Abort(p)
    BY <2>5, <2>14 DEF WriteFails, Abort, stores
  <2>15. QED
    BY <1>4, <2>6, <2>7, <2>8, <2>9, <2>10, <2>11, <2>12, <2>13, <2>14 DEF Step
<1>5. QED
  BY <1>3, <1>4 DEF Next, Mint, MintWrites, CleanupExpired, Expire, ChangeManifest

LEMMA SpecCarried == Spec => []Carried
<1>1. TypeOK /\ Decided /\ Carried /\ [Next]_vars => Carried'
  <2>1. Carried /\ UNCHANGED vars => Carried'
    BY DEF vars, stores, Carried, Carries, ApprovalIsNoOrder
  <2>2. QED
    BY <2>1, CarriedStep
<1>2. QED
  BY InitCarried, <1>1, ReviewTypeCorrect, SpecDecided, PTL DEF Spec

\* An approval replaces no judgement: it never publishes what routing would have
\* refused its author.
THEOREM ApprovalsOrderNothing == Spec => []ApprovalIsNoOrder
<1>1. Carried => ApprovalIsNoOrder
  BY DEF Carried
<1>2. QED
  BY <1>1, SpecCarried, PTL

\* What is true of one call: only a publish spends a token, and a reviewer's call routes
\* by a manifest that was in force after its decision.
Dated(p) ==
    /\ pc[p] \in {"exists", "read", "unlink"} => job[p].kind = "publish"
    /\ job[p].kind = "approve" /\ pc[p] \notin {"idle", "set_status"} => manifest \in since[p]
    /\ job[p].kind = "approve" /\ pc[p] \in {"decide", "floor", "release"} =>
          job[p].manifest \in since[p]

LEMMA DatedStep == TypeOK /\ Next /\ (\A p \in Procs : Dated(p)) => \A p \in Procs : Dated(p)'
<1> SUFFICES ASSUME TypeOK, Next, \A p \in Procs : Dated(p)
             PROVE  \A p \in Procs : Dated(p)'
  OBVIOUS
<1> /\ pc \in [Procs -> Steps \union {"idle"}]
    /\ job \in [Procs -> Job \union {NoJob}]
    /\ since \in [Procs -> SUBSET Manifests]
  BY DEF TypeOK
\* A call that does not move.
<1>1. ASSUME NEW q \in Procs, pc'[q] = pc[q], job'[q] = job[q], since'[q] = since[q],
             manifest' = manifest
      PROVE  Dated(q)'
  BY <1>1 DEF Dated
<1>2. CASE UNCHANGED <<pc, job, since, manifest>>
  BY <1>1, <1>2
<1>3. CASE ChangeManifest
  <2> SUFFICES ASSUME NEW q \in Procs
               PROVE  Dated(q)'
    OBVIOUS
  <2>1. /\ pc' = pc /\ job' = job
        /\ since'[q] = IF since[q] = {} THEN {} ELSE since[q] \union {manifest'}
    BY <1>3 DEF ChangeManifest
  <2>2. QED
    BY <2>1 DEF Dated
<1>4. ASSUME NEW p \in Procs,
             BeginPublish(p) \/ BeginReview(p) \/ Step(p) \/ WriteFails(p) \/ Abort(p)
      PROVE  \A q \in Procs : Dated(q)'
  <2>1. /\ manifest' = manifest
        /\ \A q \in Procs \ {p} : pc'[q] = pc[q] /\ job'[q] = job[q] /\ since'[q] = since[q]
    BY <1>4 DEF BeginPublish, BeginReview, Step, WriteFails, Abort, Exists, ReadToken, UnlinkToken,
       SetStatus, DecideItem, Load, Route, Floor, Enqueue, Finish, Publish, Sign, Start, Goto, Stop,
       stores
  <2>2. Dated(p)'
    <3>1. CASE Stop(p)
      BY <3>1 DEF Stop, Dated
    <3>2. CASE BeginPublish(p) \/ BeginReview(p)
      BY <3>2 DEF BeginPublish, BeginReview, Start, Dated
    <3>3. CASE SetStatus(p) /\ ~Stop(p)
      BY <3>3 DEF SetStatus, DecideItem, Dated
    <3>4. CASE Load(p)
      <4>1. /\ [job[p] EXCEPT !.manifest = manifest].kind = job[p].kind
            /\ [job[p] EXCEPT !.manifest = manifest].manifest = manifest
        BY <3>4, JobOfCall DEF Load, Job
      <4>2. QED
        BY <3>4, <4>1 DEF Load, Start, stores, Dated
    <3>5. CASE Exists(p) \/ ReadToken(p) \/ UnlinkToken(p) \/ Floor(p) \/ Enqueue(p) \/ Sign(p)
      <4>1. \/ Stop(p)
            \/ /\ job' = job /\ since' = since
               /\ pc[p] \notin {"idle", "set_status"} /\ pc'[p] # "set_status"
               /\ pc'[p] \in {"read", "unlink"} => pc[p] \in {"exists", "read"}
               /\ pc'[p] \in {"decide", "floor", "release"} => pc[p] \in {"unlink", "floor"}
               /\ pc'[p] # "exists"
        BY <3>5 DEF Exists, ReadToken, UnlinkToken, Floor, Enqueue, Finish, Sign, Goto, Stop
      <4>2. QED
        BY <2>1, <3>1, <4>1 DEF Dated
    <3>6. CASE Route(p)
      <4> DEFINE j == job[p]
                 route == Decide(j.path, j.manifest, j.assessment, j.token # NoToken)
                 next == AfterDecide(j, route)
                 k == [j EXCEPT !.route = route]
      <4>1. k.kind = j.kind /\ k.manifest = j.manifest
        <5>1. j \in Job
          BY <3>6, JobOfCall DEF Route
        <5> HIDE DEF route
        <5> QED
          BY <5>1 DEF Job
      <4>2. next \in {"enqueue", "floor", "sign", "idle"}
        BY DEF AfterDecide
      <4>3. /\ pc[p] = "decide"
            /\ Stop(p) \/ (pc' = [pc EXCEPT ![p] = next] /\ job' = [job EXCEPT ![p] = k] /\ since' = since)
        BY <3>6 DEF Route, Start
      <4> HIDE DEF route, next, k
      <4>4. QED
        BY <2>1, <3>1, <4>1, <4>2, <4>3 DEF Dated
    <3>7. CASE Publish(p)
      <4> DEFINE k == [job[p] EXCEPT !.document = TRUE]
      <4>1. k.kind = job[p].kind
        BY <3>7, JobOfCall DEF Publish, Job
      <4>2. /\ pc[p] = "release"
            /\ Stop(p) \/ (pc' = [pc EXCEPT ![p] = "sign"] /\ job' = [job EXCEPT ![p] = k] /\ since' = since)
        BY <3>7 DEF Publish, Start
      <4> HIDE DEF k
      <4>3. QED
        BY <2>1, <3>1, <4>1, <4>2 DEF Dated
    <3>8. CASE WriteFails(p) \/ Abort(p)
      BY <3>1, <3>8 DEF WriteFails, Abort
    <3>9. QED
      BY <1>4, <3>1, <3>2, <3>3, <3>4, <3>5, <3>6, <3>7, <3>8 DEF Step
  <2>3. QED
    BY <1>1, <2>1, <2>2
<1>5. QED
  BY <1>2, <1>3, <1>4 DEF Next, Mint, MintWrites, CleanupExpired, Expire

\* What an approval publishes, routing clears under a manifest that was in force after
\* the reviewer decided.
THEOREM ApprovalsKeepToPolicy == Spec => []ApprovalsFollowPolicy
<1> DEFINE AllDated == \A p \in Procs : Dated(p)
<1>1. Init => AllDated
  BY DEF Init, Dated
<1>2. TypeOK /\ AllDated /\ [Next]_vars => AllDated'
  <2>1. AllDated /\ UNCHANGED vars => AllDated'
    BY DEF vars, stores, Dated
  <2>2. QED
    BY <2>1, DatedStep
<1>3. AllDated /\ Carried => ApprovalsFollowPolicy
  BY DEF Dated, Carried, Carries, ApprovalsFollowPolicy
<1>4. Spec => []AllDated
  <2> HIDE DEF AllDated
  <2> QED
    BY <1>1, <1>2, ReviewTypeCorrect, PTL DEF Spec
<1>5. QED
  <2> HIDE DEF AllDated
  <2> QED
    BY <1>3, <1>4, SpecCarried, PTL

=============================================================================
