------------------------------- MODULE Review -------------------------------
(***************************************************************************)
(* How a document gets past the judgement of agents and humans: an agent    *)
(* publishes with its assessment, a user orders the publish with a slash    *)
(* command that mints a token, and what is neither clear nor ordered waits  *)
(* in the queue for a reviewer.  What follows (replace, upload, provenance) *)
(* is the step Publish here and the module Publish; publish_unreviewed,     *)
(* which goes past routing by design, is only there.                        *)
(*                                                                         *)
(* Processes are calls of publish_one, publish_content, approve and reject; *)
(* publish_content is publish_one of text that is never Binary, without a   *)
(* token; sync.run is publish_one without an assessment, file by file.      *)
(* Queue operations hold the lock of their file and are one step each       *)
(* (StateFile), unless the process is killed while it writes the queue.     *)
(***************************************************************************)
EXTENDS Routing, Sequences, FiniteSets

CONSTANTS
    Procs,
    Tokens,       \* secrets.token_urlsafe: never the same twice
    Manifests,    \* manifests the repository may have
    Assessments,  \* assessments that agents may make
    Binary,       \* paths of files that are not UTF-8 text
    MaxQueue,     \* bound: items in the queue
    NoToken, NoJob

ASSUME ReviewAssumption ==
    /\ Manifests \subseteq Manifest
    /\ Assessments \subseteq Assessment
    /\ Binary \subseteq Paths
    /\ IsFiniteSet(Procs)
    /\ MaxQueue \in Nat
    /\ NoToken \notin Tokens

VARIABLES
    manifest,   \* the manifest file of the repository
    tokens,     \* the token files in ~/.sagctl/session
    queue,      \* history: all items of queue.jsonl; an item's id is its place
    lost,       \* the items that queue.jsonl does not hold any more
    accepted,   \* history: how many calls took each token as valid
    trail,      \* the audit log: the signatures of reviewers
    pc,         \* the next step of each call
    job,        \* its arguments and local variables; `item` is what it reviews
    since       \* history: the manifests in force since each reviewer's call decided

stores == <<manifest, tokens, queue, lost, accepted, trail>>
vars == <<stores, pc, job, since>>

Given == Assessments \union {NoAssessment}
\* A token is bound to the path that its user types.
TokenFile == [state : {"unused", "half", "there", "gone"}, args : Paths, expired : BOOLEAN]
Item == [path : Paths, assessment : Given,
         status : {"pending", "approved", "rejected"}]
Steps == {"exists", "read", "unlink", "set_status", "load", "decide", "floor",
          "enqueue", "release", "sign"}
Kinds == {"publish", "approve", "reject"}
Job == [kind : Kinds, path : Paths, assessment : Given,
        token : Tokens \union {NoToken}, manifest : Manifests, route : Routes,
        item : Nat, document : BOOLEAN]
AuditRecord == [event : {"queue_approved", "queue_rejected"},
                item : Nat, document : BOOLEAN]

ASSUME NoJobAssumption == NoJob \notin Job

Init ==
    /\ manifest \in Manifests
    /\ tokens \in [Tokens -> {f \in TokenFile : f.state = "unused" /\ ~f.expired}]
    /\ queue = <<>>
    /\ lost = {}
    /\ accepted = [t \in Tokens |-> 0]
    /\ trail = {}
    /\ pc = [p \in Procs |-> "idle"]
    /\ job = [p \in Procs |-> NoJob]
    /\ since = [p \in Procs |-> {}]

-----------------------------------------------------------------------------
(* Moves of one process. *)

Goto(p, step) == pc' = [pc EXCEPT ![p] = step] /\ UNCHANGED <<job, since>>

Stop(p) ==
    /\ pc' = [pc EXCEPT ![p] = "idle"]
    /\ job' = [job EXCEPT ![p] = NoJob]
    /\ since' = [since EXCEPT ![p] = {}]

Start(p, step, j) ==
    /\ pc' = [pc EXCEPT ![p] = step]
    /\ job' = [job EXCEPT ![p] = j]
    /\ UNCHANGED since

\* The manifest is loaded first.
BeginPublish(p) ==
    /\ pc[p] = "idle"
    /\ \E path \in Paths, a \in Given, t \in Tokens \union {NoToken} :
          /\ t # NoToken => tokens[t].state \notin {"unused", "half"}
          /\ Start(p, IF t = NoToken THEN "decide" ELSE "exists",
                   [kind |-> "publish", path |-> path, assessment |-> a,
                    token |-> t, manifest |-> manifest, route |-> "queue", item |-> 0,
                    document |-> FALSE])
    /\ UNCHANGED stores

BeginReview(p) ==
    /\ pc[p] = "idle"
    /\ \E i \in DOMAIN queue, kind \in {"approve", "reject"} :
          Start(p, "set_status",
                [kind |-> kind, path |-> queue[i].path, assessment |-> queue[i].assessment, token |-> NoToken,
                 manifest |-> manifest, route |-> "queue", item |-> i,
                 document |-> FALSE])
    /\ UNCHANGED stores

(* consume: nothing makes its three steps one. *)

Exists(p) ==
    /\ pc[p] = "exists"
    /\ IF tokens[job[p].token].state = "there" THEN Goto(p, "read") ELSE Stop(p)
    /\ UNCHANGED stores

\* A file that is gone by now cannot be read, and the call is refused.
ReadToken(p) ==
    /\ pc[p] = "read"
    /\ IF tokens[job[p].token].state = "there" THEN Goto(p, "unlink") ELSE Stop(p)
    /\ UNCHANGED stores

Valid(p) ==
    LET t == tokens[job[p].token] IN ~t.expired /\ t.args = job[p].path

UnlinkToken_IfRefused(p) ==
    LET t == job[p].token
    IN  /\ pc[p] = "unlink"
        /\ IF Valid(p)
           THEN Goto(p, "decide") /\ accepted' = [accepted EXCEPT ![t] = @ + 1] /\ UNCHANGED tokens
           ELSE Stop(p) /\ tokens' = [tokens EXCEPT ![t].state = "gone"] /\ UNCHANGED accepted
        /\ UNCHANGED <<manifest, queue, lost, trail>>

\* The file goes, whether or not the token turns out to be valid.
UnlinkToken(p) ==
    LET t == job[p].token
    IN  /\ pc[p] = "unlink"
        /\ tokens' = [tokens EXCEPT ![t].state = "gone"]
        /\ IF Valid(p)
           THEN Goto(p, "decide") /\ accepted' = [accepted EXCEPT ![t] = @ + 1]
           ELSE Stop(p) /\ UNCHANGED accepted
        /\ UNCHANGED <<manifest, queue, lost, trail>>

(* approve and reject *)

Decision(kind) == IF kind = "approve" THEN "approved" ELSE "rejected"

Pending(i) == i \notin lost /\ queue[i].status = "pending"

DecideItem(p) ==
    LET j == job[p]
    IN  /\ queue' = [queue EXCEPT ![j.item].status = Decision(j.kind)]
        /\ pc' = [pc EXCEPT ![p] = IF j.kind = "approve" THEN "load" ELSE "sign"]
        /\ since' = [since EXCEPT ![p] = {manifest}]
        /\ UNCHANGED job

SetStatus_AnyStatus(p) ==
    /\ pc[p] = "set_status"
    /\ DecideItem(p)
    /\ UNCHANGED <<manifest, tokens, lost, accepted, trail>>

\* queue_set_status: an item that is not pending, or not there, is refused.
SetStatus(p) ==
    /\ pc[p] = "set_status"
    /\ IF Pending(job[p].item) THEN DecideItem(p) ELSE Stop(p) /\ UNCHANGED queue
    /\ UNCHANGED <<manifest, tokens, lost, accepted, trail>>

\* The process is killed, or the disk is full, while queue_set_status or queue_add
\* writes the queue anew: the file keeps the first items.
WriteFails(p) ==
    /\ \E kept \in 0 .. Len(queue) :
          /\ \/ /\ pc[p] = "set_status" /\ Pending(job[p].item)
                /\ queue' = IF job[p].item > kept THEN queue
                            ELSE [queue EXCEPT ![job[p].item].status = Decision(job[p].kind)]
             \/ pc[p] = "enqueue" /\ UNCHANGED queue
          /\ lost' = lost \union (kept + 1 .. Len(queue))
    /\ Stop(p)
    /\ UNCHANGED <<manifest, tokens, accepted, trail>>

Load_Keeps(p) == pc[p] = "load" /\ Goto(p, "decide") /\ UNCHANGED stores

\* An approved item goes through the whole of publish_one or publish_content.
Load(p) ==
    /\ pc[p] = "load"
    /\ Start(p, "decide", [job[p] EXCEPT !.manifest = manifest])
    /\ UNCHANGED stores

(* publish_one and publish_content *)

\* not-knowledge returns to approve, which signs; the other refusals raise.
AfterDecide(j, route) ==
    CASE route = "queue" -> "enqueue"
      [] route \in {"auto", "manual"} -> "floor"
      [] route = "reject_not_knowledge" /\ j.kind = "approve" -> "sign"
      [] OTHER -> "idle"

Route(p) ==
    LET j == job[p]
        route == Decide(j.path, j.manifest, j.assessment, j.token # NoToken)
        next == AfterDecide(j, route)
    IN  /\ pc[p] = "decide"
        /\ IF next = "idle" THEN Stop(p) ELSE Start(p, next, [j EXCEPT !.route = route])
        /\ UNCHANGED stores

\* What no decoder reads goes to the queue, unless a user ordered it, which is
\* refused; all other clauses of the floor stop the call (see Abort).
Floor(p) ==
    LET j == job[p]
        unscannable == j.path \in Binary
    IN  /\ pc[p] = "floor"
        /\ IF ~CheckPathPolicy(j.path, j.manifest) \/ (unscannable /\ j.route # "auto")
           THEN Stop(p)
           ELSE Goto(p, IF unscannable THEN "enqueue" ELSE "release")
        /\ UNCHANGED stores

Finish_KeepsJob(p) ==
    IF job[p].kind = "approve" THEN Goto(p, "sign") ELSE Goto(p, "idle")

Finish(p) == IF job[p].kind = "approve" THEN Goto(p, "sign") ELSE Stop(p)

Enqueue(p) ==
    LET j == job[p]
    IN  /\ pc[p] = "enqueue"
        /\ Len(queue) < MaxQueue
        /\ queue' = Append(queue, [path |-> j.path, assessment |-> j.assessment,
                                   status |-> "pending"])
        /\ Finish(p)
        /\ UNCHANGED <<manifest, tokens, lost, accepted, trail>>

Publish(p) ==
    LET j == job[p]
    IN  /\ pc[p] = "release"
        /\ IF j.kind = "approve" THEN Start(p, "sign", [j EXCEPT !.document = TRUE]) ELSE Stop(p)
        /\ UNCHANGED stores

\* The second signature.
Sign(p) ==
    LET j == job[p]
    IN  /\ pc[p] = "sign"
        /\ trail' = trail \union
              {[event |-> IF j.kind = "approve" THEN "queue_approved" ELSE "queue_rejected",
                item |-> j.item, document |-> j.document]}
        /\ Stop(p)
        /\ UNCHANGED <<manifest, tokens, queue, lost, accepted>>

\* A clause of the floor, a call or the process fails; a file queued on another
\* host is not found.
Abort(p) ==
    /\ pc[p] # "idle"
    /\ Stop(p)
    /\ UNCHANGED stores

-----------------------------------------------------------------------------
(* The user, the hook, sagctl doctor and the clock. *)

\* The user types /sag-publish <path>; the hook opens the token's file, writes it
\* and then prints the token.
Mint(t) ==
    /\ tokens[t].state = "unused"
    /\ tokens' = [tokens EXCEPT ![t].state = "half"]
    /\ UNCHANGED <<manifest, queue, lost, accepted, trail, pc, job, since>>

\* A file that cleanup_expired took for broken is gone for good.
MintWrites(t) ==
    /\ tokens[t].state = "half"
    /\ tokens' = [tokens EXCEPT ![t].state = "there"]
    /\ UNCHANGED <<manifest, queue, lost, accepted, trail, pc, job, since>>

CleanupExpired(t) ==
    /\ \/ tokens[t].state = "half"
       \/ tokens[t].state = "there" /\ tokens[t].expired
    /\ tokens' = [tokens EXCEPT ![t].state = "gone"]
    /\ UNCHANGED <<manifest, queue, lost, accepted, trail, pc, job, since>>

Expire(t) ==
    /\ tokens[t].state \notin {"unused", "half"}
    /\ ~tokens[t].expired
    /\ tokens' = [tokens EXCEPT ![t].expired = TRUE]
    /\ UNCHANGED <<manifest, queue, lost, accepted, trail, pc, job, since>>

ChangeManifest ==
    /\ manifest' \in Manifests
    /\ since' = [p \in Procs |-> IF since[p] = {} THEN {} ELSE since[p] \union {manifest'}]
    /\ UNCHANGED <<tokens, queue, lost, accepted, trail, pc, job>>

Step(p) ==
    \/ Exists(p) \/ ReadToken(p) \/ UnlinkToken(p) \/ SetStatus(p) \/ Load(p) \/ Route(p)
    \/ Floor(p) \/ Enqueue(p) \/ Publish(p) \/ Sign(p)

Next ==
    \/ \E p \in Procs : BeginPublish(p) \/ BeginReview(p) \/ Step(p) \/ WriteFails(p) \/ Abort(p)
    \/ \E t \in Tokens : Mint(t) \/ MintWrites(t) \/ CleanupExpired(t) \/ Expire(t)
    \/ ChangeManifest

Spec == Init /\ [][Next]_vars

-----------------------------------------------------------------------------
(* Properties. *)

\* Shapes of the stores and of the calls' variables; only a running call has any.
TypeOK ==
    /\ manifest \in Manifests
    /\ tokens \in [Tokens -> TokenFile]
    /\ queue \in Seq(Item)
    /\ lost \subseteq DOMAIN queue
    /\ accepted \in [Tokens -> Nat]
    /\ trail \subseteq AuditRecord
    /\ pc \in [Procs -> Steps \union {"idle"}]
    /\ job \in [Procs -> Job \union {NoJob}]
    /\ since \in [Procs -> SUBSET Manifests]
    /\ \A p \in Procs : job[p] = NoJob <=> pc[p] = "idle"
    /\ \A p \in Procs : pc[p] # "idle" => job[p].item \in 0 .. Len(queue)

Deciders(i) == {p \in Procs : pc[p] \notin {"idle", "set_status"} /\ job[p].item = i}
Signatures(i) == {r \in trail : r.item = i}

\* The compare-and-set of queue_set_status: whatever reviewers do at the same time, an
\* item is decided by one of them and signed once, as it was decided.
DecidedOnce ==
    \A i \in DOMAIN queue :
       /\ Cardinality(Deciders(i)) + Cardinality(Signatures(i))
             <= (IF queue[i].status = "pending" THEN 0 ELSE 1)
       /\ \A r \in Signatures(i) :
             r.event = IF queue[i].status = "approved" THEN "queue_approved" ELSE "queue_rejected"

Ordered(j) == j.token # NoToken /\ tokens[j.token].args = j.path

Judged(j) ==
    /\ j.assessment # NoAssessment
    /\ j.assessment.verdict = "knowledge"
    /\ j.assessment.confidence >= j.manifest.min_confidence
    /\ j.path \notin j.manifest.ask_paths

\* Over all detours through tokens, queue and changing manifests, what is about to be
\* published is what a user ordered for this very path or an agent judged to be
\* knowledge, and what the manifest asks about is not published without an order.
OnlyOrderedOrJudged ==
    \A p \in Procs : pc[p] = "release" => Ordered(job[p]) \/ Judged(job[p])

\* Routing and floor read the same manifest in two places: what routing lets through,
\* on whatever grounds, the floor's path clause never stops.
PolicyAgrees ==
    \A p \in Procs : pc[p] = "floor" => CheckPathPolicy(job[p].path, job[p].manifest)

\* Under manifest m an agent could publish the item without a reviewer.
Cleared(it, m) == Decide(it.path, m, it.assessment, FALSE) = "auto"

\* What a reviewer's approval is about to publish, routing clears under a manifest that
\* was in force after the decision: an approval overrides no policy, and goes neither by
\* the manifest of the day the item was queued nor by that of a moment before it.
ApprovalsFollowPolicy ==
    \A p \in Procs : pc[p] = "release" /\ job[p].kind = "approve" =>
       \E m \in since[p] : Cleared(queue[job[p].item], m)

\* Calls that overlap may share an order of the user, and no other calls: however many
\* calls are made, killed and made again, an order is good for no more publishes than
\* calls run at a time (not for one only, as manual.py has it: single-use).
SharedByOverlapOnly == \A t \in Tokens : accepted[t] <= Cardinality(Procs)

=============================================================================
