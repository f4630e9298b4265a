# A TLA+ verification of the SAG agents plugin

`sagctl` is the write side of a knowledge base: agents on one or many hosts publish
documents to a SAG server through it, under a policy (manifest, self-assessment, a
deterministic floor, a human review queue) and with shared book-keeping (audit log, cost
counter, queue, provenance). The functions are short and sequential. What makes them hard
is that many processes run them at once, with no transaction anywhere: hooks, the `sagw`
MCP server and CLI invocations on one host, and several hosts on one SAG source and one
state service.

## 1. Inventory

| Component | Source | State it keeps | Operations | What is hard, what makes it correct |
|---|---|---|---|---|
| Publish engine | `scripts/sagctl/publish.py`, `gate.py`, `audit.py` (cap) | none of its own: every call reads and writes SAG, the state backend and the working tree in turn | `publish_one`, `publish_content`, `publish_unreviewed`, `unpublish_one`, `reprocess_one`, `_wait_for_ready` | no lock across list/delete/upload; check-then-act on the cap, and the counter read while it is rewritten; a crash or lost answer between any two calls; the file edited between scan and upload. Bounded duplicates, bounded cap overshoot, the key stays served (upload_then_delete), what is uploaded was scanned but for two known gaps |
| Routing and floor | `routing.py`, `gate.py`, `globmatch.py`, `manifest.py`, `assessment.py` | none (pure) | `decide`, `check_floor`, `match` | precedence of the rules, agreement between routing and floor |
| Keys | `keys.py` | none (pure) | `encode_key`, `decode_key`, `assert_no_drift` | two files must not share a key |
| State backends | `state.py` | `cost.json`, `queue.jsonl`, `audit.jsonl`, `provenance.json`, lock files | `cost_bump`, `cost_get`, `queue_add`, `queue_set_status`, `provenance_put`, lock acquire/break/release, `HttpBackend` | stale-lock breaking, truncate-then-write seen by unlocked readers, a crash in the middle of a rewrite, an answer lost after the effect |
| State service | `sagstate_server.py` | the same four files for each source, one lock for each source in memory | the routes of `_dispatch` | threads that outlive their clients, an exception inside the lock, a crash between truncate and write, a record cut off in the middle of its line, readers in the middle of a rewrite |
| Review queue and sync | `queue.py`, `sync.py` | queue items and their status | `enqueue`, `approve`, `reject`, `sync.run` | compare-and-set on `pending`, then a publish that may fail or be routed again; at most one reviewer wins, and the policy of the day of approval holds |
| Manual tokens | `manual.py`, the UserPromptSubmit hook | token files | `mint`, `consume`, `cleanup_expired` | read then unlink by two processes; expiry |
| SAG client | `restclient.py` | none | `list_documents_all`, `delete_document`, `upload_document`, `get_document`, `reprocess_document` | paging against a server whose support for limit/offset is unknown, documents coming and going between two pages, requests that time out after their effect |
| Maintenance | `maintain.py`, `provenance.py`, `gitutil.py` | none | `tie_break`, `dedupe_source`, `find_orphans`, `find_stale_branch` | a decision taken on a listing and applied later, by several hosts; a key must not lose its newest document; reports are about the branch, though fetches fail |
| Doctor | `doctor.py` | none | `unassessed_files`, `health_report`, `state_report` | the audit log read before the tree |
| Hooks | `hooks/*.py` | session markers, nudged and notified caches | UserPromptSubmit, PostToolUse, Stop/SessionEnd | overlap and kills; a file mentioned once, only new work, and new work in the end |
| MCP server | `mcp_protocol.py`, `sagw_server.py` | table of tools | initialize, tools/list, tools/call, ping | one answer for each request with an id, under that id, in order, and true; what ends the server |
| Command line | `__main__.py` | none | one call for each invocation, `--wait` | exit codes that are true |

Left out: `selftest.py`, `evalcmd.py`, `mcp_client.py` (measurements of a live SAG server), `adapters_emit.py` and
`install-shim.py` (text generation), `secrets_scan.py` (regular expressions; its verdict is a parameter), the
argument parsing of `__main__.py`.

## 2. The models

### Publish

A process is one running call of `publish_one`, `publish_content`, `publish_unreviewed`, `unpublish_one` or
`reprocess_one`, past the routing decision. `pc` is the next call it makes and `job` its local variables; the other
variables are what the calls share: the working tree (`file`, `head`), SAG (`docs`, `late`, `lastId`), the day, and the
state backend (`cost`, `prov`, `audit`). Every read or write of something shared is an action named after its
function, in the order of the code: `CheckGit`, `SecretScan`, `CheckCostCap`, `ReadFile`, `PutProvenance`,
`FindExisting`, `DeleteDocument`, `UploadDocument`, `AppendAudit`, `BumpCost`. Nothing in the code holds a lock across
two of these, so the model does not either. `Abort` is any exception and any kill; an effect whose answer is lost is the
call followed by `Abort`, and an upload that SAG applies after its client timed out is `UploadTimesOut` and later
`LateUploadLands`. Contents are values, of which `Refused` is what the secret scan finds something in; what goes
into the front matter of an authored text as `derived_from` is not scanned, so `ReadFile` may make its bytes anything.

`cost_bump` is two steps under its lock: `BumpCost` reads the file, counts and empties it, `WriteCost` writes it. A check
(`CostGet`, which takes no lock) in between finds day 0, which is a file that is empty, cut off or not there, and
takes the day for untouched. A kill in between leaves it so. Three history variables serve the properties: `blind` counts the publishes
whose check met a rewrite since the counter was last lost (and `job.blind` says so of a running call), and `unscanned` has the keys for which
text went out that no scan has read.

### FileLock, Lines, StateFile, AtomicLog

`FileLock` is `_FileLock` of `state.py`, one action for each system call (`Create` with O_EXCL, `Stat`, `Unlink`), the
deadline, `Exit`, a process being killed, and time. `Lines` is what a state file is to all models: a sequence of lines, each with the
updates that made it what it is, for an update either adds a line (`queue_add`) or changes one where it stands
(`queue_set_status`, a counter, a record). `StateFile` puts load, truncate and write of one file of
`LocalBackend` inside that lock; the rewrite of JSON lines goes out in pieces (`WriteSome`), a JSON document in one write. `AtomicLog`
is the promise: updates applied in one step each, to one line each, never lost. `StateFile` implements it under the refinement
`log <- Committed`, where a rewrite takes effect when it is complete. `Crashes` and `SlowHolders` switch on killed
processes and holders slower than the lock's timeout, under which the promise breaks and weaker properties remain.

### Routing, Review

`Routing` holds the decision of `routing.py` (`Decide`, `Judge`, `Included`, `Acknowledged`) and the path clause of
`gate.py` (`CheckPathPolicy`) as operators over manifests, in which a list of globs is the set of the paths it matches.
`Review` runs them: calls of `publish_one`, `publish_content`, `approve` and `reject` as processes over the queue, the
token files, the manifest and the audit log. `consume` is three steps (`Exists`, `ReadToken`, `UnlinkToken`), as in the
code. Queue and audit operations hold their lock and are one step each, which is what `StateFile` says of
them while nobody is killed there; `WriteFails` is a kill or a full disk in the middle of rewriting the queue, after which only the first
items are left (`lost` has the others, which the queue keeps for the sake of the record). `since` is a history variable: the
manifests that were in force since a reviewer decided. `accepted` counts the calls that each token was good for. `Mint` and `MintWrites` are the UserPromptSubmit hook, `CleanupExpired` is doctor, `Expire` the clock and
`ChangeManifest` a commit. `publish_unreviewed` bypasses routing by design (the harness asks the user) and is in
`Publish` only.

### StateService

The requests of clients (`HttpBackend._call`) at the state service, each with a thread of its own, for one source. A file
is a sequence of lines with the calls that made them; an item's line has the call that added it and the one that
decided it. `Arrive` is authorization and routing, `Acquire` to `Write` the block under `_lock_for` (load, empty the file,
write it; `WriteSome` writes a first part of a queue that is longer than a buffer), `Read` and `AppendAudit` the accesses without the lock, `Answer` the response, which a client that has given
up (`Fail`) does not see. `Fault` is an `OSError` anywhere, `Crash` and `Restart` the end of the server. Either may cut an append off
(`CutOff`): the line then lacks its end (`torn`), and what is written next becomes part of it (`Extended`) and does not parse. `AtomicLog` is
its abstract specification too, instantiated once for each file; one lock serves three of them and the audit log has none.

### Keys, Maintain

`Keys` is `keys.py` over sequences of characters. `Maintain` runs `dedupe_source`, `find_orphans` and `find_stale_branch`
on hosts with clones of their own. Commits are values, `Reaches` is ancestry and `Tree` what is in each commit, so that
`Wins` is `tie_break` as the code has it. `FirstPage`, `SecondPage` and `NextPage` are `list_documents_all` against a
server that pages or ignores paging; `Fetch` may fail without anybody noticing, as in the reports (`heads` is a history variable: the heads
of the branch since the last fetch of each clone that worked); `TieBreak`,
`RemoveLoser` and `AppendAudit` are the three steps of a deduplication. Publishers with upload_then_delete list,
upload and delete meanwhile, and may die with both copies in place, which is where the duplicates come from.

### Sessions

The hooks of sessions in one working tree. Each hook is a process (`hook[h]`) that goes through the reads and writes of
its script: the marker (`MarkerExists`, `HeadCommit`, `CreateMarker`, `WriteMarker`), the question what is to be mentioned
(`AlreadyNudged`; `ReadAudit`, `ScanTree`, `OwnShare`, `AlreadyNotified`), and the cache (`LoadCache`, `TruncateCache`,
`WriteCache`) before the `Output`. Git quotes the names of some files (`quoted`: not ASCII, a quote, a backslash), which
`FilesChangedSince` therefore does not return under the name that the tree has for them. A file written with `write_text` is empty between truncation and write, and a hook
that is killed there leaves it so. `started`, `shown`, `twice` and `trouble` are history variables.

### FrontEnds

`sagw` and invocations of `sagctl` on one document key. A line or command is taken (`Ignore`, `Hello`, `Refuse`, `Stumble`,
`Call`). The server looks at the id of a line only when it does not know the method, so a call without one (`Idless`) is carried out and
answered with id null (`Id`); `Stumble` is what ends it: JSON that is no object, and a `tools/call` whose params are a list or
whose name cannot be looked up. A call goes through `Find`, `Effect` and `Record` (what `Publish` takes apart into requests), a publish with
`--wait` through the loop of `_wait_for_ready` (`StopWaiting`, `PollFindsNothing`, `Poll`, `Blip`, `Sleep`) with its
clock, delay and cut-off sleep, and `Answer` is the response or exit code. `Ingest` is SAG, which may never process a
document. `RequestFails`, `RecordFails` and `Kill` are the failures, before or after the effect.

### How they fit

`Review` ends where `Publish` begins (its step `Publish`); `FrontEnds` has whole calls of `Publish` as its `Effect`; and `Maintain`
has the upload and the delete of `Publish`, of which it needs the listing, the order and the kill. `Publish` and `Review`
treat an operation of the state backend as one step, except where the code reads or dies in the middle of it (the counter in
`Publish`, the queue in `Review`); `StateFile` justifies that while no lock holder is killed or
slower than ten seconds, and `StateService` while no system call fails and the server does not crash; both do it by refinement of
the same `AtomicLog`. `Sessions` sees the engine only as files that become assessed.

## 3. What the runs show

| Run | Bounds | Shows |
|---|---|---|
| `publish_fleet` (`PublishFleet.cfg`) | 2 processes, 2 keys, delete_first, cap 2, one publish of a key a day, 2 days, 4 uploads, no late uploads | duplicates of a key never exceed the processes; the day's budget and the per-key guard are overrun by the publishes in flight at most, and by those whose check met the counter being rewritten; the counter never counts what the audit log does not have |
| `publish_swap` (`PublishSwap.cfg`) | 2 processes, 1 key, all five operations, upload_then_delete, files that change at any time, late uploads | a replacement never takes the last document of a key away; what SAG holds has a provenance record, and was scanned unless the file changed between scan and reading or the text has a `derived_from` |
| `publish_recover` (`PublishRecover.cfg`) | 2 processes, 1 key, the cap never reached | with crashes and failures for ever, the key is served again and again |
| `lock_live` (`FileLockLive.cfg`) | 2 processes, timeout 2 ticks | a lock file never stays behind for ever, and a waiter gets the lock or its error |
| `state_lines` (`StateFileLines.cfg`) | 2 processes, 3 updates, timeout 2 ticks, nobody killed or slow | mutual exclusion up to the tick of the timeout; a state file implements the atomic log; readers without the lock see the first lines of the file as it was before or will be after the rewrite that is going on |
| `state_crash` (`StateFileCrash.cfg`) | 3 processes, 4 updates, timeout 1 tick, killed and slow processes | whatever is lost, no update is there twice |
| `state_lost_doc` (`StateFileLostDoc.cfg`) | 2 processes, killed | violation: a process killed in the middle of a rewrite loses updates that were acknowledged |
| `review_rules` (`ReviewRules.cfg`) | 2 calls, 2 paths (one not decodable), 2 manifests, a sure and a negative assessment or none, 1 token, 1 queue item, kills while the queue is written | items are decided once and signed as decided; nothing goes past routing unordered and unjudged; an approval publishes by a manifest that was in force after it, not by an older one; no more calls share a token than overlap |
| `service` (`StateService.cfg`) | 3 calls at a time in 8 mixes that cover every route, 2 crashes or failing system calls | until something fails the four files are atomic logs, and a reader sees all that was acknowledged, an empty JSON document, or the first items of the queue with their decisions; with faults, items are decided once, a 409 or a refusal is true, no more acknowledged audit records are lost than there were faults, and every request that waits for the lock gets its turn |
| `maintain` (`Maintain.cfg`) | 2 hosts that dedupe, or 1 with any job, 1 publisher, 3 paths, 3 commits (one on a side branch), both key formats, page size 1, 3 documents | no key is lost or set back; keys name files; a listing without `truncated` is complete; where keys are paths, a report names only what was an orphan or stale since the last fetch that worked, and all that was so ever since |
| `sessions` (`Sessions.cfg`) | 1 session, 2 hooks at a time, 2 files (one of them or none quoted), 2 commits, 1 assessed file, nudges or reminders, 1 kill | a file is mentioned once; new work is mentioned in the end, unless Git quotes its name |
| `front_ends` (`FrontEnds.cfg`) | 1 server with up to 4 lines, the third without an id, 2 commands, 6 workloads, a wait of 6 s with requests of up to 1.25 s, 1 fault or kill, 1 unanswered poll | every line with an id is answered once, under its id, in order and truly; a wait is at most one request late; every line is dealt with and every invocation ends, but for what ends the server |

Bounds. Two processes are enough for every race of this code, which are all between one reader or writer and
another; the theorems below cover any number of them. The budgets (2 a day, 1 of a key) are smaller than the real
ones so that they are reached; the switch of the day happens within the run. `MaxUploads` stops the run, after which
only a lone process may still repair an unserved key, so that a state where the bound alone keeps a key unserved does
not exist. One queue item is enough for two reviewers to meet at it, and for a kill to lose it. In `service`, three calls are an
item, its decision and one more party (a second reviewer, or a reader); the second fault is there for the torn line, which takes one fault
to make and another to be cut off again. Two ticks of timeout tell before, at and after the timeout apart.
In `maintain` a page of one document and one page after the second reach every branch of the paging with three documents; three documents are two copies
and what a publisher adds, or a key with three copies; two linear commits and one on a branch give tie-break all its
outcomes. `duty`, `Scenarios`, `Workloads`, `Settings` and the mixes divide the inputs into cases that are checked one by one
in the same run: caches of nudges and reminders are separate files, so that they need not be in one behaviour. In
`sessions` a session has one kill, before its hooks overlap: what a second one can do to a marker or a cache, the
first can. `ShowMax` is 2 and so is the number of files: that more than ten files are never all named is
the code's doing (section 5), and the liveness property is about up to ten. In `front_ends` times are eighths of a second, the
wait has room for three polls, and a late request both before and at the deadline. The runs whose bound
ends them (`publish_recover`, `service`, `maintain`, `sessions`, `front_ends`) have the deadlock check off: all calls are made,
or all documents, commits or lines are used up.

Fairness. `Publish!Fairness`: whoever wants a document published runs the command again, every request has a timeout
(so a call goes on or fails, `WF` of `Step \/ Abort`), and a call that is reached again and again does not fail every
time (`SF` for each call, over all processes). Nothing says that a particular process gets through. `FileLock!LockFairness`:
time passes, a process goes on or is killed, a holder leaves, and processes are not killed every time one is about to
take the same step. `NobodyWaitsForever` needs its premise: `__enter__` goes back to the attempt without looking
at the deadline after it has broken a stale lock (`state.py:97`), so a waiter that meets stale locks for ever waits for ever.
`StateService!FairSpec`: a thread runs on, its failing counts as running; that is enough for a lock that is only held for a few
system calls, since a waiting thread is one of finitely many. It does not say that a request arrives or that
the server is started again. `Sessions!Fairness`: hooks run to their end, and turns of a session end, with a Stop hook, again and
again (`SF`, because the hooks that run at a time are bounded). `FrontEnds!FairSpec`: processes run; SAG need not process
anything, and that waits end nevertheless is the point of the property.

## 4. What is proved

All theorems hold for any number of processes, keys, updates, tokens, manifests and assessments, under the assumptions
on the constants that the modules declare.

- `PublishProofs`: `TypeOK`, `PublishedHasProvenance`, `ScannedUnlessChanged`, `ReplaceKeepsServed`, `BudgetOvershootBounded`,
  `PerKeyOvershootBounded`, `DuplicatesBounded` and
  `AuditBacksCounter`. The properties are not inductive: they speak of the stores, and what keeps them true is in the
  local variables of calls on their way. The strengthenings relate the two: what the local variables of a job may be at each step (`LocalsOK`);
  that a call past the scan carries what the scan passed, or something that is known to have changed (`ScannedOK`); that
  documents have distinct ids no newer than the last one (`DocsOK`); under upload_then_delete, that the document a
  call is about to delete is older than every other one of the key, and that the call's own new one is in SAG for as long
  as the old one is (`ReplaceOK`); that one process at a time rewrites the counter, which is empty meanwhile and otherwise never
  ahead of the day (`CostOK`; the bounds count a call as in flight from its check to its bump, and as blind if the check met a rewrite, with which
  it is told apart from the others once it is counted); that the documents of a key that nobody is
  about to delete and the calls past the listing are together never more than the processes, plus one under
  upload_then_delete (`DuplicatesOK`); and that every
  call that carries an uploaded document has one that no record of the audit log names yet (`FreshOK`), in front of a counter
  that is behind both in the file and in the hands of who rewrites it (`AuditBacksBoth`).
  `CallsDeliverDocuments` is about a finished call: if no upload lands after its client gave up (`~LateUploads`) and no
  two operations work on one key at a time (`OneCallPerKey`, a hypothesis about the behaviour: the code has no lock on a key), then a
  publish that comes to record itself has left exactly its own document of the key, with the bytes of the committed file where the
  operation promises that; an unpublish none; a reprocess the one it asked for, whatever crashed
  before (`CallsDeliver`). What the call relies on at each step is `Sole`: which documents
  its key has, told from what it has found, deleted and uploaded so far.
- `KeysProofs`: decoding undoes encoding for every path of any length and alphabet that can be encoded and has no underscore beside a
  slash (`DecodeUndoesEncode`), so that no two of them share a key (`KeysAreInjective`). The prover cannot use the
  library's induction theorems, whose parameter is an operator; the induction is over sets of numbers instead (`SetInduction`,
  from the minimum of a non-empty set, and `DownwardInduction` for what is computed from the end of a list). The
  recursive functions of the definitions and of the community modules are first shown to exist and to satisfy their
  equations. The characters are taken as values of which only their being different matters.
- `StateFileProofs`: for the lock, `LockTypeOK` and `MutualExclusion`: while nobody is killed or slow, the lock file of a
  holder is its own and as old as the holder's timer says (`LockFresh`), so nobody finds it stale. For the files, `TypeOK`; `NeverTwice` with killed and slow processes, because the update of a call that has
  not written yet is neither in the file nor in what any holder has loaded, and no update is in two lines of either (`UpdatesOK`); and, without them,
  the refinement `Atomic` and `ReadsAreBeginnings`, from the sole holder: what it loaded is the file until it empties it, and
  from then on the file is a beginning of what it writes (`SoleHolder`).
- `ReviewProofs`: `TypeOK`; `OnlyOrderedOrJudged` and `PolicyAgrees` from the grounds a call carries along (`Grounds`: it
  spent a token bound to its own path, or its assessment is enough, and the manifest it loaded lets the path through);
  `SharedByOverlapOnly`, from `Spent`: once one call was given a token its file is gone, and the calls it was given to and those that
  have read it and not yet removed it are together no more than the processes; `DecidedOnce`, from `OneHand`: an item is in the hands of one call or has one signature, and its
  status says which; `ApprovalsFollowPolicy`, from `Dated`: a reviewer's call routes by a manifest that was in force after its
  decision. `ApprovalsOrderNothing`: what an approval
  publishes is what the author could have published without a reviewer, under some manifest of the repository; the
  invariant `Carried` ties the call of a reviewer to its item in the queue, of which path and assessment never change
  (`FinalStep`). The queue may have any length here, and lose any items at its end.
- `StateServiceProofs`: `TypeOK`, `DecidedOnce`, `AnswersHold`, `ReadsAreUpToDate`, `AuditLosesOnePerFault` and the refinement `ServesAtomicLogs`,
  for any calls and any number of faults. `Owners`: the thread inside the block is the owner of the lock; `Histories`: what the
  status of a thread and the history of applied calls have to do with each other; `Queue`: every line, in the file and in every loaded copy, that has the `add` of
  an item has the decision too, if there was one (`Closed`), so that a lost line takes both and nothing can be decided
  again; `Promises`: what clients know is true; `AuditOK`: the records that were acknowledged and lost are no more than the faults, and fewer while the
  last line lacks its end, which no acknowledged record is part of; `Copies` and `Shown`: until something fails, a file has all applied calls
  or is being rewritten by a thread whose copy has them, and the lines of the queue, in the file and in the copy,
  are in an order in which what was acknowledged before an item was added is in its line or before it.
- `MaintainProofs`: `TypeOK`, `KeyNeverLost`, `ListingComplete`, `ReportsAreOfTheBranch`, `KeysNameFiles`. For `KeyNeverLost` (`KInv`): of two copies of a key
  one beats the other by the pair of rank and id; a document that anybody is about to delete, a loser of `pair` or the `old` copy of a
  publisher, is beaten by a document that has been there (`Pairing`, `Replacing`), and any document that is gone is beaten by
  one that is held (`Kept`); since beating is transitive and without cycles, the best of a key is never deleted.
  `Reached` says that only merged commits are there. For `ListingComplete` (`LInv`): at each place of the
  listing, the part of `intact` before the next offset is listed, because documents are only appended while nothing is deleted (`Covered`).
  For `ReportsAreOfTheBranch`, `Seen`: the ref of a clone is one of the heads since its last fetch that worked, so that what the report
  finds there was so at one of them, and what was so at all of them it finds.
  `KeysNameFiles` follows from `KeysProofs`, since every document was published for a path that can be encoded (`PathsAssumption` says
  that paths are strings of characters and that the formats are the two of `keys.py`). `DedupeRecordsAreJustified`: a removal in
  the audit log was of the copy that loses under a head the branch really had, never set a key back where
  merged commits are required, and was not undone (`AInv`: a maintainer's pair was decided that way, and what was so stays so).
- `SessionsProofs`: `TypeOK`; `RemindsOfNewWork` (theorem `RemindersAreNew`), from `Young`: markers are no older than the first prompt, and what a hook carries after `OwnShare`
  was committed after its marker; `MentionedOnce`, from `Orderly`: in a session whose caches were never torn there is one hook
  of a kind at a time, and what was shown is in the cache or in that hook's copy of it; `NothingMarkedUnsaid`, the converse for as many files as
  one message names: at rest, unless a hook was killed or two overlapped, a cache holds exactly what the session was told,
  so that nothing is suppressed that nobody said (`Backed`: what is marked was said, or a hook is about to say it).
- `FrontEndsProofs`: `TypeOK`, `AnswersAreTrue`, `WaitKeepsItsWord`. `Grows` is what a step of any process may do to SAG and the logs (ids
  are fresh, records and history only grow, a document that is gone stays so); `Fine` is what each process relies on: its
  local variables are sound for its place, its answers are in order and true, each under the id of its line (`Labelled`). A step changes one
  process and grows the rest (lemma `Turn`), and `Fine` is stable under growth. `StepsAreCounted` bounds a process that is
  asked for n lines to (n + 1) * (3 * WaitTimeout + 7) steps: every step of its own takes a line or uses up some of
  `StepsLeft`, which is the safety half of `EveryLineIsServed`.

Only model-checked: `Recovers`, `NeverWedged`, `NobodyWaitsForever`, `NobodyIsLockedOut`, `NewWorkIsReminded` and
`EveryLineIsServed` (liveness under fairness is out of the prover's reach), and the counterexample. Proved without a run:
`CallsDeliver`, `PolicyAgrees`, `ApprovalIsNoOrder`, `RemovalsAreJustified`, `RemindsOfNewWork`, `CachesAreTrue`, `StepsAreCounted` and the theorems of
`KeysProofs`.

## 5. Disagreements with documents and comments

One has a run, `state_lost_doc`, quoted in `PROJECT.json`. Met while modelling or reading, without a run:

Publishing
- `restclient.py:90`: an upload whose client timed out may land after the retry, so that a key has two documents under
  delete_first; `DESIGN.md:91` says "Never 2 versions at once". `Publish` has the step (`LateUploads`).
- `secrets_scan.py:1`: the scan is mandatory before every upload. `publish.py:187` reads the file again after it, so that an edit in between is
  uploaded unscanned; and `derived_from` of `publish_content` goes into the front matter (`publish.py:361-362`) without a scan.
  `ScannedUnlessChanged` says that these are the only two ways.
- `manual.py:62-63`: a token is used exactly once; two calls that overlap both read it before either unlinks it (`manual.py:74`).
  `SharedByOverlapOnly` says that only calls that overlap share it.
- `queue.py:98`: an approved item is routed once more and may be queued again, or its publish may fail, after the approval is signed;
  `AGENT-BEHAVIOR.md:409` says that approving makes the engine publish.
- `publish.py:466`, `SPEC.md`: exit code 75 on a timeout; the command line returns 2 (`__main__.py:172`). If no poll was answered,
  the result has no document id.
- Unpublish and reprocess refuse a key with two copies (`find_existing_by_key` raises), so that only dedupe can resolve it.
- `routing.py:3` puts `ask_paths` before include and exclude; `decide` tests include first, and `not-knowledge` before
  `ask_paths`. `Routing` follows the code.
- `assessment.py:34` and `SPEC.md:225` name an initiator `queue-approved`, which no code produces.
- `state.py:10`, `SPEC.md:361`: a queue item may be approved from another host; a file-mode item is a path of the host
  that queued it, so `approve` fails after it has set the status.
- `DESIGN.md:96`: rerunning `sagctl sync` recovers; sync has no assessment, so every file is queued.
- `sync.py:117` catches `PublishError` only; any other exception of one file ends the batch.
- `sag-status/SKILL.md:33-34`: publishing works with the state service down; `check_cost_cap` raises.
- `state.py:17-19`: every operation is atomic by construction. `cost_get` (`state.py:143`) reads without the lock: during a rewrite the counter is zero, and a cap that
  is reached lets a publish through (`blind` in the two bounds). Whoever is killed in a rewrite leaves the counter at zero for all.
- `state.py:59`: a torn line never invalidates the rest of the log. The line after it is written into it (`state.py:122-125`, `sagstate_server.py:103-106`), so that
  one more record is lost, though its writer was told that all is well; `AuditLosesOnePerFault` says that it is no more than one.
- A request whose answer is not JSON (`restclient.py:69`) raises `JSONDecodeError`, which is no `SagApiError`: `_wait_for_ready` ends in
  a traceback.

Maintenance
- `maintain.py:129-131`: an orphan is defined by the HEAD of the canonical branch. After a fetch that failed, of which nothing is said
  (`maintain.py:134`), it is defined by the head of an earlier day; `ReportsAreOfTheBranch` is about the heads since the last fetch that worked.
- `restclient.py:209-212`, paging: a server that ignores `offset` and honours `limit`, or caps the page below `page_size`,
  passes for one whose listing is complete.
- `DESIGN.md:287-289`, duplicates converge: two copies with the same commit stay undecided, and so do three copies.
- `maintain.py:33`, the docstring's rule 2, "is-ancestor(A, B)": the code asks whether each commit is an ancestor of the canonical branch.
- `maintain.py:146`: keys are compared with paths of Git, so that in the flat format every file below a directory is reported as an orphan; the
  comment at line 143 knows. `find_orphans` and `find_stale_branch` ignore `truncated`.
- A host with an old checkout may publish an older commit over a newer one; together with a dedupe that decided before, both
  copies may go (`StaleCheckouts`; `KeyNeverLost` is about checkouts that move forward).
- A copy that disappears between listing and comparison makes `get_document_parsed` raise, which ends the whole run.
- `keys.py:55`, bijective: `a_/b` and `a/_b` have the same key.

Hooks, doctor and MCP
- `doctor.py:13-16` counts any audit record with a key as assessed, for ever: later versions of the file are not mentioned.
- `_common.py:47`: a hook killed between creating the marker and writing it leaves it empty, and the session is never reminded.
  The marker is named after the session only, though a session may change repositories.
- `session_end_backstop.py:54`, "this SESSION is plausibly responsible": commits of other sessions in the tree count as its own.
- `session_end_backstop.py:128`: all files are marked, of which ten are named; the others are never mentioned.
- `gitutil.py:119`: Git quotes names that are not ASCII, or have a quote or a backslash, unless it is told not to. The backstop compares
  them with names of the tree (`session_end_backstop.py:64`), so the session is never reminded of such a file (`quoted`).
- `mcp_protocol.py:75`: "don't crash the server". What is JSON and no object (line 96), and a `tools/call` whose params are a list or whose
  name is a list or an object (lines 65-67), end it: the `try` begins behind them.
- `mcp_protocol.py:96-110`: the id is looked at in the last branch only. A known method without an id is a notification to JSON-RPC, and here it is
  carried out and answered with id null.

## 6. Not modelled

- Windows, where a file that is open cannot be unlinked; two holders of a JSON-lines file writing over each other (the
  result depends on the length of each line: an assumption of `StateFile` rules it out); a JSON document cut
  off in the middle of its single write by anything but a kill.
- Glob matching, finding and validating a manifest, the fields of an assessment, the wording of front matter, the
  secret scanner's patterns: the models take the verdict of each.
- In `StateService`, the new day of the counter (it is in `Publish`) and more than one source, which share nothing. `Publish` has
  the counter in a file: in the state service, the end of a client does not cut its bump off.
- In `Sessions`, the append-only file of `_log_unassessed`, which nothing reads; commits that undo what an earlier one did (the
  model says that a file is changed since a commit if it was touched since, which is what a net diff says of all but these); a session that changes its repository.
- In `FrontEnds`, the schemas of tools and the texts of results; in `Maintain`, `review_self_gate`, which counts records.
- The list of files of `sync.plan`, and `detect_renames`, which nothing calls; `health_report` and `state_report`, which read and change nothing.
- The provisioning calls of `restclient.py` (sources, login), which the modelled operations do not make.
- `secrets_scan.py`, `selftest.py`, `evalcmd.py`, `mcp_client.py`, `adapters_emit.py`, `install-shim.py`, most of `__main__.py`: see
  section 1.

## 7. Status and plan

Done: every module of section 2, with a proof module for each component that keeps or changes state. What could
still be added, in this order: the new day of the counter in `StateService`; commits that undo
earlier ones in `Sessions`; and a composition of `Publish` with two holders of the counter's lock, as in `state_crash`.
