------------------------------ MODULE Sessions ------------------------------
(***************************************************************************)
(* The hooks of an agent's sessions in one repository: UserPromptSubmit      *)
(* records the commit a session starts from, PostToolUse nudges about a     *)
(* file that was just written, Stop and SessionEnd remind of files that     *)
(* were committed since and never assessed (doctor.unassessed_files).       *)
(*                                                                         *)
(* Each hook is a process of its own that may be killed anywhere.  Hooks    *)
(* keep what they have mentioned in two caches of the session, which they   *)
(* load, empty and write without a lock.  A cache or marker that is read    *)
(* between these two steps counts as empty.  Sessions share the working     *)
(* tree, its commits and the audit log.                                     *)
(***************************************************************************)
EXTENDS Naturals, FiniteSets

CONSTANTS
    Sessions,
    Files,       \* the Markdown files that the manifest includes
    Tooled,      \* those that agents write with a tool that has a hook
    Settings,    \* the hooks that fire in one behaviour, besides the prompt's (a bound: all are
                 \* registered, with caches of their own), and the files whose names Git quotes
    Hooks,       \* hook processes, numbered: a new one takes the first free number
    ShowMax,     \* the ten files that a reminder names
    MaxCommits, MaxAssessed,  \* bounds on commits and on assessed files
    NoSession, NoMark,
    Empty        \* a marker that is created and not yet written

ASSUME SessionsAssumption ==
    /\ NoSession \notin Sessions
    /\ IsFiniteSet(Files) /\ Tooled \subseteq Files
    /\ Hooks \subseteq Nat
    /\ Settings \subseteq [fires : SUBSET {"nudge", "stop"}, quoted : SUBSET Files]
    /\ ShowMax \in Nat /\ MaxCommits \in Nat /\ MaxAssessed \in Nat
    /\ NoMark \notin Nat /\ Empty \notin Nat

VARIABLES
    fires,     \* the hooks that fire
    quoted,    \* the files with a name that is not ASCII, or has a quote or a backslash
    head,      \* how many commits there are
    touched,   \* the last commit of each file, or 0
    dirty,     \* the files that git status mentions
    audited,   \* the files that some record of the audit log names
    started,   \* history: the head when a session's first prompt came in, or NoMark
    marker,    \* <session>-start-commit.txt: a commit, NoMark, or Empty
    cache,     \* <session>-nudged.json and <session>-backstop-notified.json
    shown,     \* history: the files that each session was nudged about and reminded of
    twice,     \* history: the sessions told twice of the same file in the same way though
               \* no cache of theirs was ever torn
    trouble,   \* history: the sessions with a hook "killed", or with a cache "torn": one
               \* killed while writing it, or two of its hooks at the same time
    hook       \* each hook: where it is, its session, the files that it has to mention,
               \* and what it has read

repo == <<fires, quoted, head, touched, dirty, audited>>
files == <<marker, cache>>
history == <<started, shown, twice, trouble>>
vars == <<repo, files, history, hook>>

Kinds == {"nudge", "stop"}
Places == {"exists", "head", "create", "commit", "check", "audit", "scan", "share", "fresh",
           "load", "truncate", "write", "output"}
Idle == [at |-> "idle", of |-> NoSession, kind |-> "none", news |-> {}, found |-> {}]
At(h, place) == hook[h].at = place

Init ==
    /\ \E s \in Settings : fires = s.fires /\ quoted = s.quoted
    /\ head = 0
    /\ touched = [f \in Files |-> 0]
    /\ dirty = {}
    /\ audited = {}
    /\ started = [s \in Sessions |-> NoMark]
    /\ marker = [s \in Sessions |-> NoMark]
    /\ cache = [s \in Sessions |-> [k \in Kinds |-> {}]]
    /\ shown = [s \in Sessions |-> [k \in Kinds |-> {}]]
    /\ twice = {}
    /\ trouble = [s \in Sessions |-> {}]
    /\ hook = [h \in Hooks |-> Idle]

-----------------------------------------------------------------------------
(* The sessions and the repository. *)

Launch(h, s, k, place, fs) ==
    /\ At(h, "idle") /\ \A g \in Hooks : g < h => ~At(g, "idle")
    /\ hook' = [hook EXCEPT ![h] =
          [at |-> place, of |-> s, kind |-> k, news |-> fs, found |-> {}]]
    /\ trouble' = [trouble EXCEPT ![s] =
          @ \union {t \in {"torn"} : \E g \in Hooks : hook[g].of = s /\ hook[g].kind = k}]

Prompt(h, s) ==
    /\ Launch(h, s, "prompt", "exists", {})
    /\ started' = [started EXCEPT ![s] = IF @ = NoMark THEN head ELSE @]
    /\ UNCHANGED <<repo, files, shown, twice>>

\* An agent's Write or Edit, and its hook.
WriteFile(h, s, f) ==
    /\ started[s] # NoMark /\ "nudge" \in fires
    /\ Launch(h, s, "nudge", "check", {f})
    /\ dirty' = dirty \union {f}
    /\ UNCHANGED <<fires, quoted, head, touched, audited, files, started, shown, twice>>

\* Bash, an editor, another session: no hook runs.
ChangeFile(f) ==
    /\ f \notin dirty
    /\ dirty' = dirty \union {f}
    /\ UNCHANGED <<fires, quoted, head, touched, audited, files, history, hook>>

\* By the agent, or by anyone else who works in this tree.
Commit(f) ==
    /\ f \in dirty
    /\ head < MaxCommits
    /\ head' = head + 1
    /\ touched' = [touched EXCEPT ![f] = head + 1]
    /\ dirty' = dirty \ {f}
    /\ UNCHANGED <<fires, quoted, audited, files, history, hook>>

\* publish_one leaves a record whatever it decides.
Assess(f) ==
    /\ f \notin audited /\ Cardinality(audited) < MaxAssessed
    /\ audited' = audited \union {f}
    /\ UNCHANGED <<fires, quoted, head, touched, dirty, files, history, hook>>

\* Claude Code fires Stop after every turn.
Stop(h, s) ==
    /\ started[s] # NoMark /\ "stop" \in fires
    /\ Launch(h, s, "stop", "audit", {})
    /\ UNCHANGED <<repo, files, started, shown, twice>>

\* No status to report, and a commit: git status is also silent about an ignored file.
Committed == {f \in Files \ dirty : touched[f] # 0}

\* git diff --name-only prints a name that it quotes not as the glob finds it.
FilesChangedSince(c) == {f \in Files \ quoted : touched[f] > c}

\* read_session_start_commit
HasStartCommit(s) == marker[s] \notin {NoMark, Empty}

\* A hook that stays silent when it has nothing to mention.
Goto(h, place) == hook' = [hook EXCEPT ![h].at = place]
Exit(h) == hook' = [hook EXCEPT ![h] = Idle]
Mention(h, fs, place) ==
    hook' = [hook EXCEPT ![h] =
       IF fs = {} THEN Idle ELSE [@ EXCEPT !.at = place, !.news = fs, !.found = {}]]
Found(h, data, place) == hook' = [hook EXCEPT ![h] = [@ EXCEPT !.at = place, !.found = data]]

-----------------------------------------------------------------------------
(* record_session_start_commit *)

MarkerExists_Overwrites(h) ==
    /\ At(h, "exists")
    /\ Goto(h, "head")
    /\ UNCHANGED <<repo, files, history>>

\* Also if the marker is empty for ever, since a hook was killed at the wrong moment.
MarkerExists(h) ==
    /\ At(h, "exists")
    /\ IF marker[hook[h].of] = NoMark THEN Goto(h, "head") ELSE Exit(h)
    /\ UNCHANGED <<repo, files, history>>

HeadCommit_IgnoresFailure(h) ==
    /\ At(h, "head")
    /\ \/ Found(h, {head}, "create")
       \/ Found(h, {Empty}, "create")
    /\ UNCHANGED <<repo, files, history>>

\* Before the first commit there is no HEAD, and the hook ends.
HeadCommit(h) ==
    /\ At(h, "head")
    /\ Found(h, {head}, "create")
    /\ UNCHANGED <<repo, files, history>>

CreateMarker(h) ==
    /\ At(h, "create")
    /\ marker' = [marker EXCEPT ![hook[h].of] = Empty]
    /\ Goto(h, "commit")
    /\ UNCHANGED <<repo, cache, history>>

WriteMarker(h) ==
    /\ At(h, "commit")
    /\ \E c \in hook[h].found : marker' = [marker EXCEPT ![hook[h].of] = c]
    /\ Exit(h)
    /\ UNCHANGED <<repo, cache, history>>

-----------------------------------------------------------------------------
(* The nudge, and the reminder up to its list of files. *)

AlreadyNudged_AskedLater(h) ==
    /\ At(h, "check")
    /\ Goto(h, "load")
    /\ UNCHANGED <<repo, files, history>>

AlreadyNudged(h) ==
    /\ At(h, "check")
    /\ Mention(h, hook[h].news \ cache[hook[h].of]["nudge"], "load")
    /\ UNCHANGED <<repo, files, history>>

\* doctor.unassessed_files reads the audit log first ...
ReadAudit(h) ==
    /\ At(h, "audit")
    /\ Found(h, audited, "scan")
    /\ UNCHANGED <<repo, files, history>>

\* ... and then asks Git about each file.
ScanTree(h) ==
    /\ At(h, "scan")
    /\ Mention(h, Committed \ hook[h].found, "share")
    /\ UNCHANGED <<repo, files, history>>

OwnShare_WholeRepository(h) ==
    /\ At(h, "share")
    /\ Goto(h, "fresh")
    /\ UNCHANGED <<repo, files, history>>

\* Without a marker, nothing is this session's.
OwnShare(h) ==
    /\ At(h, "share")
    /\ Mention(h, IF HasStartCommit(hook[h].of)
                    THEN hook[h].news \intersect FilesChangedSince(marker[hook[h].of])
                    ELSE {}, "fresh")
    /\ UNCHANGED <<repo, files, history>>

AlreadyNotified(h) ==
    /\ At(h, "fresh")
    /\ Mention(h, hook[h].news \ cache[hook[h].of]["stop"], "load")
    /\ UNCHANGED <<repo, files, history>>

-----------------------------------------------------------------------------
(* _mark_nudged, _mark_notified, and the output. *)

LoadCache(h) ==
    /\ At(h, "load")
    /\ Found(h, cache[hook[h].of][hook[h].kind] \union hook[h].news, "truncate")
    /\ UNCHANGED <<repo, files, history>>

TruncateCache(h) ==
    /\ At(h, "truncate")
    /\ cache' = [cache EXCEPT ![hook[h].of][hook[h].kind] = {}]
    /\ Goto(h, "write")
    /\ UNCHANGED <<repo, marker, history>>

WriteCache_OnlyNews(h) ==
    /\ At(h, "write")
    /\ cache' = [cache EXCEPT ![hook[h].of][hook[h].kind] = hook[h].news]
    /\ Found(h, {}, "output")
    /\ UNCHANGED <<repo, marker, history>>

WriteCache(h) ==
    /\ At(h, "write")
    /\ cache' = [cache EXCEPT ![hook[h].of][hook[h].kind] = hook[h].found]
    /\ Found(h, {}, "output")
    /\ UNCHANGED <<repo, marker, history>>

\* A reminder names the first ten files only; all of them are marked by now.
Output(h) ==
    LET s == hook[h].of
        k == hook[h].kind
        news == hook[h].news
    IN  /\ At(h, "output")
        /\ \E fs \in SUBSET news :
              /\ IF Cardinality(news) <= ShowMax THEN fs = news ELSE Cardinality(fs) = ShowMax
              /\ shown' = [shown EXCEPT ![s][k] = @ \union fs]
              /\ twice' = IF fs \intersect shown[s][k] # {} /\ "torn" \notin trouble[s]
                          THEN twice \union {s} ELSE twice
        /\ Exit(h)
        /\ UNCHANGED <<repo, files, started, trouble>>

\* Timeouts of the harness, or a closed terminal; bounded to one for each session, before its
\* hooks overlap.
Kill(h) ==
    /\ ~At(h, "idle")
    /\ trouble[hook[h].of] = {}
    /\ trouble' = [trouble EXCEPT ![hook[h].of] =
          @ \union {"killed"} \union (IF At(h, "write") THEN {"torn"} ELSE {})]
    /\ Exit(h)
    /\ UNCHANGED <<repo, files, started, shown, twice>>

Proceed(h) ==
    \/ MarkerExists(h) \/ HeadCommit(h) \/ CreateMarker(h) \/ WriteMarker(h)
    \/ AlreadyNudged(h) \/ ReadAudit(h) \/ ScanTree(h) \/ OwnShare(h) \/ AlreadyNotified(h)
    \/ LoadCache(h) \/ TruncateCache(h) \/ WriteCache(h) \/ Output(h)

Next ==
    \/ \E h \in Hooks, s \in Sessions :
          Prompt(h, s) \/ Stop(h, s) \/ \E f \in Tooled : WriteFile(h, s, f)
    \/ \E h \in Hooks : Proceed(h) \/ Kill(h)
    \/ \E f \in Files : ChangeFile(f) \/ Commit(f) \/ Assess(f)

Spec == Init /\ [][Next]_vars

\* Turns end, and hooks run to their end unless they are killed.
Fairness ==
    /\ \A h \in Hooks : WF_vars(Proceed(h))
    /\ \A s \in Sessions : SF_vars(\E h \in Hooks : Stop(h, s))

FairSpec == Spec /\ Fairness

-----------------------------------------------------------------------------

TypeOK ==
    /\ [fires |-> fires, quoted |-> quoted] \in Settings
    /\ head \in 0 .. MaxCommits
    /\ touched \in [Files -> 0 .. head]
    /\ dirty \subseteq Files /\ audited \subseteq Files
    /\ started \in [Sessions -> (0 .. head) \union {NoMark}]
    /\ marker \in [Sessions -> (0 .. head) \union {NoMark, Empty}]
    /\ cache \in [Sessions -> [Kinds -> SUBSET Files]]
    /\ shown \in [Sessions -> [Kinds -> SUBSET Files]]
    /\ twice \subseteq Sessions
    /\ trouble \in [Sessions -> SUBSET {"killed", "torn"}]
    /\ \A h \in Hooks :
          \/ hook[h] = Idle
          \/ hook[h] \in [at : Places, of : Sessions, kind : {"prompt"} \union Kinds,
                          news : SUBSET Files, found : SUBSET (Files \union (0 .. head))]
    /\ DOMAIN hook = Hooks

\* post_tool_use_nudge.py and session_end_backstop.py mention a file once in a session:
\* however often the file is written and committed again and wherever hooks are killed,
\* except while they write the cache, if the hooks of a session do not overlap.
MentionedOnce == twice = {}

\* A session is only reminded of files that were committed since its first prompt, however
\* its prompts, its stops and the commits of others interleave, and whatever is killed.
RemindsOfNewWork ==
    \A s \in Sessions : \A f \in shown[s]["stop"] :
        started[s] # NoMark /\ touched[f] > started[s]

\* The backstop's purpose: what was committed since the marker of a session and left
\* unassessed, the session is reminded of in the end, unless one of its hooks was killed
\* or two of them overlapped - or Git quotes the name of the file.
NewWorkIsReminded ==
    \A s \in Sessions, f \in Files :
        "stop" \in fires /\ HasStartCommit(s) /\ touched[f] > marker[s] /\ f \notin quoted
            ~> f \in shown[s]["stop"] \union dirty \union audited \/ trouble[s] # {}
=============================================================================
