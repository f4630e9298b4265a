------------------------------ MODULE Maintain ------------------------------
(***************************************************************************)
(* Maintenance of one source (maintain.py): dedupe, the report of orphans   *)
(* and the report of stale branches, run by any number of hosts from their  *)
(* own clones, while others publish with upload_then_delete and the         *)
(* canonical branch moves on.  Nothing is locked: a listing is read page by *)
(* page, and what follows from it is decided later.                         *)
(*                                                                         *)
(* A document is what its provenance says: a path, and the commit it was    *)
(* published from, or NoCommit if its format carries no provenance.         *)
(***************************************************************************)
EXTENDS Keys, FiniteSets

CONSTANTS
    Maintainers,    \* hosts that run `sagctl maintain`
    Scenarios,      \* what they may run, what the manifest requires of a commit, what SAG holds
    Publishers,     \* calls of publish_one under upload_then_delete
    Paths,
    Formats,        \* the key formats that a source may be provisioned with
    OutsideGit,     \* paths published from outside any checkout (sag_in_git is false)
    Commits, NoCommit,
    Reaches,        \* for each commit, the commits it reaches, itself included
    Tree,           \* for each commit, the blob of each path, or NoBlob
    NoBlob,
    Local,          \* the commits that every clone has, whatever it fetches
    StaleCheckouts, \* may a host publish an older commit than the one in SAG?
    PageSize, MaxPages,
    MaxDocs,        \* bound on documents, past and present
    NoDoc

Jobs == {"dedupe", "orphans", "stale"}
Documents == [id : 1 .. MaxDocs, path : Paths, commit : Commits \union {NoCommit}]

ASSUME CommitsAssumption ==
    /\ NoCommit \notin Commits
    /\ Reaches \in [Commits -> SUBSET Commits]
    /\ \A c \in Commits : c \in Reaches[c] /\ IsFiniteSet(Reaches[c])
    /\ \A c \in Commits : \A d \in Reaches[c] : Reaches[d] \subseteq Reaches[c]
    /\ Local \subseteq Commits

ASSUME ScenariosAssumption ==
    /\ Scenarios \subseteq [duty : [Maintainers -> SUBSET Jobs],
                             require : {"committed", "merged"}, docs : Seq(Documents)]
    /\ \A s \in Scenarios : \A i \in DOMAIN s.docs :
          /\ s.docs[i].id = i
          /\ s.docs[i].commit # NoCommit => Tree[s.docs[i].commit][s.docs[i].path] # NoBlob
    /\ MaxDocs \in Nat
    /\ PageSize \in Nat \ {0} /\ MaxPages \in Nat
    /\ StaleCheckouts \in BOOLEAN

ASSUME PathsAssumption ==
    Paths \subseteq Seq(STRING) /\ Formats \subseteq {"flat", "path"}

VARIABLES
    require,  \* "merged": only commits that the canonical branch has reached
    format,   \* the source's key format
    server,   \* does SAG honour limit and offset?
    docs,     \* what SAG holds, oldest first
    lastId,
    aged,     \* the ids published more than stale_branch_days ago
    head,     \* the canonical branch at origin
    ref,      \* origin/<canonical branch> in each clone
    duty,     \* the jobs of each maintainer
    job,      \* what each maintainer runs
    pc,       \* and where it is
    offset,   \* of the next page
    listing,  \* the documents it has listed
    suspect,  \* `truncated`
    todo,     \* keys still to look at
    pair,     \* the winner and the loser of the current key
    report,   \* the documents it has reported
    audit,    \* dedupe_auto_removed records: <<kept, removed>>
    push,     \* what each publisher is about to do
    heads,    \* history: the heads of the branch since the last fetch of each clone
    intact,   \* history: what was in SAG when a listing began, until anything is deleted
    ever      \* history: all documents there have been

sag == <<require, format, server, docs, lastId, aged, ever>>
run == <<duty, job, pc, offset, listing, suspect, todo, pair, report>>
vars == <<sag, head, ref, heads, run, audit, push, intact>>

Places == {"idle", "fetch", "first", "second", "next", "listed", "group", "remove", "audit",
           "reported"}
NoPair == [winner |-> NoDoc, loser |-> NoDoc]
NoPush == [at |-> "idle", path |-> <<>>, commit |-> NoCommit, old |-> NoDoc]

Pushes == [at : {"idle", "upload", "delete"}, path : Paths \union {<<>>},
           commit : Commits \union {NoCommit}, old : Documents \union {NoDoc}]

KeyOf(path) == EncodeKey(path, format)
Copies(key, S) == {d \in S : KeyOf(d.path) = key}
Held == {docs[i] : i \in DOMAIN docs}
Without(d) ==
    IF d \in Held THEN RemoveAt(docs, CHOOSE i \in DOMAIN docs : docs[i] = d) ELSE docs

Init ==
    /\ \E s \in Scenarios : duty = s.duty /\ require = s.require /\ docs = s.docs
    /\ format \in Formats
    /\ server \in {"honours", "ignores"}
    /\ \A d \in Held : Encodable(d.path, format)
    /\ lastId = Len(docs)
    /\ aged = {}
    /\ head \in {c \in Commits : require = "merged" =>
                    \A d \in Held : d.commit \in Reaches[c] \union {NoCommit}}
    /\ ref = [m \in Maintainers |-> head]
    /\ heads = [m \in Maintainers |-> {head}]
    /\ job = [m \in Maintainers |-> "dedupe"]
    /\ pc = [m \in Maintainers |-> "idle"]
    /\ offset = [m \in Maintainers |-> 0]
    /\ listing = [m \in Maintainers |-> {}]
    /\ suspect = [m \in Maintainers |-> FALSE]
    /\ todo = [m \in Maintainers |-> {}]
    /\ pair = [m \in Maintainers |-> NoPair]
    /\ report = [m \in Maintainers |-> {}]
    /\ audit = {}
    /\ push = [p \in Publishers |-> NoPush]
    /\ intact = [m \in Maintainers |-> {}]
    /\ ever = Held

-----------------------------------------------------------------------------
(* The surroundings: the branch, the calendar and the publishers. *)

MoveHead ==
    /\ \E c \in Commits \ {head} : head \in Reaches[c] /\ head' = c
    /\ heads' = [m \in Maintainers |-> heads[m] \union {head'}]
    /\ UNCHANGED <<sag, ref, run, audit, push, intact>>

TimePasses ==
    /\ aged # {d.id : d \in Held}
    /\ aged' = {d.id : d \in Held}
    /\ UNCHANGED <<require, format, server, docs, lastId, ever, head, ref, heads, run, audit, push, intact>>

\* check_floor and the listing of publish_one: a path that has a key, a commit that is
\* merged if that is required, and the copy to replace, if there is one.
PublishLists(p) ==
    /\ push[p].at = "idle"
    /\ \E path \in Paths, c \in Commits, old \in Held \union {NoDoc} :
          /\ Encodable(path, format) /\ path \notin OutsideGit
          /\ Tree[c][path] # NoBlob
          /\ require = "merged" => c \in Reaches[head]
          /\ IF old = NoDoc THEN Copies(KeyOf(path), Held) = {}
             ELSE /\ old \in Copies(KeyOf(path), Held)
                  /\ StaleCheckouts \/ old.commit = NoCommit \/ old.commit \in Reaches[c]
          /\ push' = [push EXCEPT ![p] =
                         [at |-> "upload", path |-> path, commit |-> c, old |-> old]]
    /\ UNCHANGED <<sag, head, ref, heads, run, audit, intact>>

PublishUploads_SameId(p) ==
    /\ push[p].at = "upload" /\ lastId < MaxDocs
    /\ LET new == [id |-> lastId + 1, path |-> push[p].path, commit |-> push[p].commit]
       IN docs' = Append(docs, new) /\ ever' = ever \union {new}
    /\ push' = [push EXCEPT ![p].at = "delete"]
    /\ UNCHANGED <<require, format, server, lastId, aged, head, ref, heads, run, audit, intact>>

PublishUploads(p) ==
    /\ push[p].at = "upload" /\ lastId < MaxDocs
    /\ lastId' = lastId + 1
    /\ LET new == [id |-> lastId + 1, path |-> push[p].path, commit |-> push[p].commit]
       IN docs' = Append(docs, new) /\ ever' = ever \union {new}
    /\ push' = [push EXCEPT ![p].at = "delete"]
    /\ UNCHANGED <<require, format, server, aged, head, ref, heads, run, audit, intact>>

\* Or it is killed before it deletes the old copy: two copies of one key remain.
PublishDeletes(p) ==
    /\ push[p].at = "delete"
    /\ \/ /\ push[p].old # NoDoc
          /\ docs' = Without(push[p].old)
          /\ intact' = [m \in Maintainers |-> {}]
       \/ UNCHANGED <<docs, intact>>
    /\ push' = [push EXCEPT ![p] = NoPush]
    /\ UNCHANGED <<require, format, server, lastId, aged, ever, head, ref, heads, run, audit>>

-----------------------------------------------------------------------------
(* list_documents_all *)

Min2(a, b) == IF a < b THEN a ELSE b

\* A server that ignores limit and offset always sends everything.
Page(from) ==
    IF server = "ignores" THEN docs
    ELSE SubSeq(docs, from + 1, Min2(from + PageSize, Len(docs)))

On(page) == {page[i] : i \in DOMAIN page}

Begin(m) ==
    /\ pc[m] \in {"idle", "reported"}
    /\ \E j \in duty[m] : /\ job' = [job EXCEPT ![m] = j]
                          /\ pc' = [pc EXCEPT ![m] = IF j = "dedupe" THEN "first" ELSE "fetch"]
    /\ report' = [report EXCEPT ![m] = {}]
    /\ UNCHANGED <<sag, head, ref, heads, duty, offset, listing, suspect, todo, pair, audit, push, intact>>

Fetched(m) ==
    /\ ref' = [ref EXCEPT ![m] = head]
    /\ heads' = [heads EXCEPT ![m] = {head}]

\* The reports do not look at whether the fetch succeeded.
Fetch(m) ==
    /\ pc[m] = "fetch"
    /\ Fetched(m) \/ UNCHANGED <<ref, heads>>
    /\ pc' = [pc EXCEPT ![m] = "first"]
    /\ UNCHANGED <<sag, head, duty, job, offset, listing, suspect, todo, pair, report, audit, push, intact>>

FirstPage_ShortIsComplete(m) ==
    /\ pc[m] = "first"
    /\ listing' = [listing EXCEPT ![m] = On(Page(0))]
    /\ intact' = [intact EXCEPT ![m] = Held]
    /\ pc' = [pc EXCEPT ![m] = IF Len(Page(0)) < PageSize + 1 THEN "listed" ELSE "second"]
    /\ UNCHANGED <<sag, head, ref, heads, duty, job, offset, suspect, todo, pair, report, audit, push>>

\* More than was asked for is everything; fewer are, too.
FirstPage(m) ==
    /\ pc[m] = "first"
    /\ listing' = [listing EXCEPT ![m] = On(Page(0))]
    /\ intact' = [intact EXCEPT ![m] = Held]
    /\ pc' = [pc EXCEPT ![m] = IF Len(Page(0)) = PageSize THEN "second" ELSE "listed"]
    /\ UNCHANGED <<sag, head, ref, heads, duty, job, offset, suspect, todo, pair, report, audit, push>>

\* Nothing new on the second page: the server does not page, or that was all.
SecondPage(m) ==
    /\ pc[m] = "second"
    /\ LET page == On(Page(PageSize)) IN
          /\ listing' = [listing EXCEPT ![m] = @ \union page]
          /\ \/ /\ page \subseteq listing[m]
                /\ pc' = [pc EXCEPT ![m] = "listed"]
                /\ UNCHANGED offset
             \/ /\ ~(page \subseteq listing[m])
                /\ pc' = [pc EXCEPT ![m] = "next"]
                /\ offset' = [offset EXCEPT ![m] = 2 * PageSize]
    /\ UNCHANGED <<sag, head, ref, heads, duty, job, suspect, todo, pair, report, audit, push, intact>>

NextPage(m) ==
    /\ pc[m] = "next"
    /\ LET page == IF offset[m] = (MaxPages + 2) * PageSize THEN <<>> ELSE Page(offset[m])
           tooMany == offset[m] = (MaxPages + 2) * PageSize
           noNews == page # <<>> /\ On(page) \subseteq listing[m]
       IN /\ listing' = [listing EXCEPT ![m] = @ \union On(page)]
          /\ suspect' = [suspect EXCEPT ![m] = tooMany \/ noNews]
          /\ IF tooMany \/ noNews \/ Len(page) < PageSize
             THEN pc' = [pc EXCEPT ![m] = "listed"] /\ UNCHANGED offset
             ELSE offset' = [offset EXCEPT ![m] = @ + PageSize] /\ UNCHANGED pc
    /\ UNCHANGED <<sag, head, ref, heads, duty, job, todo, pair, report, audit, push, intact>>

-----------------------------------------------------------------------------
(* dedupe_source *)

Close(m) ==
    /\ job' = [job EXCEPT ![m] = "dedupe"]
    /\ pc' = [pc EXCEPT ![m] = "idle"]
    /\ offset' = [offset EXCEPT ![m] = 0]
    /\ listing' = [listing EXCEPT ![m] = {}]
    /\ suspect' = [suspect EXCEPT ![m] = FALSE]
    /\ todo' = [todo EXCEPT ![m] = {}]
    /\ pair' = [pair EXCEPT ![m] = NoPair]
    /\ intact' = [intact EXCEPT ![m] = {}]

\* A suspected truncation ends the run before anything is compared.
Group(m) ==
    /\ pc[m] = "listed" /\ job[m] = "dedupe"
    /\ LET copied == {d \in listing[m] : Cardinality(Copies(KeyOf(d.path), listing[m])) > 1} IN
          \/ /\ ~suspect[m] /\ copied # {}
             /\ listing' = [listing EXCEPT ![m] = copied]
             /\ todo' = [todo EXCEPT ![m] = {KeyOf(d.path) : d \in copied}]
             /\ pc' = [pc EXCEPT ![m] = "group"]
             /\ offset' = [offset EXCEPT ![m] = 0]
             /\ intact' = [intact EXCEPT ![m] = {}]
             /\ UNCHANGED <<job, suspect, pair>>
          \/ (suspect[m] \/ copied = {}) /\ Close(m)
    /\ UNCHANGED <<sag, head, ref, heads, duty, report, audit, push>>

NextKey(m, key) ==
    /\ todo' = [todo EXCEPT ![m] = @ \ {key}]
    /\ pair' = [pair EXCEPT ![m] = NoPair]
    /\ pc' = [pc EXCEPT ![m] = "group"]

\* rev-list --count <commit>..<ref>
Behind(c, r) == Cardinality(Reaches[r] \ Reaches[c])

Wins_Farther(a, b, r) ==
    /\ {a.commit, b.commit} \subseteq Reaches[r]
    /\ Behind(a.commit, r) > Behind(b.commit, r)

\* tie_break: both commits known and in the clone; the one that the branch has reached
\* wins over one that it has not, and the one closer to its head over the other.
Wins(a, b, r) ==
    /\ {a.commit, b.commit} \subseteq Reaches[r] \union Local
    /\ a.commit \in Reaches[r]
    /\ b.commit \in Reaches[r] => Behind(a.commit, r) < Behind(b.commit, r)

\* get_document_parsed raises for a copy that is gone, and the run ends (Abort).  Two
\* copies are compared after a fetch; without one, or without a winner, or of three
\* copies, none is touched.
TieBreak(m) ==
    /\ pc[m] = "group"
    /\ \E key \in todo[m] :
          LET group == Copies(key, listing[m]) IN
          /\ group \subseteq Held
          /\ \/ /\ NextKey(m, key)
                /\ \/ Cardinality(group) > 2 /\ UNCHANGED <<ref, heads>>
                   \/ Cardinality(group) = 2 /\ UNCHANGED <<ref, heads>>
                   \/ /\ Cardinality(group) = 2
                      /\ Fetched(m)
                      /\ \A a, b \in group : a # b => ~Wins(a, b, head)
             \/ /\ Cardinality(group) = 2
                /\ Fetched(m)
                /\ \E a, b \in group :
                      /\ a # b /\ Wins(a, b, head)
                      /\ pair' = [pair EXCEPT ![m] = [winner |-> a, loser |-> b]]
                /\ pc' = [pc EXCEPT ![m] = "remove"]
                /\ UNCHANGED todo
    /\ UNCHANGED <<sag, head, duty, job, offset, listing, suspect, report, audit, push, intact>>

\* delete_document tolerates a copy that is gone.
RemoveLoser(m) ==
    /\ pc[m] = "remove"
    /\ docs' = Without(pair[m].loser)
    /\ intact' = [n \in Maintainers |-> {}]
    /\ pc' = [pc EXCEPT ![m] = "audit"]
    /\ UNCHANGED <<require, format, server, lastId, aged, ever, head, ref, heads, duty, job, offset, listing, suspect,
                   todo, pair, report, audit, push>>

AppendAudit(m) ==
    /\ pc[m] = "audit"
    /\ audit' = audit \union {<<pair[m].winner, pair[m].loser>>}
    /\ NextKey(m, KeyOf(pair[m].loser.path))
    /\ UNCHANGED <<sag, head, ref, heads, duty, job, offset, listing, suspect, report, push, intact>>

Finish(m) ==
    /\ pc[m] = "group" /\ todo[m] = {}
    /\ Close(m)
    /\ UNCHANGED <<sag, head, ref, heads, duty, report, audit, push>>

\* Any call of SAG, the state service or Git that raises, and any kill.
Abort(m) ==
    /\ pc[m] \notin {"idle", "reported"}
    /\ Close(m)
    /\ UNCHANGED <<sag, head, ref, heads, duty, report, audit, push>>

-----------------------------------------------------------------------------
(* find_orphans, find_stale_branch *)

\* Git is asked for the key as if it were a path.
BlobAt(key, c) == IF key \in Paths THEN Tree[c][key] ELSE NoBlob

Orphan(d, r) == d.path \notin OutsideGit /\ BlobAt(KeyOf(d.path), r) = NoBlob

Stale_IgnoresSquash(d, r) ==
    /\ d.path \notin OutsideGit /\ d.commit # NoCommit /\ d.id \in aged
    /\ d.commit \notin Reaches[r]

\* Old enough, its commit not reached and its blob not at the path: a squash-merge has
\* lost the commit but kept the blob.
Stale(d, r) ==
    /\ d.path \notin OutsideGit /\ d.commit # NoCommit /\ d.id \in aged
    /\ d.commit \notin Reaches[r]
    /\ BlobAt(KeyOf(d.path), r) \notin {Tree[d.commit][d.path]} \ {NoBlob}

\* find_stale_branch asks for the content of each document, which raises for one that
\* is gone; both reports use the listing whether or not it is complete.
Report(m) ==
    /\ pc[m] = "listed" /\ job[m] \in {"orphans", "stale"}
    /\ job[m] = "stale" => listing[m] \subseteq Held
    /\ report' = [report EXCEPT ![m] =
          {d \in listing[m] : IF job[m] = "orphans" THEN Orphan(d, ref[m]) ELSE Stale(d, ref[m])}]
    /\ pc' = [pc EXCEPT ![m] = "reported"]
    /\ listing' = [listing EXCEPT ![m] = {}]
    /\ offset' = [offset EXCEPT ![m] = 0]
    /\ suspect' = [suspect EXCEPT ![m] = FALSE]
    /\ intact' = [intact EXCEPT ![m] = {}]
    /\ UNCHANGED <<sag, head, ref, heads, duty, job, todo, pair, audit, push>>

Next ==
    \/ MoveHead \/ TimePasses
    \/ \E p \in Publishers : PublishLists(p) \/ PublishUploads(p) \/ PublishDeletes(p)
    \/ \E m \in Maintainers :
          \/ Begin(m) \/ Fetch(m) \/ FirstPage(m) \/ SecondPage(m) \/ NextPage(m)
          \/ Group(m) \/ TieBreak(m) \/ RemoveLoser(m) \/ AppendAudit(m) \/ Finish(m)
          \/ Abort(m) \/ Report(m)

Spec == Init /\ [][Next]_vars

-----------------------------------------------------------------------------

TypeOK ==
    /\ require \in {"committed", "merged"}
    /\ format \in Formats
    /\ server \in {"honours", "ignores"}
    /\ docs \in Seq(Documents)
    /\ lastId \in 0 .. MaxDocs
    /\ aged \subseteq 1 .. lastId
    /\ head \in Commits
    /\ ref \in [Maintainers -> Commits]
    /\ heads \in [Maintainers -> SUBSET Commits]
    /\ duty \in [Maintainers -> SUBSET Jobs]
    /\ job \in [Maintainers -> Jobs]
    /\ pc \in [Maintainers -> Places]
    /\ offset \in [Maintainers -> Nat]
    /\ listing \in [Maintainers -> SUBSET ever]
    /\ suspect \in [Maintainers -> BOOLEAN]
    /\ todo \in [Maintainers -> SUBSET {KeyOf(d.path) : d \in ever}]
    /\ pair \in [Maintainers -> [winner : ever, loser : ever] \union {NoPair}]
    /\ report \in [Maintainers -> SUBSET ever]
    /\ audit \subseteq ever \X ever
    /\ push \in [Publishers -> Pushes]
    /\ intact \in [Maintainers -> SUBSET ever]
    /\ ever \subseteq Documents /\ Held \subseteq ever

Rank(d) == IF d.commit = NoCommit THEN 0 ELSE Cardinality(Reaches[d.commit])

\* Dedupe on several hosts, each deciding on an old listing, and publishers that delete what
\* they replace: if only merged commits are published, and never an older one over a newer
\* one, then whatever was once published under a key, SAG holds a document of that
\* key whose commit is no further from the head.
KeyNeverLost ==
    require = "merged" /\ ~StaleCheckouts =>
        \A x \in ever : \E d \in Held : KeyOf(d.path) = KeyOf(x.path) /\ Rank(d) >= Rank(x)

\* Two copies of one key are versions of one file, and the key says which: otherwise dedupe
\* would delete a different file.  keys.py calls the flat encoding bijective; it
\* is so for paths without an underscore beside a slash.
KeysNameFiles ==
    \A d, e \in ever :
        /\ ~Ambiguous(d.path) => DecodeKey(KeyOf(d.path), format) = d.path
        /\ KeyOf(d.path) = KeyOf(e.path) /\ ~Ambiguous(d.path) /\ ~Ambiguous(e.path)
              => d.path = e.path

\* list_documents_all, against a server that pages and one that does not, with documents
\* coming in between: a listing without `truncated` has all that SAG held when it
\* began, unless something was deleted meanwhile.
ListingComplete ==
    \A m \in Maintainers :
        pc[m] = "listed" /\ ~suspect[m] => intact[m] \subseteq listing[m]

\* What the docstrings of the reports call an orphan and a stale document, at commit h.
Reportable(d, j, h) ==
    IF j = "orphans" THEN Tree[h][d.path] = NoBlob
    ELSE /\ d.commit \notin Reaches[h] \union {NoCommit}
         /\ Tree[h][d.path] # Tree[d.commit][d.path]

\* A report is about the branch, though the fetch may fail, the branch moves on and SAG
\* changes while it is listed: where keys are paths (key format "path", or a file at the
\* top), what it names was an orphan or stale at some time since the last fetch of the clone
\* that worked; and it names whatever has been so all that time and in SAG since the listing
\* began, unless something was deleted meanwhile or the listing is called truncated.
ReportsAreOfTheBranch ==
    [][\A m \in Maintainers : pc[m] = "listed" /\ pc'[m] = "reported" =>
          /\ \A d \in report'[m] : KeyOf(d.path) = d.path =>
                \E h \in heads[m] : Reportable(d, job[m], h)
          /\ \A d \in intact[m] :
                /\ KeyOf(d.path) = d.path /\ d.path \notin OutsideGit /\ ~suspect[m]
                /\ job[m] = "stale" => d.id \in aged
                /\ \A h \in heads[m] : Reportable(d, job[m], h)
                => d \in report'[m]]_vars
=============================================================================
