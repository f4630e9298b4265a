--------------------------- MODULE SessionsProofs ---------------------------
(* Theorems about Sessions, for any sessions, files, hooks and settings. *)
EXTENDS Sessions, FiniteSetTheorems, TLAPS

USE SessionsAssumption

-----------------------------------------------------------------------------
(* Types, and which hook gets where. *)

PromptPlaces == {"exists", "head", "create", "commit"}
StopPlaces == {"audit", "scan", "share", "fresh"}
MarkPlaces == {"load", "truncate", "write", "output"}

Running(n) ==
    [at : Places, of : Sessions, kind : {"prompt"} \union Kinds,
     news : SUBSET Files, found : SUBSET (Files \union (0 .. n))]

\* A hook in the middle of its work, when there are n commits.
Placed(r, n) ==
    \/ r = Idle
    \/ /\ r \in Running(n)
       /\ r.at \in PromptPlaces => r.kind = "prompt"
       /\ r.at = "check" => r.kind = "nudge"
       /\ r.at \in StopPlaces => r.kind = "stop"
       /\ r.at \in MarkPlaces => r.kind \in Kinds
       /\ r.at \in {"create", "commit"} => r.found \subseteq 0 .. n
       /\ r.at \in {"truncate", "write"} => r.found \subseteq Files

Types == TypeOK /\ \A h \in Hooks : Placed(hook[h], head)

LEMMA AtWork ==
    ASSUME Types, NEW h \in Hooks, NEW p \in Places, At(h, p)
    PROVE  /\ hook[h] \in Running(head) /\ hook[h] # Idle /\ hook[h].of \in Sessions
           /\ hook[h].at = p /\ Placed(hook[h], head)
BY DEF Types, TypeOK, At, Placed, Idle, Running, Places

\* A step of one hook.
LEMMA HookSet ==
    ASSUME Types, head' = head, NEW h \in Hooks, NEW r,
           hook' = [hook EXCEPT ![h] = r], Placed(r, head)
    PROVE  /\ DOMAIN hook' = Hooks
           /\ hook'[h] = r
           /\ \A g \in Hooks \ {h} : hook'[g] = hook[g]
           /\ \A g \in Hooks : Placed(hook[g], head)'
           /\ \A g \in Hooks : hook'[g] = Idle \/ hook'[g] \in Running(head')
<1>1. DOMAIN hook' = Hooks /\ hook'[h] = r /\ \A g \in Hooks \ {h} : hook'[g] = hook[g]
  BY DEF Types, TypeOK
<1>2. \A g \in Hooks : Placed(hook'[g], head)
  BY <1>1 DEF Types
<1>3. \A g \in Hooks : Placed(hook[g], head)'
  BY <1>2 DEF Placed, Running
<1>4. \A g \in Hooks : hook'[g] = Idle \/ hook'[g] \in Running(head')
  BY <1>2 DEF Placed
<1>5. QED
  BY <1>1, <1>3, <1>4

VarsOK ==
    /\ [fires |-> fires, quoted |-> quoted] \in Settings
    /\ head \in 0 .. MaxCommits
    /\ touched \in [Files -> 0 .. head]
    /\ dirty \subseteq Files /\ audited \subseteq Files
    /\ started \in [Sessions -> (0 .. head) \union {NoMark}]
    /\ marker \in [Sessions -> (0 .. head) \union {NoMark, Empty}]
    /\ cache \in [Sessions -> [Kinds -> SUBSET Files]]
    /\ shown \in [Sessions -> [Kinds -> SUBSET Files]]
    /\ twice \subseteq Sessions
    /\ trouble \in [Sessions -> SUBSET {"killed", "torn"}]

LEMMA TypesFrom ==
    ASSUME Types, head' = head, NEW h \in Hooks, NEW r,
           hook' = [hook EXCEPT ![h] = r], Placed(r, head), VarsOK'
    PROVE  Types'
<1>1. /\ DOMAIN hook' = Hooks
      /\ \A g \in Hooks : Placed(hook[g], head)'
      /\ \A g \in Hooks : hook'[g] = Idle \/ hook'[g] \in Running(head')
  BY HookSet
<1>2. QED
  BY <1>1 DEF Types, TypeOK, VarsOK, Running, Idle

LEMMA HookOnly ==
    ASSUME Types, UNCHANGED <<repo, files, history>>, NEW h \in Hooks, NEW r,
           hook' = [hook EXCEPT ![h] = r], Placed(r, head)
    PROVE  Types'
<1>1. VarsOK' /\ head' = head
  BY DEF Types, TypeOK, VarsOK, repo, files, history
<1>2. QED
  BY <1>1, TypesFrom

LEMMA Grown == ASSUME NEW n \in Nat, NEW r, Placed(r, n) PROVE Placed(r, n + 1)
<1>1. 0 .. n \subseteq 0 .. n + 1
  OBVIOUS
<1>2. r \in Running(n) => r \in Running(n + 1)
  BY <1>1 DEF Running
<1>3. QED
  BY <1>1, <1>2 DEF Placed

\* The launch of a hook.
LEMMA Launched ==
    ASSUME Types, NEW h \in Hooks, NEW s \in Sessions, NEW k, NEW place, NEW fs,
           Launch(h, s, k, place, fs)
    PROVE  trouble' \in [Sessions -> SUBSET {"killed", "torn"}]
BY DEF Launch, Types, TypeOK

LEMMA NewHook ==
    ASSUME NEW s \in Sessions, NEW n \in Nat, NEW fs \in SUBSET Files
    PROVE  /\ Placed([at |-> "exists", of |-> s, kind |-> "prompt", news |-> fs, found |-> {}], n)
           /\ Placed([at |-> "check", of |-> s, kind |-> "nudge", news |-> fs, found |-> {}], n)
           /\ Placed([at |-> "audit", of |-> s, kind |-> "stop", news |-> fs, found |-> {}], n)
BY DEF Placed, Running, Places, Kinds, PromptPlaces, StopPlaces, MarkPlaces

\* A hook that goes from one place to the next, and what it may take along.
Near(p, place) ==
    /\ place \in PromptPlaces => p \in PromptPlaces
    /\ place \in StopPlaces => p \in StopPlaces
    /\ place \in MarkPlaces => p \in MarkPlaces \union {"check", "fresh"}
    /\ place # "check"

LEMMA Went ==
    ASSUME Types, NEW h \in Hooks, NEW p \in Places, NEW place \in Places, At(h, p),
           Near(p, place),
           place \in {"create", "commit"} => p \in {"create", "commit"},
           place \in {"truncate", "write"} => p \in {"truncate", "write"}
    PROVE  Placed([hook[h] EXCEPT !.at = place], head)
<1>1. hook[h] \in Running(head) /\ hook[h].at = p /\ Placed(hook[h], head) /\ hook[h] # Idle
  BY AtWork
<1>2. /\ [hook[h] EXCEPT !.at = place] \in Running(head)
      /\ [hook[h] EXCEPT !.at = place].at = place
      /\ [hook[h] EXCEPT !.at = place].kind = hook[h].kind
      /\ [hook[h] EXCEPT !.at = place].found = hook[h].found
  BY <1>1 DEF Running
<1>3. QED
  BY <1>1, <1>2 DEF Placed, Near, Kinds, PromptPlaces, StopPlaces, MarkPlaces

LEMMA WentWith ==
    ASSUME Types, NEW h \in Hooks, NEW p \in Places, NEW place \in Places, At(h, p),
           Near(p, place), NEW x \in SUBSET (Files \union (0 .. head)),
           place \in {"create", "commit"} => x \subseteq 0 .. head,
           place \in {"truncate", "write"} => x \subseteq Files
    PROVE  Placed([hook[h] EXCEPT !.at = place, !.found = x], head)
<1>1. hook[h] \in Running(head) /\ hook[h].at = p /\ Placed(hook[h], head) /\ hook[h] # Idle
  BY AtWork
<1>2. /\ [hook[h] EXCEPT !.at = place, !.found = x] \in Running(head)
      /\ [hook[h] EXCEPT !.at = place, !.found = x].at = place
      /\ [hook[h] EXCEPT !.at = place, !.found = x].kind = hook[h].kind
      /\ [hook[h] EXCEPT !.at = place, !.found = x].found = x
  BY <1>1 DEF Running
<1>3. QED
  BY <1>1, <1>2 DEF Placed, Near, Kinds, PromptPlaces, StopPlaces, MarkPlaces

LEMMA WentOnAbout ==
    ASSUME Types, NEW h \in Hooks, NEW p \in Places, NEW place \in Places, At(h, p),
           Near(p, place), NEW fs \in SUBSET Files, place \notin PromptPlaces
    PROVE  Placed([hook[h] EXCEPT !.at = place, !.news = fs, !.found = {}], head)
<1>1. hook[h] \in Running(head) /\ hook[h].at = p /\ Placed(hook[h], head) /\ hook[h] # Idle
  BY AtWork
<1>2. /\ [hook[h] EXCEPT !.at = place, !.news = fs, !.found = {}] \in Running(head)
      /\ [hook[h] EXCEPT !.at = place, !.news = fs, !.found = {}].at = place
      /\ [hook[h] EXCEPT !.at = place, !.news = fs, !.found = {}].kind = hook[h].kind
      /\ [hook[h] EXCEPT !.at = place, !.news = fs, !.found = {}].found = {}
  BY <1>1 DEF Running
<1>3. QED
  BY <1>1, <1>2 DEF Placed, Near, Kinds, PromptPlaces, StopPlaces, MarkPlaces

LEMMA Mentioned ==
    ASSUME Types, NEW h \in Hooks, NEW p \in Places, NEW fs \in SUBSET Files,
           NEW place \in Places, At(h, p), Mention(h, fs, place), Near(p, place),
           place \notin PromptPlaces, UNCHANGED <<repo, files, history>>
    PROVE  Types'
<1>1. Placed(Idle, head) /\ Placed([hook[h] EXCEPT !.at = place, !.news = fs, !.found = {}], head)
  BY WentOnAbout DEF Placed
<1>2. CASE fs = {}
  <2>1. hook' = [hook EXCEPT ![h] = Idle]
    BY <1>2 DEF Mention
  <2>2. QED
    BY <1>1, <2>1, HookOnly
<1>3. CASE fs # {}
  <2>1. hook' = [hook EXCEPT ![h] = [hook[h] EXCEPT !.at = place, !.news = fs, !.found = {}]]
    BY <1>3 DEF Mention
  <2>2. QED
    BY <1>1, <2>1, HookOnly
<1>4. QED
  BY <1>2, <1>3

LEMMA TypesStep == Types /\ [Next]_vars => Types'
<1> SUFFICES ASSUME Types, [Next]_vars
             PROVE  Types'
  OBVIOUS
<1> USE DEF PromptPlaces, StopPlaces, MarkPlaces, Near, Places
<1>0. head \in Nat /\ head \in 0 .. head /\ Placed(Idle, head)
  BY DEF Types, TypeOK, Placed
<1>1. ASSUME NEW h \in Hooks, NEW s \in Sessions, Prompt(h, s)
      PROVE  Types'
  <2> DEFINE r == [at |-> "exists", of |-> s, kind |-> "prompt", news |-> {}, found |-> {}]
  <2>1. hook' = [hook EXCEPT ![h] = r] /\ trouble' \in [Sessions -> SUBSET {"killed", "torn"}]
    <3>1. Launch(h, s, "prompt", "exists", {})
      BY <1>1 DEF Prompt
    <3>2. trouble' \in [Sessions -> SUBSET {"killed", "torn"}]
      BY <3>1, Launched
    <3>3. QED
      BY <3>1, <3>2 DEF Launch
  <2>2. Placed(r, head)
    BY <1>0, NewHook DEF Types
  <2>3. VarsOK'
    BY <1>0, <1>1, <2>1 DEF Types, TypeOK, VarsOK, Prompt, repo, files
  <2>4. QED
    BY <1>1, <2>1, <2>2, <2>3, TypesFrom DEF Prompt, repo
<1>2. ASSUME NEW h \in Hooks, NEW s \in Sessions, Stop(h, s)
      PROVE  Types'
  <2> DEFINE r == [at |-> "audit", of |-> s, kind |-> "stop", news |-> {}, found |-> {}]
  <2>1. hook' = [hook EXCEPT ![h] = r] /\ trouble' \in [Sessions -> SUBSET {"killed", "torn"}]
    <3>1. Launch(h, s, "stop", "audit", {})
      BY <1>2 DEF Stop
    <3>2. trouble' \in [Sessions -> SUBSET {"killed", "torn"}]
      BY <3>1, Launched
    <3>3. QED
      BY <3>1, <3>2 DEF Launch
  <2>2. Placed(r, head)
    BY <1>0, NewHook DEF Types
  <2>3. VarsOK'
    BY <1>0, <1>2, <2>1 DEF Types, TypeOK, VarsOK, Stop, repo, files
  <2>4. QED
    BY <1>2, <2>1, <2>2, <2>3, TypesFrom DEF Stop, repo
<1>3. ASSUME NEW h \in Hooks, NEW s \in Sessions, NEW f \in Tooled, WriteFile(h, s, f)
      PROVE  Types'
  <2> DEFINE r == [at |-> "check", of |-> s, kind |-> "nudge", news |-> {f}, found |-> {}]
  <2>1. hook' = [hook EXCEPT ![h] = r] /\ trouble' \in [Sessions -> SUBSET {"killed", "torn"}]
    <3>1. Launch(h, s, "nudge", "check", {f})
      BY <1>3 DEF WriteFile
    <3>2. trouble' \in [Sessions -> SUBSET {"killed", "torn"}]
      BY <3>1, Launched
    <3>3. QED
      BY <3>1, <3>2 DEF Launch
  <2>2. Placed(r, head)
    BY <1>0, NewHook DEF Types
  <2>3. VarsOK'
    BY <1>0, <1>3, <2>1 DEF Types, TypeOK, VarsOK, WriteFile, files
  <2>4. QED
    BY <1>3, <2>1, <2>2, <2>3, TypesFrom DEF WriteFile
<1>4. ASSUME NEW h \in Hooks, MarkerExists(h)
      PROVE  Types'
  <2>1. Placed([hook[h] EXCEPT !.at = "head"], head)
    <3>1. At(h, "exists")
      BY <1>4 DEF MarkerExists
    <3>2. QED
      BY <3>1, Went
  <2>2. QED
    BY <1>0, <1>4, <2>1, HookOnly DEF MarkerExists, Goto, Exit
<1>5. ASSUME NEW h \in Hooks, HeadCommit(h)
      PROVE  Types'
  <2>2. Placed([hook[h] EXCEPT !.at = "create", !.found = {head}], head)
    <3>1. At(h, "head")
      BY <1>5 DEF HeadCommit
    <3>2. QED
      BY <3>1, <1>0, WentWith
  <2>3. QED
    BY <1>5, <2>2, HookOnly DEF HeadCommit, Found
<1>6. ASSUME NEW h \in Hooks, CreateMarker(h)
      PROVE  Types'
  <2>1. Placed([hook[h] EXCEPT !.at = "commit"], head)
    <3>1. At(h, "create")
      BY <1>6 DEF CreateMarker
    <3>2. QED
      BY <3>1, Went
  <2>2. VarsOK'
    BY <1>6 DEF Types, TypeOK, VarsOK, CreateMarker, repo, history
  <2>3. QED
    BY <1>6, <2>1, <2>2, TypesFrom DEF CreateMarker, Goto, repo
<1>7. ASSUME NEW h \in Hooks, WriteMarker(h)
      PROVE  Types'
  <2>1. hook[h].found \subseteq 0 .. head
    <3>1. At(h, "commit")
      BY <1>7 DEF WriteMarker
    <3>2. QED
      BY <3>1, AtWork DEF Placed
  <2>2. VarsOK'
    BY <1>7, <2>1 DEF Types, TypeOK, VarsOK, WriteMarker, repo, history
  <2>3. QED
    BY <1>7, <2>2, TypesFrom DEF WriteMarker, Exit, repo, Placed
<1>8. ASSUME NEW h \in Hooks, AlreadyNudged(h)
      PROVE  Types'
  <2>1. hook[h].news \ cache[hook[h].of]["nudge"] \in SUBSET Files
    <3>1. At(h, "check")
      BY <1>8 DEF AlreadyNudged
    <3>2. QED
      BY <3>1, AtWork DEF Running
  <2>2. QED
    BY <1>8, <2>1, Mentioned DEF AlreadyNudged
<1>9. ASSUME NEW h \in Hooks, ReadAudit(h)
       PROVE  Types'
  <2>1. Placed([hook[h] EXCEPT !.at = "scan", !.found = audited], head)
    <3>1. At(h, "audit")
      BY <1>9 DEF ReadAudit
    <3>2. QED
      BY <3>1, WentWith DEF Types, TypeOK
  <2>2. QED
    BY <1>9, <2>1, HookOnly DEF ReadAudit, Found
<1>10. ASSUME NEW h \in Hooks, ScanTree(h)
       PROVE  Types'
  BY <1>10, Mentioned DEF ScanTree, Committed
<1>11. ASSUME NEW h \in Hooks, OwnShare(h)
       PROVE  Types'
  <2>1. hook[h].news \in SUBSET Files
    <3>1. At(h, "share")
      BY <1>11 DEF OwnShare
    <3>2. QED
      BY <3>1, AtWork DEF Running
  <2>2. QED
    BY <1>11, <2>1, Mentioned DEF OwnShare
<1>12. ASSUME NEW h \in Hooks, AlreadyNotified(h)
       PROVE  Types'
  <2>1. hook[h].news \in SUBSET Files
    <3>1. At(h, "fresh")
      BY <1>12 DEF AlreadyNotified
    <3>2. QED
      BY <3>1, AtWork DEF Running
  <2>2. QED
    BY <1>12, <2>1, Mentioned DEF AlreadyNotified
<1>13. ASSUME NEW h \in Hooks, LoadCache(h)
       PROVE  Types'
  <2> DEFINE x == cache[hook[h].of][hook[h].kind] \union hook[h].news
  <2>1. /\ hook[h].of \in Sessions /\ hook[h].kind \in Kinds /\ hook[h].news \subseteq Files
        /\ hook[h] \in Running(head)
    <3>1. At(h, "load")
      BY <1>13 DEF LoadCache
    <3>2. QED
      BY <3>1, AtWork DEF Placed, Running
  <2>2. x \subseteq Files
    BY <2>1 DEF Types, TypeOK
  <2> HIDE DEF x
  <2>3. Placed([hook[h] EXCEPT !.at = "truncate", !.found = x], head)
    <3>1. At(h, "load")
      BY <1>13 DEF LoadCache
    <3>2. QED
      BY <2>2, <3>1, WentWith
  <2>4. QED
    BY <1>13, <2>3, HookOnly DEF LoadCache, Found, x
<1>14. ASSUME NEW h \in Hooks, TruncateCache(h)
       PROVE  Types'
  <2>1. Placed([hook[h] EXCEPT !.at = "write"], head)
    <3>1. At(h, "truncate")
      BY <1>14 DEF TruncateCache
    <3>2. QED
      BY <3>1, Went
  <2>2. hook[h].of \in Sessions /\ hook[h].kind \in Kinds
    <3>1. At(h, "truncate")
      BY <1>14 DEF TruncateCache
    <3>2. QED
      BY <3>1, AtWork DEF Placed
  <2>3. VarsOK'
    BY <1>14, <2>2 DEF Types, TypeOK, VarsOK, TruncateCache, repo, history
  <2>4. QED
    BY <1>14, <2>1, <2>3, TypesFrom DEF TruncateCache, Goto, repo
<1>15. ASSUME NEW h \in Hooks, WriteCache(h)
       PROVE  Types'
  <2>1. Placed([hook[h] EXCEPT !.at = "output", !.found = {}], head)
    <3>1. At(h, "write")
      BY <1>15 DEF WriteCache
    <3>2. QED
      BY <3>1, WentWith
  <2>2. hook[h].of \in Sessions /\ hook[h].kind \in Kinds /\ hook[h].found \subseteq Files
    <3>1. At(h, "write")
      BY <1>15 DEF WriteCache
    <3>2. QED
      BY <3>1, AtWork DEF Placed
  <2>3. VarsOK'
    BY <1>15, <2>2 DEF Types, TypeOK, VarsOK, WriteCache, repo, history
  <2>4. QED
    BY <1>15, <2>1, <2>3, TypesFrom DEF WriteCache, Found, repo
<1>16. ASSUME NEW h \in Hooks, Output(h)
       PROVE  Types'
  <2>1. hook[h].of \in Sessions /\ hook[h].kind \in Kinds /\ hook[h].news \subseteq Files
    <3>1. At(h, "output")
      BY <1>16 DEF Output
    <3>2. QED
      BY <3>1, AtWork DEF Placed, Running
  <2>2. PICK fs \in SUBSET hook[h].news :
           /\ shown' = [shown EXCEPT ![hook[h].of][hook[h].kind] = @ \union fs]
           /\ twice' \in {twice, twice \union {hook[h].of}}
    BY <1>16 DEF Output
  <2>3. VarsOK'
    BY <1>16, <2>1, <2>2 DEF Types, TypeOK, VarsOK, Output, repo, files
  <2>4. QED
    BY <1>16, <2>3, TypesFrom DEF Output, Exit, repo, Placed
<1>17. ASSUME NEW h \in Hooks, Kill(h)
       PROVE  Types'
  <2>1. VarsOK'
    BY <1>17 DEF Types, TypeOK, VarsOK, Kill, repo, files
  <2>2. QED
    BY <1>17, <2>1, TypesFrom DEF Kill, Exit, repo, Placed
<1>18. ASSUME NEW f \in Files, ChangeFile(f) \/ Assess(f)
       PROVE  Types'
  BY <1>18 DEF Types, TypeOK, Placed, Running, ChangeFile, Assess, files, history
<1>19. ASSUME NEW f \in Files, Commit(f)
       PROVE  Types'
  <2>1. head \in Nat /\ head' = head + 1 /\ head' \in 0 .. MaxCommits /\ hook' = hook
    BY <1>19 DEF Types, TypeOK, Commit
  <2>2. \A h \in Hooks : Placed(hook[h], head)'
    <3>1. \A h \in Hooks : Placed(hook[h], head + 1)
      BY <2>1, Grown DEF Types
    <3>2. QED
      BY <2>1, <3>1 DEF Placed, Running
  <2>3. 0 .. head \subseteq 0 .. head'
    BY <2>1
  <2>4. VarsOK'
    BY <1>19, <2>1, <2>3 DEF Types, TypeOK, VarsOK, Commit, files, history
  <2>5. DOMAIN hook' = Hooks /\ \A h \in Hooks : hook'[h] = Idle \/ hook'[h] \in Running(head')
    BY <2>1, <2>2 DEF Placed, Types, TypeOK, Running
  <2>6. QED
    BY <2>2, <2>4, <2>5 DEF Types, TypeOK, VarsOK, Running
<1>20. CASE UNCHANGED vars
  BY <1>20 DEF Types, TypeOK, Placed, Running, vars, repo, files, history
<1>21. QED
  BY <1>1, <1>2, <1>3, <1>4, <1>5, <1>6, <1>7, <1>8, <1>9, <1>10, <1>11, <1>12, <1>13,
     <1>14, <1>15, <1>16, <1>17, <1>18, <1>19, <1>20 DEF Next, Proceed

LEMMA TypesInit == Init => Types
BY DEF Init, Types, TypeOK, Placed

-----------------------------------------------------------------------------
(* What a session is reminded of is younger than its first prompt. *)

\* What a hook carries, for sessions that started at `start` and files touched at `touch`.
Young(r, start, touch) ==
    \/ r = Idle
    \/ /\ start[r.of] # NoMark
       /\ r.at \in {"create", "commit"} => \A c \in r.found : c >= start[r.of]
       /\ r.kind = "stop" /\ r.at \in MarkPlaces \union {"fresh"} =>
             \A f \in r.news : touch[f] > start[r.of]

MarksYoung(mark, start) ==
    \A s \in Sessions : mark[s] \notin {NoMark, Empty} => start[s] # NoMark /\ mark[s] >= start[s]

ShownYoung(seen, start, touch) ==
    \A s \in Sessions : \A f \in seen[s]["stop"] : start[s] # NoMark /\ touch[f] > start[s]

NewWork ==
    /\ \A h \in Hooks : Young(hook[h], started, touched)
    /\ MarksYoung(marker, started)
    /\ ShownYoung(shown, started, touched)

LEMMA NewWorkInit == Init => NewWork
BY DEF Init, NewWork, Young, MarksYoung, ShownYoung, Kinds

LEMMA YoungSet ==
    ASSUME Types, NewWork, NEW h \in Hooks, NEW r, hook' = [hook EXCEPT ![h] = r],
           started' = started, touched' = touched, Young(r, started, touched),
           MarksYoung(marker', started), ShownYoung(shown', started, touched)
    PROVE  NewWork'
<1>1. \A g \in Hooks : hook'[g] = IF g = h THEN r ELSE hook[g]
  BY DEF Types, TypeOK
<1>2. \A g \in Hooks : Young(hook'[g], started, touched)
  BY <1>1 DEF NewWork
<1>3. QED
  BY <1>2 DEF NewWork, Young, MarksYoung, ShownYoung

LEMMA YoungOnly ==
    ASSUME Types, NewWork, NEW h \in Hooks, NEW r, hook' = [hook EXCEPT ![h] = r],
           UNCHANGED <<repo, files, history>>, Young(r, started, touched)
    PROVE  NewWork'
<1>1. started' = started /\ touched' = touched /\ marker' = marker /\ shown' = shown
  BY DEF repo, files, history
<1>2. QED
  BY <1>1, YoungSet DEF NewWork

\* The hook carries on with what it has.
LEMMA StillYoung ==
    ASSUME Types, NewWork, NEW h \in Hooks, hook[h] \in Running(head), hook[h] # Idle,
           NEW place \in Places,
           place \in {"create", "commit"} => hook[h].at \in {"create", "commit"},
           hook[h].kind = "stop" /\ place \in MarkPlaces \union {"fresh"} =>
              hook[h].at \in MarkPlaces \union {"fresh"}
    PROVE  /\ Young([hook[h] EXCEPT !.at = place], started, touched)
           /\ \A x : place \notin {"create", "commit"} =>
                 Young([hook[h] EXCEPT !.at = place, !.found = x], started, touched)
           /\ \A fs \in SUBSET hook[h].news : place \notin {"create", "commit"} =>
                 Young([hook[h] EXCEPT !.at = place, !.news = fs, !.found = {}], started, touched)
<1>1. /\ started[hook[h].of] # NoMark
      /\ hook[h].at \in {"create", "commit"} =>
            \A c \in hook[h].found : c >= started[hook[h].of]
      /\ hook[h].kind = "stop" /\ hook[h].at \in MarkPlaces \union {"fresh"} =>
            \A f \in hook[h].news : touched[f] > started[hook[h].of]
  BY DEF NewWork, Young
<1>2. Young([hook[h] EXCEPT !.at = place], started, touched)
  BY <1>1 DEF Young, Running
<1>3. ASSUME NEW x, place \notin {"create", "commit"}
      PROVE  Young([hook[h] EXCEPT !.at = place, !.found = x], started, touched)
  BY <1>1, <1>3 DEF Young, Running
<1>4. ASSUME NEW fs \in SUBSET hook[h].news, place \notin {"create", "commit"}
      PROVE  Young([hook[h] EXCEPT !.at = place, !.news = fs, !.found = {}], started, touched)
  BY <1>1, <1>4 DEF Young, Running
<1>5. QED
  BY <1>2, <1>3, <1>4

LEMMA NewWorkStep == Types /\ NewWork /\ [Next]_vars => NewWork'
<1> SUFFICES ASSUME Types, NewWork, [Next]_vars
             PROVE  NewWork'
  OBVIOUS
<1> USE DEF Places
<1>0. Young(Idle, started, touched) /\ MarksYoung(marker, started)
      /\ ShownYoung(shown, started, touched)
  BY DEF Young, NewWork
<1>1. ASSUME NEW h \in Hooks, NEW s \in Sessions, Prompt(h, s)
      PROVE  NewWork'
  <2> DEFINE r == [at |-> "exists", of |-> s, kind |-> "prompt", news |-> {}, found |-> {}]
  <2>1. /\ \A g \in Hooks : hook'[g] = IF g = h THEN r ELSE hook[g]
        /\ started' = [started EXCEPT ![s] = IF @ = NoMark THEN head ELSE @]
        /\ touched' = touched /\ marker' = marker /\ shown' = shown
    BY <1>1 DEF Prompt, Launch, repo, files, Types, TypeOK
  <2>2. head \in Nat /\ head # NoMark
    BY DEF Types, TypeOK
  <2>3. \A x \in Sessions : started[x] # NoMark => started'[x] = started[x]
    BY <2>1 DEF Types, TypeOK
  <2>4. started'[s] # NoMark
    BY <2>1, <2>2 DEF Types, TypeOK
  <2>5. \A g \in Hooks : Young(hook'[g], started', touched')
    <3>1. Young(r, started', touched')
      BY <2>4 DEF Young, MarkPlaces
    <3>2. ASSUME NEW g \in Hooks \ {h}, hook[g] # Idle
          PROVE  Young(hook'[g], started', touched')
      <4>1. hook[g].of \in Sessions /\ started[hook[g].of] # NoMark
        BY <3>2 DEF NewWork, Young, Types, TypeOK
      <4>2. QED
        BY <2>1, <2>3, <3>2, <4>1 DEF NewWork, Young
    <3>3. QED
      BY <2>1, <3>1, <3>2 DEF Young
  <2>6. MarksYoung(marker', started') /\ ShownYoung(shown', started', touched')
    BY <1>0, <2>1, <2>3 DEF MarksYoung, ShownYoung
  <2>7. QED
    BY <2>5, <2>6 DEF NewWork, Young, MarksYoung, ShownYoung
<1>2. ASSUME NEW h \in Hooks, NEW s \in Sessions, Stop(h, s)
      PROVE  NewWork'
  <2> DEFINE r == [at |-> "audit", of |-> s, kind |-> "stop", news |-> {}, found |-> {}]
  <2>1. /\ hook' = [hook EXCEPT ![h] = r] /\ started[s] # NoMark
        /\ started' = started /\ touched' = touched /\ marker' = marker /\ shown' = shown
    BY <1>2 DEF Stop, Launch, repo, files
  <2>2. Young(r, started, touched)
    BY <2>1 DEF Young, MarkPlaces
  <2>3. QED
    BY <1>0, <2>1, <2>2, YoungSet
<1>3. ASSUME NEW h \in Hooks, NEW s \in Sessions, NEW f \in Tooled, WriteFile(h, s, f)
      PROVE  NewWork'
  <2> DEFINE r == [at |-> "check", of |-> s, kind |-> "nudge", news |-> {f}, found |-> {}]
  <2>1. /\ hook' = [hook EXCEPT ![h] = r] /\ started[s] # NoMark
        /\ started' = started /\ touched' = touched /\ marker' = marker /\ shown' = shown
    BY <1>3 DEF WriteFile, Launch, files
  <2>2. Young(r, started, touched)
    BY <2>1 DEF Young, MarkPlaces
  <2>3. QED
    BY <1>0, <2>1, <2>2, YoungSet
<1>4. ASSUME NEW h \in Hooks, MarkerExists(h)
      PROVE  NewWork'
  <2>1. At(h, "exists")
    BY <1>4 DEF MarkerExists
  <2>2. hook[h] \in Running(head) /\ hook[h] # Idle
    BY <2>1, AtWork
  <2>3. Young([hook[h] EXCEPT !.at = "head"], started, touched)
    BY <2>2, StillYoung DEF MarkPlaces
  <2>4. QED
    BY <1>0, <1>4, <2>3, YoungOnly DEF MarkerExists, Goto, Exit
<1>5. ASSUME NEW h \in Hooks, HeadCommit(h)
      PROVE  NewWork'
  <2>1. At(h, "head")
    BY <1>5 DEF HeadCommit
  <2>2. /\ hook[h] \in Running(head) /\ hook[h] # Idle /\ hook[h].of \in Sessions
        /\ hook[h].kind = "prompt"
    BY <2>1, AtWork DEF Placed, PromptPlaces, At
  <2>3. head \in Nat /\ started[hook[h].of] \in (0 .. head) /\ started[hook[h].of] # NoMark
    <3>1. head \in Nat /\ started \in [Sessions -> (0 .. head) \union {NoMark}]
      BY DEF Types, TypeOK
    <3>2. started[hook[h].of] # NoMark
      BY <2>2 DEF NewWork, Young
    <3>3. QED
      BY <2>2, <3>1, <3>2
  <2>4. Young([hook[h] EXCEPT !.at = "create", !.found = {head}], started, touched)
    BY <2>2, <2>3 DEF Young, Running
  <2>5. QED
    BY <1>5, <2>4, YoungOnly DEF HeadCommit, Found
<1>6. ASSUME NEW h \in Hooks, CreateMarker(h)
      PROVE  NewWork'
  <2>1. At(h, "create") /\ hook[h].at = "create"
    BY <1>6 DEF CreateMarker, At
  <2>2. hook[h] \in Running(head) /\ hook[h] # Idle /\ hook[h].kind = "prompt"
    BY <2>1, AtWork DEF Placed, PromptPlaces
  <2>3. Young([hook[h] EXCEPT !.at = "commit"], started, touched)
    BY <2>1, <2>2, StillYoung
  <2>4. MarksYoung(marker', started)
    BY <1>0, <1>6 DEF MarksYoung, CreateMarker, Types, TypeOK
  <2>5. QED
    BY <1>0, <1>6, <2>3, <2>4, YoungSet DEF CreateMarker, Goto, repo, history
<1>7. ASSUME NEW h \in Hooks, WriteMarker(h)
      PROVE  NewWork'
  <2>1. At(h, "commit") /\ hook[h].at = "commit"
    BY <1>7 DEF WriteMarker, At
  <2>2. hook[h].of \in Sessions /\ hook[h] # Idle
    BY <2>1, AtWork
  <2>3. started[hook[h].of] # NoMark /\ \A c \in hook[h].found : c >= started[hook[h].of]
    BY <2>1, <2>2 DEF NewWork, Young
  <2>4. PICK c \in hook[h].found : marker' = [marker EXCEPT ![hook[h].of] = c]
    BY <1>7 DEF WriteMarker
  <2>5. MarksYoung(marker', started)
    BY <1>0, <2>2, <2>3, <2>4 DEF MarksYoung, Types, TypeOK
  <2>6. QED
    BY <1>0, <1>7, <2>5, YoungSet DEF WriteMarker, Exit, repo, history
<1>8. ASSUME NEW h \in Hooks, AlreadyNudged(h)
      PROVE  NewWork'
  <2> DEFINE fs == hook[h].news \ cache[hook[h].of]["nudge"]
  <2>1. At(h, "check") /\ Mention(h, fs, "load") /\ UNCHANGED <<repo, files, history>>
    BY <1>8 DEF AlreadyNudged
  <2> HIDE DEF fs
  <2>2. Young([hook[h] EXCEPT !.at = "load", !.news = fs, !.found = {}], started, touched)
    <3>1. hook[h] \in Running(head) /\ hook[h] # Idle /\ hook[h].kind = "nudge"
      BY <2>1, AtWork DEF Placed
    <3>2. fs \in SUBSET hook[h].news
      BY DEF fs
    <3>3. QED
      BY <3>1, <3>2, StillYoung
  <2>3. QED
    BY <1>0, <2>1, <2>2, YoungOnly DEF Mention
<1>9. ASSUME NEW h \in Hooks, ReadAudit(h)
      PROVE  NewWork'
  <2>1. At(h, "audit") /\ Found(h, audited, "scan")
    BY <1>9 DEF ReadAudit
  <2>2. hook[h] \in Running(head) /\ hook[h] # Idle
    BY <2>1, AtWork
  <2>3. Young([hook[h] EXCEPT !.at = "scan", !.found = audited], started, touched)
    BY <2>2, StillYoung DEF MarkPlaces
  <2>4. QED
    BY <1>9, <2>1, <2>3, YoungOnly DEF ReadAudit, Found
<1>10. ASSUME NEW h \in Hooks, ScanTree(h)
      PROVE  NewWork'
  <2> DEFINE fs == Committed \ hook[h].found
  <2>1. At(h, "scan") /\ Mention(h, fs, "share") /\ UNCHANGED <<repo, files, history>>
    BY <1>10 DEF ScanTree
  <2> HIDE DEF fs
  <2>2. Young([hook[h] EXCEPT !.at = "share", !.news = fs, !.found = {}], started, touched)
    <3>1. hook[h] \in Running(head) /\ hook[h] # Idle
      BY <2>1, AtWork
    <3>2. QED
      BY <3>1 DEF NewWork, Young, Running, MarkPlaces
  <2>3. QED
    BY <1>0, <2>1, <2>2, YoungOnly DEF Mention
<1>11. ASSUME NEW h \in Hooks, OwnShare(h)
      PROVE  NewWork'
  <2> DEFINE fs == IF HasStartCommit(hook[h].of)
                    THEN hook[h].news \intersect FilesChangedSince(marker[hook[h].of])
                    ELSE {}
  <2>1. At(h, "share") /\ Mention(h, fs, "fresh") /\ UNCHANGED <<repo, files, history>>
    BY <1>11 DEF OwnShare
  <2> HIDE DEF fs
  <2>2. Young([hook[h] EXCEPT !.at = "fresh", !.news = fs, !.found = {}], started, touched)
    <3>1. hook[h] \in Running(head) /\ hook[h] # Idle /\ hook[h].of \in Sessions
      BY <2>1, AtWork
    <3>2. ASSUME NEW f \in fs
          PROVE  touched[f] > started[hook[h].of]
      <4>1. HasStartCommit(hook[h].of) /\ f \in FilesChangedSince(marker[hook[h].of])
        BY <3>2 DEF fs
      <4>2. /\ f \in Files /\ touched[f] > marker[hook[h].of]
            /\ marker[hook[h].of] >= started[hook[h].of] /\ started[hook[h].of] # NoMark
            /\ marker[hook[h].of] \in 0 .. head
        BY <1>0, <3>1, <4>1 DEF HasStartCommit, FilesChangedSince, MarksYoung, Types, TypeOK
      <4>3. touched[f] \in Nat /\ marker[hook[h].of] \in Nat /\ started[hook[h].of] \in Nat
        BY <3>1, <4>2 DEF Types, TypeOK
      <4>4. QED
        BY <4>2, <4>3
    <3>3. started[hook[h].of] # NoMark
      BY <3>1 DEF NewWork, Young
    <3>4. QED
      BY <3>1, <3>2, <3>3 DEF Young, Running
  <2>3. QED
    BY <1>0, <2>1, <2>2, YoungOnly DEF Mention
<1>12. ASSUME NEW h \in Hooks, AlreadyNotified(h)
      PROVE  NewWork'
  <2> DEFINE fs == hook[h].news \ cache[hook[h].of]["stop"]
  <2>1. At(h, "fresh") /\ Mention(h, fs, "load") /\ UNCHANGED <<repo, files, history>>
    BY <1>12 DEF AlreadyNotified
  <2> HIDE DEF fs
  <2>2. Young([hook[h] EXCEPT !.at = "load", !.news = fs, !.found = {}], started, touched)
    <3>1. hook[h] \in Running(head) /\ hook[h] # Idle /\ hook[h].at = "fresh"
      BY <2>1, AtWork
    <3>2. fs \in SUBSET hook[h].news
      BY DEF fs
    <3>3. QED
      BY <3>1, <3>2, StillYoung
  <2>3. QED
    BY <1>0, <2>1, <2>2, YoungOnly DEF Mention
<1>13. ASSUME NEW h \in Hooks, LoadCache(h)
       PROVE  NewWork'
  <2>1. At(h, "load")
    BY <1>13 DEF LoadCache
  <2>2. hook[h] \in Running(head) /\ hook[h] # Idle /\ hook[h].at = "load"
    BY <2>1, AtWork
  <2>3. \A x : Young([hook[h] EXCEPT !.at = "truncate", !.found = x], started, touched)
    BY <2>2, StillYoung DEF MarkPlaces
  <2>4. QED
    BY <1>13, <2>3, YoungOnly DEF LoadCache, Found
<1>14. ASSUME NEW h \in Hooks, TruncateCache(h)
       PROVE  NewWork'
  <2>1. At(h, "truncate")
    BY <1>14 DEF TruncateCache
  <2>2. hook[h] \in Running(head) /\ hook[h] # Idle /\ hook[h].at = "truncate"
    BY <2>1, AtWork
  <2>3. Young([hook[h] EXCEPT !.at = "write"], started, touched)
    BY <2>2, StillYoung DEF MarkPlaces
  <2>4. QED
    BY <1>0, <1>14, <2>3, YoungSet DEF TruncateCache, Goto, repo, history
<1>15. ASSUME NEW h \in Hooks, WriteCache(h)
       PROVE  NewWork'
  <2>1. At(h, "write")
    BY <1>15 DEF WriteCache
  <2>2. hook[h] \in Running(head) /\ hook[h] # Idle /\ hook[h].at = "write"
    BY <2>1, AtWork
  <2>3. Young([hook[h] EXCEPT !.at = "output", !.found = {}], started, touched)
    BY <2>2, StillYoung DEF MarkPlaces
  <2>4. QED
    BY <1>0, <1>15, <2>3, YoungSet DEF WriteCache, Found, repo, history
<1>16. ASSUME NEW h \in Hooks, Output(h)
       PROVE  NewWork'
  <2>1. At(h, "output")
    BY <1>16 DEF Output
  <2>2. /\ hook[h] # Idle /\ hook[h].at = "output" /\ hook[h].of \in Sessions
        /\ hook[h].kind \in Kinds
    BY <2>1, AtWork DEF Placed, MarkPlaces
  <2>3. PICK fs \in SUBSET hook[h].news :
           shown' = [shown EXCEPT ![hook[h].of][hook[h].kind] = @ \union fs]
    BY <1>16 DEF Output
  <2>4. /\ started[hook[h].of] # NoMark
        /\ hook[h].kind = "stop" => \A f \in fs : touched[f] > started[hook[h].of]
    BY <2>2 DEF NewWork, Young, MarkPlaces
  <2>5. \A s \in Sessions : \A f \in shown'[s]["stop"] :
           f \in shown[s]["stop"] \/ (s = hook[h].of /\ hook[h].kind = "stop" /\ f \in fs)
    BY <2>2, <2>3 DEF Types, TypeOK, Kinds
  <2>6. ShownYoung(shown', started, touched)
    BY <1>0, <2>4, <2>5 DEF ShownYoung
  <2>7. QED
    BY <1>0, <1>16, <2>6, YoungSet DEF Output, Exit, repo, files
<1>17. ASSUME NEW h \in Hooks, Kill(h)
       PROVE  NewWork'
  BY <1>0, <1>17, YoungSet DEF Kill, Exit, repo, files
<1>18. ASSUME NEW f \in Files, ChangeFile(f) \/ Assess(f)
       PROVE  NewWork'
  <2>1. hook' = hook /\ started' = started /\ touched' = touched /\ marker' = marker /\ shown' = shown
    BY <1>18 DEF ChangeFile, Assess, files, history
  <2>2. QED
    BY <2>1 DEF NewWork, Young, MarksYoung, ShownYoung
<1>19. ASSUME NEW f \in Files, Commit(f)
       PROVE  NewWork'
  <2>1. hook' = hook /\ started' = started /\ marker' = marker /\ shown' = shown
    BY <1>19 DEF Commit, files, history
  <2>2. \A s \in Sessions : started[s] # NoMark => head + 1 > started[s]
    BY DEF Types, TypeOK
  <2>3. \A g \in Files : touched'[g] = IF g = f THEN head + 1 ELSE touched[g]
    BY <1>19 DEF Commit, Types, TypeOK
  <2>4. ASSUME NEW h \in Hooks
        PROVE  Young(hook[h], started, touched')
    <3>1. CASE hook[h] = Idle
      BY <3>1 DEF Young
    <3>2. CASE hook[h] # Idle
      <4>1. hook[h].of \in Sessions /\ hook[h].news \subseteq Files
        BY <3>2 DEF Types, TypeOK
      <4>2. started[hook[h].of] # NoMark /\ Young(hook[h], started, touched)
        BY <3>2 DEF NewWork, Young
      <4>3. \A g \in Files :
               touched[g] > started[hook[h].of] => touched'[g] > started[hook[h].of]
        BY <2>2, <2>3, <4>1, <4>2
      <4>4. QED
        BY <4>1, <4>2, <4>3 DEF Young
    <3>3. QED
      BY <3>1, <3>2
  <2>5. ShownYoung(shown, started, touched')
    <3>1. \A s \in Sessions : shown[s]["stop"] \subseteq Files
      BY DEF Types, TypeOK, Kinds
    <3>2. QED
      BY <1>0, <2>2, <2>3, <3>1 DEF ShownYoung
  <2>6. QED
    BY <1>0, <2>1, <2>4, <2>5 DEF NewWork, Young, MarksYoung, ShownYoung
<1>20. CASE UNCHANGED vars
  BY <1>20 DEF NewWork, Young, MarksYoung, ShownYoung, vars, repo, files, history
<1>21. QED
  BY <1>1, <1>2, <1>3, <1>4, <1>5, <1>6, <1>7, <1>8, <1>9, <1>10, <1>11, <1>12, <1>13,
     <1>14, <1>15, <1>16, <1>17, <1>18, <1>19, <1>20 DEF Next, Proceed

-----------------------------------------------------------------------------
(* A session whose hooks do not overlap, and of which none is killed while writing. *)

\* The hooks hk of session s, its caches c and what it was shown.
Orderly(s, hk, c, seen) ==
    /\ \A g, h \in Hooks : hk[g].of = s /\ hk[h].of = s /\ hk[g].kind = hk[h].kind => g = h
    /\ \A k \in Kinds :
          seen[k] \subseteq c[k] \/ \E h \in Hooks : hk[h].of = s /\ hk[h].kind = k /\ hk[h].at = "write"
    /\ \A h \in Hooks : hk[h].of = s =>
          /\ hk[h].at \in {"truncate", "write"} =>
                seen[hk[h].kind] \subseteq hk[h].found /\ hk[h].news \subseteq hk[h].found
          /\ hk[h].at = "output" => hk[h].news \subseteq c[hk[h].kind]
          /\ hk[h].at \in MarkPlaces => hk[h].news \intersect seen[hk[h].kind] = {}

Untorn ==
    /\ \A s \in Sessions : "torn" \notin trouble[s] => Orderly(s, hook, cache[s], shown[s])
    /\ MentionedOnce

LEMMA UntornInit == Init => Untorn
BY DEF Init, Untorn, Orderly, MentionedOnce, Idle

\* Steps of a hook do not concern other sessions.
LEMMA Elsewhere ==
    ASSUME Types, NEW h \in Hooks, NEW r, hook' = [hook EXCEPT ![h] = r],
           NEW s \in Sessions, hook[h].of # s, r.of # s, cache'[s] = cache[s],
           shown'[s] = shown[s], Orderly(s, hook, cache[s], shown[s])
    PROVE  Orderly(s, hook', cache'[s], shown'[s])
<1>1. \A g \in Hooks : hook'[g] = IF g = h THEN r ELSE hook[g]
  BY DEF Types, TypeOK
<1>2. \A g \in Hooks : hook'[g].of = s => g # h /\ hook'[g] = hook[g]
  BY <1>1
<1>3. \A g \in Hooks : hook[g].of = s => hook'[g] = hook[g]
  BY <1>1
<1>4. QED
  BY <1>2, <1>3 DEF Orderly

\* A hook that is not about to write ends, or goes on before it touches its cache.
LEMMA Aside ==
    ASSUME Types, NEW h \in Hooks, NEW r, hook' = [hook EXCEPT ![h] = r],
           NEW s \in Sessions, hook[h].of = s, hook[h].at # "write",
           \/ r.of # s
           \/ r.of = s /\ r.kind = hook[h].kind /\ r.at \notin MarkPlaces,
           Orderly(s, hook, cache[s], shown[s])
    PROVE  Orderly(s, hook', cache[s], shown[s])
<1>1. \A g \in Hooks : hook'[g] = IF g = h THEN r ELSE hook[g]
  BY DEF Types, TypeOK
<1>2. \A g \in Hooks : hook'[g].of = s =>
         /\ hook[g].of = s /\ hook'[g].kind = hook[g].kind
         /\ hook'[g].at \in MarkPlaces => hook'[g] = hook[g]
  BY <1>1
<1>3. \A g \in Hooks : hook[g].of = s /\ hook[g].at = "write" => hook'[g] = hook[g]
  BY <1>1
<1>4. /\ \A g, k \in Hooks :
            hook'[g].of = s /\ hook'[k].of = s /\ hook'[g].kind = hook'[k].kind => g = k
      /\ \A k \in Kinds : shown[s][k] \subseteq cache[s][k]
            \/ \E g \in Hooks : hook'[g].of = s /\ hook'[g].kind = k /\ hook'[g].at = "write"
  BY <1>2, <1>3 DEF Orderly
<1>5. QED
  BY <1>2, <1>4 DEF Orderly, MarkPlaces

\* The same of all sessions, if the step leaves caches and history alone.
LEMMA AsideAll ==
    ASSUME Types, Untorn, NEW h \in Hooks, NEW r, hook' = [hook EXCEPT ![h] = r],
           hook[h] # Idle, hook[h].at # "write",
           \/ r = Idle
           \/ r.of = hook[h].of /\ r.kind = hook[h].kind /\ r.at \notin MarkPlaces,
           cache' = cache, history' = history
    PROVE  Untorn'
<1>1. trouble' = trouble /\ shown' = shown /\ twice' = twice
  BY DEF history
<1>2. ASSUME NEW s \in Sessions, "torn" \notin trouble[s]
      PROVE  Orderly(s, hook', cache[s], shown[s])
  <2>1. Orderly(s, hook, cache[s], shown[s])
    BY <1>2 DEF Untorn
  <2>2. r = Idle => r.of # s
    BY DEF Idle
  <2>3. CASE hook[h].of = s
    BY <2>1, <2>2, <2>3, Aside
  <2>4. CASE hook[h].of # s
    BY <1>1, <2>1, <2>2, <2>4, Elsewhere
  <2>5. QED
    BY <2>3, <2>4
<1>3. QED
  BY <1>1, <1>2 DEF Untorn, Orderly, MentionedOnce

LEMMA AsideTo ==
    ASSUME Types, Untorn, NEW h \in Hooks, hook[h] \in Running(head), hook[h] # Idle,
           hook[h].at # "write", NEW place, place \notin MarkPlaces, NEW x,
           Goto(h, place) \/ Found(h, x, place), cache' = cache, history' = history
    PROVE  Untorn'
<1>1. ASSUME NEW r, hook' = [hook EXCEPT ![h] = r], r.of = hook[h].of,
             r.kind = hook[h].kind, r.at \notin MarkPlaces
      PROVE  Untorn'
  BY <1>1, AsideAll
<1>2. CASE Goto(h, place)
  <2> DEFINE r == [hook[h] EXCEPT !.at = place]
  <2>1. hook' = [hook EXCEPT ![h] = r]
    BY <1>2 DEF Goto
  <2>2. r.of = hook[h].of /\ r.kind = hook[h].kind /\ r.at = place
    BY DEF Running
  <2> HIDE DEF r
  <2>3. QED
    BY <1>1, <2>1, <2>2
<1>3. CASE Found(h, x, place)
  <2> DEFINE r == [hook[h] EXCEPT !.at = place, !.found = x]
  <2>1. hook' = [hook EXCEPT ![h] = r]
    BY <1>3 DEF Found
  <2>2. r.of = hook[h].of /\ r.kind = hook[h].kind /\ r.at = place
    BY DEF Running
  <2> HIDE DEF r
  <2>3. QED
    BY <1>1, <2>1, <2>2
<1>4. QED
  BY <1>2, <1>3

\* A step inside the writing of the cache: what remains to be shown of its own session.
LEMMA WritesOwn ==
    ASSUME Types, Untorn, NEW h \in Hooks, NEW r, hook' = [hook EXCEPT ![h] = r],
           hook[h].of \in Sessions, r.of \in {hook[h].of, NoSession}, trouble' = trouble,
           \A s \in Sessions \ {hook[h].of} : cache'[s] = cache[s] /\ shown'[s] = shown[s],
           "torn" \notin trouble[hook[h].of] =>
              Orderly(hook[h].of, hook', cache'[hook[h].of], shown'[hook[h].of]),
           twice' = {}
    PROVE  Untorn'
<1>1. ASSUME NEW s \in Sessions, "torn" \notin trouble[s]
      PROVE  Orderly(s, hook', cache'[s], shown'[s])
  <2>1. Orderly(s, hook, cache[s], shown[s])
    BY <1>1 DEF Untorn
  <2>2. CASE s = hook[h].of
    BY <1>1, <2>2
  <2>3. CASE s # hook[h].of
    BY <2>1, <2>3, Elsewhere
  <2>4. QED
    BY <2>2, <2>3
<1>2. QED
  BY <1>1 DEF Untorn, Orderly, MentionedOnce

\* A hook starts.
LEMMA Started ==
    ASSUME Types, Untorn, NEW h \in Hooks, NEW s \in Sessions, NEW k \in {"prompt"} \union Kinds,
           NEW place \in {"exists", "check", "audit"}, NEW fs, Launch(h, s, k, place, fs),
           cache' = cache, shown' = shown, twice' = twice
    PROVE  Untorn'
<1> DEFINE r == [at |-> place, of |-> s, kind |-> k, news |-> fs, found |-> {}]
<1>1. /\ hook' = [hook EXCEPT ![h] = r] /\ At(h, "idle")
      /\ \A x \in Sessions \ {s} : trouble'[x] = trouble[x]
  BY DEF Launch, Types, TypeOK
<1>2. hook[h] = Idle
  BY <1>1 DEF At, Types, TypeOK, Places
<1>3. \A g \in Hooks : hook'[g] = IF g = h THEN r ELSE hook[g]
  BY <1>1 DEF Types, TypeOK
<1>4. r.of = s /\ r.kind = k /\ r.at \notin MarkPlaces /\ r.at = place
  BY DEF MarkPlaces
<1> HIDE DEF r
<1>5. ASSUME NEW x \in Sessions \ {s}, "torn" \notin trouble'[x]
      PROVE  Orderly(x, hook', cache[x], shown[x])
  <2>1. Orderly(x, hook, cache[x], shown[x])
    BY <1>1, <1>5 DEF Untorn
  <2>2. hook[h].of # x
    BY <1>2 DEF Idle
  <2>3. QED
    BY <1>3, <1>4, <2>1, <2>2 DEF Orderly
<1>6. ASSUME "torn" \notin trouble'[s]
      PROVE  Orderly(s, hook', cache[s], shown[s])
  <2>1. "torn" \notin trouble[s] /\ \A g \in Hooks : ~(hook[g].of = s /\ hook[g].kind = k)
    BY <1>6 DEF Launch, Types, TypeOK
  <2>2. Orderly(s, hook, cache[s], shown[s])
    BY <2>1 DEF Untorn
  <2>3. hook[h].of # s
    BY <1>2 DEF Idle
  <2>4. \A g \in Hooks : hook[g].of = s => g # h /\ hook'[g] = hook[g] /\ hook[g].kind # r.kind
    BY <1>3, <1>4, <2>1, <2>3
  <2>5. hook'[h] = r
    BY <1>3
  <2>6. \A a, b \in Hooks :
           hook'[a].of = s /\ hook'[b].of = s /\ hook'[a].kind = hook'[b].kind => a = b
    BY <1>3, <2>2, <2>4, <2>5 DEF Orderly
  <2>7. \A x \in Kinds : shown[s][x] \subseteq cache[s][x]
           \/ \E g \in Hooks : hook'[g].of = s /\ hook'[g].kind = x /\ hook'[g].at = "write"
    BY <2>2, <2>4 DEF Orderly
  <2>8. \A g \in Hooks : hook'[g].of = s =>
          /\ hook'[g].at \in {"truncate", "write"} =>
                shown[s][hook'[g].kind] \subseteq hook'[g].found /\ hook'[g].news \subseteq hook'[g].found
          /\ hook'[g].at = "output" => hook'[g].news \subseteq cache[s][hook'[g].kind]
          /\ hook'[g].at \in MarkPlaces => hook'[g].news \intersect shown[s][hook'[g].kind] = {}
    <3> SUFFICES ASSUME NEW g \in Hooks, hook'[g].of = s
                 PROVE  /\ hook'[g].at \in {"truncate", "write"} =>
                              /\ shown[s][hook'[g].kind] \subseteq hook'[g].found
                              /\ hook'[g].news \subseteq hook'[g].found
                        /\ hook'[g].at = "output" => hook'[g].news \subseteq cache[s][hook'[g].kind]
                        /\ hook'[g].at \in MarkPlaces =>
                              hook'[g].news \intersect shown[s][hook'[g].kind] = {}
      OBVIOUS
    <3>1. CASE g = h
      BY <1>4, <2>5, <3>1 DEF MarkPlaces
    <3>2. CASE g # h
      <4>1. hook'[g] = hook[g]
        BY <1>3, <3>2
      <4>2. QED
        BY <2>2, <4>1 DEF Orderly
    <3>3. QED
      BY <3>1, <3>2
  <2>9. QED
    BY <2>6, <2>7, <2>8 DEF Orderly
<1>7. QED
  BY <1>5, <1>6 DEF Untorn, Orderly, MentionedOnce

\* A hook that found something nobody was told of, and is about to load the cache.
LEMMA ToLoad ==
    ASSUME Types, Untorn, NEW h \in Hooks, NEW k \in Kinds, NEW fs \in SUBSET Files,
           hook[h] \in Running(head), hook[h] # Idle, hook[h].of \in Sessions,
           hook[h].kind = k, hook[h].at \notin {"write"},
           fs \intersect cache[hook[h].of][k] = {}, Mention(h, fs, "load"),
           cache' = cache, history' = history
    PROVE  Untorn'
<1> DEFINE s == hook[h].of
           r == [hook[h] EXCEPT !.at = "load", !.news = fs, !.found = {}]
<1>1. CASE fs = {}
  BY <1>1, AsideAll DEF Mention
<1>2. CASE fs # {}
  <2>1. hook' = [hook EXCEPT ![h] = r]
    BY <1>2 DEF Mention
  <2>2. r.of = s /\ r.kind = k /\ r.at = "load" /\ r.news = fs
    BY DEF Running
  <2> HIDE DEF r
  <2>3. trouble' = trouble /\ shown' = shown /\ twice' = {}
    BY DEF history, Untorn, MentionedOnce
  <2>4. ASSUME "torn" \notin trouble[s]
        PROVE  Orderly(s, hook', cache[s], shown[s])
    <3>1. Orderly(s, hook, cache[s], shown[s])
      BY <2>4 DEF Untorn
    <3>2. \A g \in Hooks : hook'[g] = IF g = h THEN r ELSE hook[g]
      BY <2>1 DEF Types, TypeOK
    <3>3. shown[s][k] \subseteq cache[s][k]
      BY <3>1 DEF Orderly
    <3>4. r.news \intersect shown[s][k] = {}
      BY <2>2, <3>3
    <3>5. QED
      BY <2>2, <3>1, <3>2, <3>4 DEF Orderly, MarkPlaces
  <2>5. QED
    BY <2>1, <2>2, <2>3, <2>4, WritesOwn
<1>3. QED
  BY <1>1, <1>2

LEMMA UntornStep == Types /\ Untorn /\ [Next]_vars => Untorn'
<1> SUFFICES ASSUME Types, Untorn, [Next]_vars
             PROVE  Untorn'
  OBVIOUS
<1> USE DEF Places
<1>1. ASSUME NEW h \in Hooks, NEW s \in Sessions, Prompt(h, s)
      PROVE  Untorn'
  <2>1. Launch(h, s, "prompt", "exists", {}) /\ cache' = cache /\ shown' = shown /\ twice' = twice
    BY <1>1 DEF Prompt, files
  <2>2. QED
    BY <2>1, Started
<1>2. ASSUME NEW h \in Hooks, NEW s \in Sessions, Stop(h, s)
      PROVE  Untorn'
  <2>1. Launch(h, s, "stop", "audit", {}) /\ cache' = cache /\ shown' = shown /\ twice' = twice
    BY <1>2 DEF Stop, files
  <2>2. QED
    BY <2>1, Started DEF Kinds
<1>3. ASSUME NEW h \in Hooks, NEW s \in Sessions, NEW f \in Tooled, WriteFile(h, s, f)
      PROVE  Untorn'
  <2>1. Launch(h, s, "nudge", "check", {f}) /\ cache' = cache /\ shown' = shown /\ twice' = twice
    BY <1>3 DEF WriteFile, files
  <2>2. QED
    BY <2>1, Started DEF Kinds
<1>4. ASSUME NEW h \in Hooks, MarkerExists(h)
      PROVE  Untorn'
  <2>1. At(h, "exists") /\ cache' = cache /\ history' = history
    BY <1>4 DEF MarkerExists, files
  <2>2. hook[h] \in Running(head) /\ hook[h] # Idle /\ hook[h].at = "exists"
    BY <2>1, AtWork
  <2>3. CASE Goto(h, "head")
    BY <2>1, <2>2, <2>3, AsideTo DEF MarkPlaces
  <2>4. CASE Exit(h)
    BY <2>1, <2>2, <2>4, AsideAll DEF Exit
  <2>5. QED
    BY <1>4, <2>3, <2>4 DEF MarkerExists
<1>5. ASSUME NEW h \in Hooks, HeadCommit(h)
      PROVE  Untorn'
  <2>1. At(h, "head") /\ cache' = cache /\ history' = history /\ Found(h, {head}, "create")
    BY <1>5 DEF HeadCommit, files
  <2>2. hook[h] \in Running(head) /\ hook[h] # Idle /\ hook[h].at = "head"
    BY <2>1, AtWork
  <2>3. QED
    BY <2>1, <2>2, AsideTo DEF MarkPlaces
<1>6. ASSUME NEW h \in Hooks, CreateMarker(h)
      PROVE  Untorn'
  <2>1. At(h, "create") /\ cache' = cache /\ history' = history /\ Goto(h, "commit")
    BY <1>6 DEF CreateMarker
  <2>2. hook[h] \in Running(head) /\ hook[h] # Idle /\ hook[h].at = "create"
    BY <2>1, AtWork
  <2>3. QED
    BY <2>1, <2>2, AsideTo DEF MarkPlaces
<1>7. ASSUME NEW h \in Hooks, WriteMarker(h)
      PROVE  Untorn'
  <2>1. At(h, "commit") /\ cache' = cache /\ history' = history /\ Exit(h)
    BY <1>7 DEF WriteMarker
  <2>2. hook[h] \in Running(head) /\ hook[h] # Idle /\ hook[h].at = "commit"
    BY <2>1, AtWork
  <2>3. QED
    BY <2>1, <2>2, AsideAll DEF Exit
<1>8. ASSUME NEW h \in Hooks, AlreadyNudged(h)
      PROVE  Untorn'
  <2> DEFINE fs == hook[h].news \ cache[hook[h].of]["nudge"]
  <2>1. At(h, "check") /\ cache' = cache /\ history' = history /\ Mention(h, fs, "load")
    BY <1>8 DEF AlreadyNudged, files
  <2>2. /\ hook[h] \in Running(head) /\ hook[h] # Idle /\ hook[h].at = "check"
        /\ hook[h].of \in Sessions /\ hook[h].kind = "nudge"
    BY <2>1, AtWork DEF Placed
  <2>3. fs \in SUBSET Files /\ fs \intersect cache[hook[h].of]["nudge"] = {}
    BY <2>2 DEF Running
  <2> HIDE DEF fs
  <2>4. QED
    BY <2>1, <2>2, <2>3, ToLoad DEF Kinds
<1>9. ASSUME NEW h \in Hooks, ReadAudit(h)
      PROVE  Untorn'
  <2>1. At(h, "audit") /\ cache' = cache /\ history' = history /\ Found(h, audited, "scan")
    BY <1>9 DEF ReadAudit, files
  <2>2. hook[h] \in Running(head) /\ hook[h] # Idle /\ hook[h].at = "audit"
    BY <2>1, AtWork
  <2>3. QED
    BY <2>1, <2>2, AsideTo DEF MarkPlaces
<1>10. ASSUME NEW h \in Hooks, NEW p \in {"scan", "share"}, NEW fs, NEW place \in {"share", "fresh"},
              At(h, p), Mention(h, fs, place), UNCHANGED <<repo, files, history>>
       PROVE  Untorn'
  <2>1. hook[h] \in Running(head) /\ hook[h] # Idle /\ hook[h].at = p
    BY <1>10, AtWork
  <2>2. cache' = cache /\ history' = history
    BY <1>10 DEF files
  <2> DEFINE r == [hook[h] EXCEPT !.at = place, !.news = fs, !.found = {}]
  <2>3. r.of = hook[h].of /\ r.kind = hook[h].kind /\ r.at \notin MarkPlaces
    BY <2>1 DEF Running, MarkPlaces
  <2> HIDE DEF r
  <2>4. CASE fs = {}
    <3>1. hook' = [hook EXCEPT ![h] = Idle]
      BY <1>10, <2>4 DEF Mention
    <3>2. QED
      BY <2>1, <2>2, <3>1, AsideAll
  <2>5. CASE fs # {}
    <3>1. hook' = [hook EXCEPT ![h] = r]
      BY <1>10, <2>5 DEF Mention, r
    <3>2. QED
      BY <2>1, <2>2, <2>3, <3>1, AsideAll
  <2>6. QED
    BY <2>4, <2>5
<1>11. ASSUME NEW h \in Hooks, ScanTree(h) \/ OwnShare(h)
       PROVE  Untorn'
  BY <1>10, <1>11 DEF ScanTree, OwnShare
<1>12. ASSUME NEW h \in Hooks, AlreadyNotified(h)
       PROVE  Untorn'
  <2> DEFINE fs == hook[h].news \ cache[hook[h].of]["stop"]
  <2>1. At(h, "fresh") /\ cache' = cache /\ history' = history /\ Mention(h, fs, "load")
    BY <1>12 DEF AlreadyNotified, files
  <2>2. /\ hook[h] \in Running(head) /\ hook[h] # Idle /\ hook[h].at = "fresh"
        /\ hook[h].of \in Sessions /\ hook[h].kind = "stop"
    BY <2>1, AtWork DEF Placed, StopPlaces
  <2>3. fs \in SUBSET Files /\ fs \intersect cache[hook[h].of]["stop"] = {}
    BY <2>2 DEF Running
  <2> HIDE DEF fs
  <2>4. QED
    BY <2>1, <2>2, <2>3, ToLoad DEF Kinds
<1>13. ASSUME NEW h \in Hooks, LoadCache(h)
       PROVE  Untorn'
  <2> DEFINE s == hook[h].of
             x == cache[s][hook[h].kind] \union hook[h].news
             r == [hook[h] EXCEPT !.at = "truncate", !.found = x]
  <2>1. At(h, "load") /\ cache' = cache /\ history' = history /\ Found(h, x, "truncate")
    BY <1>13 DEF LoadCache, files
  <2>2. /\ hook[h] \in Running(head) /\ hook[h] # Idle /\ hook[h].at = "load"
        /\ s \in Sessions /\ hook[h].kind \in Kinds
    BY <2>1, AtWork DEF Placed, MarkPlaces
  <2>3. /\ r.of = s /\ r.kind = hook[h].kind /\ r.at = "truncate"
        /\ r.news = hook[h].news /\ r.found = x
    BY <2>2 DEF Running
  <2>4. hook' = [hook EXCEPT ![h] = r] /\ trouble' = trouble /\ shown' = shown /\ twice' = {}
    BY <2>1 DEF Found, history, Untorn, MentionedOnce
  <2> HIDE DEF r
  <2>5. ASSUME "torn" \notin trouble[s]
        PROVE  Orderly(s, hook', cache[s], shown[s])
    <3>1. Orderly(s, hook, cache[s], shown[s])
      BY <2>2, <2>5 DEF Untorn
    <3>2. \A g \in Hooks : hook'[g] = IF g = h THEN r ELSE hook[g]
      BY <2>4 DEF Types, TypeOK
    <3>3. shown[s][hook[h].kind] \subseteq cache[s][hook[h].kind]
      BY <2>2, <3>1 DEF Orderly
    <3>4. QED
      BY <2>2, <2>3, <3>1, <3>2, <3>3 DEF Orderly, MarkPlaces
  <2>6. QED
    BY <2>1, <2>2, <2>3, <2>4, <2>5, WritesOwn
<1>14. ASSUME NEW h \in Hooks, TruncateCache(h)
       PROVE  Untorn'
  <2> DEFINE s == hook[h].of
             r == [hook[h] EXCEPT !.at = "write"]
  <2>1. At(h, "truncate") /\ cache' = [cache EXCEPT ![s][hook[h].kind] = {}] /\ history' = history
    BY <1>14 DEF TruncateCache
  <2>2. /\ hook[h] \in Running(head) /\ hook[h] # Idle /\ hook[h].at = "truncate"
        /\ s \in Sessions /\ hook[h].kind \in Kinds
    BY <2>1, AtWork DEF Placed, MarkPlaces
  <2>3. /\ r.of = s /\ r.kind = hook[h].kind /\ r.at = "write"
        /\ r.news = hook[h].news /\ r.found = hook[h].found
    BY <2>2 DEF Running
  <2>4. hook' = [hook EXCEPT ![h] = r] /\ trouble' = trouble /\ shown' = shown /\ twice' = {}
    BY <1>14, <2>1 DEF TruncateCache, Goto, history, Untorn, MentionedOnce
  <2> HIDE DEF r
  <2>5. /\ \A t \in Sessions \ {s} : cache'[t] = cache[t]
        /\ \A k \in Kinds \ {hook[h].kind} : cache'[s][k] = cache[s][k]
    BY <2>1, <2>2 DEF Types, TypeOK
  <2>6. ASSUME "torn" \notin trouble[s]
        PROVE  Orderly(s, hook', cache'[s], shown[s])
    <3>1. Orderly(s, hook, cache[s], shown[s])
      BY <2>2, <2>6 DEF Untorn
    <3>2. \A g \in Hooks : hook'[g] = IF g = h THEN r ELSE hook[g]
      BY <2>4 DEF Types, TypeOK
    <3>3. \A g \in Hooks : hook[g].of = s /\ hook[g].at = "output" =>
             hook[g].kind \in Kinds \ {hook[h].kind}
      <4>1. \A g \in Hooks : hook[g].of = s /\ hook[g].at = "output" =>
               hook[g].kind \in Kinds /\ g # h
        BY <2>2 DEF Types, Placed, MarkPlaces, Idle
      <4>2. QED
        BY <3>1, <4>1 DEF Orderly
    <3>4. \A k \in Kinds : shown[s][k] \subseteq cache'[s][k]
             \/ \E g \in Hooks : hook'[g].of = s /\ hook'[g].kind = k /\ hook'[g].at = "write"
      <4>1. hook'[h].of = s /\ hook'[h].kind = hook[h].kind /\ hook'[h].at = "write"
        BY <2>3, <3>2
      <4>2. ASSUME NEW k \in Kinds \ {hook[h].kind}, ~(shown[s][k] \subseteq cache'[s][k])
            PROVE  \E g \in Hooks : hook'[g].of = s /\ hook'[g].kind = k /\ hook'[g].at = "write"
        BY <2>2, <2>5, <3>1, <3>2, <4>2 DEF Orderly
      <4>3. QED
        BY <4>1, <4>2
    <3>5. QED
      BY <2>2, <2>3, <2>5, <3>1, <3>2, <3>3, <3>4 DEF Orderly, MarkPlaces
  <2>7. QED
    BY <2>2, <2>3, <2>4, <2>5, <2>6, WritesOwn
<1>15. ASSUME NEW h \in Hooks, WriteCache(h)
       PROVE  Untorn'
  <2> DEFINE s == hook[h].of
             r == [hook[h] EXCEPT !.at = "output", !.found = {}]
  <2>1. /\ At(h, "write") /\ cache' = [cache EXCEPT ![s][hook[h].kind] = hook[h].found]
        /\ history' = history
    BY <1>15 DEF WriteCache
  <2>2. /\ hook[h] \in Running(head) /\ hook[h] # Idle /\ hook[h].at = "write"
        /\ s \in Sessions /\ hook[h].kind \in Kinds
    BY <2>1, AtWork DEF Placed, MarkPlaces
  <2>3. r.of = s /\ r.kind = hook[h].kind /\ r.at = "output" /\ r.news = hook[h].news
    BY <2>2 DEF Running
  <2>4. hook' = [hook EXCEPT ![h] = r] /\ trouble' = trouble /\ shown' = shown /\ twice' = {}
    BY <1>15, <2>1 DEF WriteCache, Found, history, Untorn, MentionedOnce
  <2> HIDE DEF r
  <2>5. /\ \A t \in Sessions \ {s} : cache'[t] = cache[t]
        /\ cache'[s][hook[h].kind] = hook[h].found
        /\ \A k \in Kinds \ {hook[h].kind} : cache'[s][k] = cache[s][k]
    BY <2>1, <2>2 DEF Types, TypeOK
  <2>6. ASSUME "torn" \notin trouble[s]
        PROVE  Orderly(s, hook', cache'[s], shown[s])
    <3>1. Orderly(s, hook, cache[s], shown[s])
      BY <2>2, <2>6 DEF Untorn
    <3>2. \A g \in Hooks : hook'[g] = IF g = h THEN r ELSE hook[g]
      BY <2>4 DEF Types, TypeOK
    <3>3. \A g \in Hooks \ {h} : hook[g].of = s /\ hook[g].at = "output" =>
             hook[g].kind \in Kinds \ {hook[h].kind}
      <4>1. \A g \in Hooks : hook[g].of = s /\ hook[g].at = "output" => hook[g].kind \in Kinds
        BY <2>2 DEF Types, Placed, MarkPlaces, Idle
      <4>2. QED
        BY <3>1, <4>1 DEF Orderly
    <3>4. \A k \in Kinds : shown[s][k] \subseteq cache'[s][k]
             \/ \E g \in Hooks : hook'[g].of = s /\ hook'[g].kind = k /\ hook'[g].at = "write"
      <4>1. ASSUME NEW k \in Kinds \ {hook[h].kind}
            PROVE  shown[s][k] \subseteq cache'[s][k]
               \/ \E g \in Hooks : hook'[g].of = s /\ hook'[g].kind = k /\ hook'[g].at = "write"
        BY <2>2, <2>5, <3>1, <3>2 DEF Orderly
      <4>2. shown[s][hook[h].kind] \subseteq cache'[s][hook[h].kind]
        BY <2>2, <2>5, <3>1 DEF Orderly
      <4>3. QED
        BY <4>1, <4>2
    <3>5. QED
      BY <2>2, <2>3, <2>5, <3>1, <3>2, <3>3, <3>4 DEF Orderly, MarkPlaces
  <2>7. QED
    BY <2>2, <2>3, <2>4, <2>5, <2>6, WritesOwn
<1>16. ASSUME NEW h \in Hooks, Output(h)
       PROVE  Untorn'
  <2> DEFINE s == hook[h].of
  <2>1. At(h, "output") /\ cache' = cache /\ trouble' = trouble /\ hook' = [hook EXCEPT ![h] = Idle]
    BY <1>16 DEF Output, Exit, files
  <2>2. /\ hook[h] \in Running(head) /\ hook[h] # Idle /\ hook[h].at = "output"
        /\ s \in Sessions /\ hook[h].kind \in Kinds
    BY <2>1, AtWork DEF Placed, MarkPlaces
  <2>3. PICK fs \in SUBSET hook[h].news :
           /\ shown' = [shown EXCEPT ![s][hook[h].kind] = @ \union fs]
           /\ twice' = IF fs \intersect shown[s][hook[h].kind] # {} /\ "torn" \notin trouble[s]
                       THEN twice \union {s} ELSE twice
    BY <1>16 DEF Output
  <2>4. /\ \A t \in Sessions \ {s} : shown'[t] = shown[t]
        /\ shown'[s][hook[h].kind] = shown[s][hook[h].kind] \union fs
        /\ \A k \in Kinds \ {hook[h].kind} : shown'[s][k] = shown[s][k]
    BY <2>2, <2>3 DEF Types, TypeOK
  <2>5. ASSUME "torn" \notin trouble[s]
        PROVE  Orderly(s, hook, cache[s], shown[s])
    BY <2>2, <2>5 DEF Untorn
  <2>6. "torn" \notin trouble[s] => fs \intersect shown[s][hook[h].kind] = {}
    BY <2>2, <2>5 DEF Orderly, MarkPlaces
  <2>7. twice' = {}
    BY <2>3, <2>6 DEF Untorn, MentionedOnce
  <2>8. ASSUME "torn" \notin trouble[s]
        PROVE  Orderly(s, hook', cache[s], shown'[s])
    <3>1. Orderly(s, hook, cache[s], shown[s])
      BY <2>5, <2>8
    <3>2. \A g \in Hooks : hook'[g] = IF g = h THEN Idle ELSE hook[g]
      BY <2>1 DEF Types, TypeOK
    <3>3. \A g \in Hooks : hook'[g].of = s => hook'[g] = hook[g] /\ hook[g].kind # hook[h].kind
      <4>1. Idle.of # s
        BY <2>2, SessionsAssumption DEF Idle
      <4>2. \A g \in Hooks : hook[g].of = s /\ hook[g].kind = hook[h].kind => g = h
        BY <2>2, <3>1 DEF Orderly
      <4>3. QED
        BY <3>2, <4>1, <4>2
    <3>4. \A g \in Hooks : hook[g].of = s /\ hook[g].at \in MarkPlaces => hook[g].kind \in Kinds
      <4>1. \A g \in Hooks : Placed(hook[g], head)
        BY DEF Types
      <4>2. QED
        BY <4>1 DEF Placed, Idle, MarkPlaces
    <3>5. shown'[s][hook[h].kind] \subseteq cache[s][hook[h].kind]
      <4>1. shown[s][hook[h].kind] \subseteq cache[s][hook[h].kind]
        BY <2>2, <3>1 DEF Orderly
      <4>2. hook[h].news \subseteq cache[s][hook[h].kind]
        BY <2>2, <3>1 DEF Orderly
      <4>3. QED
        BY <2>3, <2>4, <4>1, <4>2
    <3>6. \A k \in Kinds : shown'[s][k] \subseteq cache[s][k]
             \/ \E g \in Hooks : hook'[g].of = s /\ hook'[g].kind = k /\ hook'[g].at = "write"
      <4>1. ASSUME NEW k \in Kinds \ {hook[h].kind}
            PROVE  shown'[s][k] \subseteq cache[s][k]
               \/ \E g \in Hooks : hook'[g].of = s /\ hook'[g].kind = k /\ hook'[g].at = "write"
        BY <2>2, <2>4, <3>1, <3>2 DEF Orderly
      <4>2. QED
        BY <3>5, <4>1
    <3>7. QED
      BY <2>4, <3>1, <3>3, <3>4, <3>6 DEF Orderly, MarkPlaces
  <2>9. QED
    <3>1. Idle.of = NoSession
      BY DEF Idle
    <3>2. \A t \in Sessions \ {s} : cache'[t] = cache[t] /\ shown'[t] = shown[t]
      BY <2>1, <2>4
    <3>3. "torn" \notin trouble[s] => Orderly(s, hook', cache'[s], shown'[s])
      BY <2>1, <2>8
    <3>4. QED
      BY <2>1, <2>2, <2>7, <3>1, <3>2, <3>3, WritesOwn
<1>17. ASSUME NEW h \in Hooks, Kill(h)
       PROVE  Untorn'
  <2> DEFINE s == hook[h].of
  <2>1. /\ ~At(h, "idle") /\ hook' = [hook EXCEPT ![h] = Idle] /\ cache' = cache
        /\ shown' = shown /\ twice' = twice /\ "torn" \notin trouble[s]
    BY <1>17 DEF Kill, Exit, files
  <2>2. hook[h] # Idle /\ s \in Sessions /\ Idle.of # s
    <3>1. hook[h] # Idle
      BY <2>1 DEF At, Idle
    <3>2. s \in Sessions /\ Idle.of = NoSession
      BY <3>1 DEF Types, TypeOK, Idle
    <3>3. QED
      BY <3>1, <3>2
  <2>3. /\ \A t \in Sessions \ {s} : trouble'[t] = trouble[t]
        /\ hook[h].at = "write" => "torn" \in trouble'[s]
    BY <1>17, <2>2 DEF Kill, At, Types, TypeOK
  <2>4. \A t \in Sessions : "torn" \notin trouble'[t] => "torn" \notin trouble[t]
    BY <2>1, <2>3
  <2>5. ASSUME NEW t \in Sessions, "torn" \notin trouble'[t]
        PROVE  Orderly(t, hook', cache'[t], shown'[t])
    <3>1. Orderly(t, hook, cache[t], shown[t])
      BY <2>4, <2>5 DEF Untorn
    <3>2. CASE t = s
      BY <2>1, <2>2, <2>3, <2>5, <3>1, <3>2, Aside
    <3>3. CASE t # s
      <4>1. Idle.of # t
        BY DEF Idle
      <4>2. QED
        BY <2>1, <2>2, <3>1, <3>3, <4>1, Elsewhere
    <3>4. QED
      BY <3>2, <3>3
  <2>6. QED
    BY <2>1, <2>5 DEF Untorn, Orderly, MentionedOnce
<1>18. ASSUME hook' = hook, cache' = cache, history' = history
       PROVE  Untorn'
  BY <1>18 DEF Untorn, Orderly, MentionedOnce, history
<1>19. ASSUME NEW f \in Files, ChangeFile(f) \/ Commit(f) \/ Assess(f)
       PROVE  Untorn'
  BY <1>18, <1>19 DEF ChangeFile, Commit, Assess, files
<1>20. CASE UNCHANGED vars
  BY <1>18, <1>20 DEF vars, files
<1>21. QED
  BY <1>1, <1>2, <1>3, <1>4, <1>5, <1>6, <1>7, <1>8, <1>9, <1>11, <1>12, <1>13, <1>14,
     <1>15, <1>16, <1>17, <1>19, <1>20 DEF Next, Proceed

-----------------------------------------------------------------------------

LEMMA Invariant == Spec => [](Types /\ NewWork /\ Untorn)
<1>1. Init => Types /\ NewWork /\ Untorn
  BY TypesInit, NewWorkInit, UntornInit
<1>2. Types /\ NewWork /\ Untorn /\ [Next]_vars => (Types /\ NewWork /\ Untorn)'
  BY TypesStep, NewWorkStep, UntornStep
<1>3. QED
  BY <1>1, <1>2, PTL DEF Spec

\* Every variable keeps its type, and a hook its files.
THEOREM SessionsTypeCorrect == Spec => []TypeOK
<1>1. Types => TypeOK
  BY DEF Types
<1>2. QED
  BY <1>1, Invariant, PTL

\* However prompts, stops and commits interleave and whatever hook is killed where, a session
\* is reminded only of files that were committed after its first prompt.
THEOREM RemindersAreNew == Spec => []RemindsOfNewWork
<1>1. NewWork => RemindsOfNewWork
  BY DEF NewWork, ShownYoung, RemindsOfNewWork
<1>2. QED
  BY <1>1, Invariant, PTL

\* A hook that is killed before or after it writes the cache does not make the session
\* hear of a file twice, for any number of hooks, files and kills.
THEOREM NothingMentionedTwice == Spec => []MentionedOnce
<1>1. Untorn => MentionedOnce
  BY DEF Untorn
<1>2. QED
  BY <1>1, Invariant, PTL

-----------------------------------------------------------------------------
(* What a cache holds was mentioned.  The cache is written before the output, so that a hook
   in between has marked what it has not said yet. *)

\* Session s was told of f, or a hook at its output is about to do so.
Covered(hk, seen, s, k, f) ==
    \/ f \in seen[s][k]
    \/ \E g \in Hooks : /\ hk[g].of = s /\ hk[g].kind = k /\ hk[g].at = "output"
                        /\ f \in hk[g].news

\* What is marked, in the cache or in the copy that a hook is about to write.
MarksCovered(s, hk, c, seen) ==
    /\ \A k \in Kinds : \A f \in c[s][k] : Covered(hk, seen, s, k, f)
    /\ \A h \in Hooks : hk[h].of = s /\ hk[h].at \in {"truncate", "write"} =>
          \A f \in hk[h].found \ hk[h].news : Covered(hk, seen, s, hk[h].kind, f)

Backed == \A s \in Sessions : "killed" \notin trouble[s] => MarksCovered(s, hook, cache, shown)

\* A hook that is not at its output takes nothing back.
LEMMA StaysCovered ==
    ASSUME Types, NEW h \in Hooks, NEW r, hook' = [hook EXCEPT ![h] = r],
           hook[h].at # "output", shown' = shown, NEW s, NEW k, NEW f,
           Covered(hook, shown, s, k, f)
    PROVE  Covered(hook', shown', s, k, f)
BY DEF Covered, Types, TypeOK

\* A step before the writing of the cache, or the start or the silent end of a hook.
LEMMA Tame ==
    ASSUME Types, Backed, NEW h \in Hooks, NEW r, hook' = [hook EXCEPT ![h] = r],
           hook[h].at # "output", r.at \notin {"truncate", "write"},
           cache' = cache, shown' = shown,
           \A s \in Sessions : "killed" \notin trouble'[s] => "killed" \notin trouble[s]
    PROVE  Backed'
<1> SUFFICES ASSUME NEW s \in Sessions, "killed" \notin trouble'[s]
             PROVE  MarksCovered(s, hook', cache', shown')
  BY DEF Backed
<1>1. MarksCovered(s, hook, cache, shown)
  BY DEF Backed
<1>2. \A g \in Hooks : hook'[g] = IF g = h THEN r ELSE hook[g]
  BY DEF Types, TypeOK
<1>3. ASSUME NEW k \in Kinds, NEW f \in cache[s][k]
      PROVE  Covered(hook', shown', s, k, f)
  BY <1>1, StaysCovered DEF MarksCovered
<1>4. ASSUME NEW g \in Hooks, hook'[g].of = s, hook'[g].at \in {"truncate", "write"},
             NEW f \in hook'[g].found \ hook'[g].news
      PROVE  Covered(hook', shown', s, hook'[g].kind, f)
  <2>1. hook'[g] = hook[g]
    BY <1>2, <1>4
  <2>2. Covered(hook, shown, s, hook[g].kind, f)
    BY <1>1, <1>4, <2>1 DEF MarksCovered
  <2>3. QED
    BY <2>1, <2>2, StaysCovered
<1>5. QED
  BY <1>3, <1>4 DEF MarksCovered

LEMMA TameLaunch ==
    ASSUME Types, Backed, NEW h \in Hooks, NEW s \in Sessions, NEW k,
           NEW place \in {"exists", "check", "audit"}, NEW fs, Launch(h, s, k, place, fs),
           cache' = cache, shown' = shown
    PROVE  Backed'
<1> DEFINE r == [at |-> place, of |-> s, kind |-> k, news |-> fs, found |-> {}]
<1>1. hook' = [hook EXCEPT ![h] = r] /\ hook[h].at # "output" /\ r.at \notin {"truncate", "write"}
  BY DEF Launch, At
<1>2. \A x \in Sessions : "killed" \notin trouble'[x] => "killed" \notin trouble[x]
  BY DEF Launch, Types, TypeOK
<1> HIDE DEF r
<1>3. QED
  BY <1>1, <1>2, Tame

LEMMA TameStep ==
    ASSUME Types, Backed, NEW h \in Hooks, hook[h] \in Running(head), hook[h].at # "output",
           NEW place, place \notin {"truncate", "write"}, NEW x,
           \/ Goto(h, place)
           \/ Found(h, x, place)
           \/ Mention(h, x, place)
           \/ Exit(h),
           cache' = cache, history' = history
    PROVE  Backed'
<1>1. shown' = shown /\ trouble' = trouble
  BY DEF history
<1>2. ASSUME NEW r, hook' = [hook EXCEPT ![h] = r], r.at \notin {"truncate", "write"}
      PROVE  Backed'
  BY <1>1, <1>2, Tame
<1>3. Idle.at = "idle"
  BY DEF Idle
<1>4. CASE Goto(h, place)
  <2> DEFINE r == [hook[h] EXCEPT !.at = place]
  <2>1. hook' = [hook EXCEPT ![h] = r] /\ r.at = place
    BY <1>4 DEF Goto, Running
  <2> HIDE DEF r
  <2>2. QED
    BY <1>2, <2>1
<1>5. CASE Found(h, x, place)
  <2> DEFINE r == [hook[h] EXCEPT !.at = place, !.found = x]
  <2>1. hook' = [hook EXCEPT ![h] = r] /\ r.at = place
    BY <1>5 DEF Found, Running
  <2> HIDE DEF r
  <2>2. QED
    BY <1>2, <2>1
<1>6. CASE Exit(h)
  BY <1>2, <1>3, <1>6 DEF Exit
<1>7. CASE Mention(h, x, place)
  <2>1. CASE x = {}
    BY <1>2, <1>3, <1>7, <2>1 DEF Mention
  <2>2. CASE x # {}
    <3> DEFINE r == [hook[h] EXCEPT !.at = place, !.news = x, !.found = {}]
    <3>1. hook' = [hook EXCEPT ![h] = r] /\ r.at = place
      BY <1>7, <2>2 DEF Mention, Running
    <3> HIDE DEF r
    <3>2. QED
      BY <1>2, <3>1
  <2>3. QED
    BY <2>1, <2>2
<1>8. QED
  BY <1>4, <1>5, <1>6, <1>7

\* Every file fits in a reminder: this is when being marked and being mentioned are the same.
AllFit == Cardinality(Files) <= ShowMax

LEMMA ShowsAll ==
    ASSUME AllFit, NEW h \in Hooks, hook[h] \in Running(head), Output(h)
    PROVE  shown' = [shown EXCEPT ![hook[h].of][hook[h].kind] = @ \union hook[h].news]
<1>1. hook[h].news \subseteq Files
  BY DEF Running
<1>2. IsFiniteSet(hook[h].news) /\ Cardinality(hook[h].news) <= Cardinality(Files)
  BY <1>1, FS_Subset
<1>3. Cardinality(hook[h].news) \in Nat /\ Cardinality(Files) \in Nat
  BY <1>2, FS_CardinalityType
<1>4. Cardinality(hook[h].news) <= ShowMax
  BY <1>2, <1>3 DEF AllFit
<1>5. QED
  BY <1>4 DEF Output

LEMMA BackedStep == AllFit /\ Types /\ Backed /\ [Next]_vars => Backed'
<1> SUFFICES ASSUME AllFit, Types, Backed, [Next]_vars
             PROVE  Backed'
  OBVIOUS
<1> USE DEF Places
<1>1. ASSUME NEW h \in Hooks, NEW s \in Sessions, Prompt(h, s)
      PROVE  Backed'
  BY <1>1, TameLaunch DEF Prompt, files
<1>2. ASSUME NEW h \in Hooks, NEW s \in Sessions, Stop(h, s)
      PROVE  Backed'
  BY <1>2, TameLaunch DEF Stop, files
<1>3. ASSUME NEW h \in Hooks, NEW s \in Sessions, NEW f \in Tooled, WriteFile(h, s, f)
      PROVE  Backed'
  BY <1>3, TameLaunch DEF WriteFile, files
\* The places before the cache.
<1>4. ASSUME NEW h \in Hooks, NEW p \in Places \ {"output"}, At(h, p)
      PROVE  hook[h] \in Running(head) /\ hook[h].at # "output"
  BY <1>4, AtWork
<1>5. ASSUME NEW h \in Hooks, MarkerExists(h)
      PROVE  Backed'
  <2>1. At(h, "exists") /\ cache' = cache /\ history' = history
        /\ (Goto(h, "head") \/ Exit(h))
    BY <1>5 DEF MarkerExists, files
  <2>2. hook[h] \in Running(head) /\ hook[h].at # "output"
    BY <1>4, <2>1
  <2>3. QED
    BY <2>1, <2>2, TameStep
<1>6. ASSUME NEW h \in Hooks, HeadCommit(h)
      PROVE  Backed'
  <2>1. At(h, "head") /\ cache' = cache /\ history' = history /\ Found(h, {head}, "create")
    BY <1>6 DEF HeadCommit, files
  <2>2. hook[h] \in Running(head) /\ hook[h].at # "output"
    BY <1>4, <2>1
  <2>3. QED
    BY <2>1, <2>2, TameStep
<1>7. ASSUME NEW h \in Hooks, CreateMarker(h)
      PROVE  Backed'
  <2>1. At(h, "create") /\ cache' = cache /\ history' = history /\ Goto(h, "commit")
    BY <1>7 DEF CreateMarker
  <2>2. hook[h] \in Running(head) /\ hook[h].at # "output"
    BY <1>4, <2>1
  <2>3. QED
    BY <2>1, <2>2, TameStep
<1>8. ASSUME NEW h \in Hooks, WriteMarker(h)
      PROVE  Backed'
  <2>1. At(h, "commit") /\ cache' = cache /\ history' = history /\ Exit(h)
    BY <1>8 DEF WriteMarker
  <2>2. hook[h] \in Running(head) /\ hook[h].at # "output"
    BY <1>4, <2>1
  <2>3. QED
    BY <2>1, <2>2, TameStep
<1>9. ASSUME NEW h \in Hooks, ReadAudit(h)
      PROVE  Backed'
  <2>1. At(h, "audit") /\ cache' = cache /\ history' = history /\ Found(h, audited, "scan")
    BY <1>9 DEF ReadAudit, files
  <2>2. hook[h] \in Running(head) /\ hook[h].at # "output"
    BY <1>4, <2>1
  <2>3. QED
    BY <2>1, <2>2, TameStep
<1>10. ASSUME NEW h \in Hooks, AlreadyNudged(h) \/ ScanTree(h) \/ OwnShare(h) \/ AlreadyNotified(h)
       PROVE  Backed'
  <2>1. /\ At(h, "check") \/ At(h, "scan") \/ At(h, "share") \/ At(h, "fresh")
        /\ cache' = cache /\ history' = history
        /\ \E fs : Mention(h, fs, "load") \/ Mention(h, fs, "share") \/ Mention(h, fs, "fresh")
    BY <1>10 DEF AlreadyNudged, ScanTree, OwnShare, AlreadyNotified, files
  <2>2. hook[h] \in Running(head) /\ hook[h].at # "output"
    BY <1>4, <2>1
  <2>3. QED
    BY <2>1, <2>2, TameStep
\* The cache: what is loaded from it is covered, and what is new is about to be said.
<1>11. ASSUME NEW h \in Hooks, LoadCache(h)
       PROVE  Backed'
  <2> DEFINE x == cache[hook[h].of][hook[h].kind] \union hook[h].news
             r == [hook[h] EXCEPT !.at = "truncate", !.found = x]
  <2>1. At(h, "load") /\ hook' = [hook EXCEPT ![h] = r] /\ cache' = cache
        /\ shown' = shown /\ trouble' = trouble
    BY <1>11 DEF LoadCache, Found, files, history
  <2>2. /\ hook[h] \in Running(head) /\ hook[h].at = "load"
        /\ hook[h].of \in Sessions /\ hook[h].kind \in Kinds
    BY <2>1, AtWork DEF Placed, MarkPlaces
  <2>3. r.of = hook[h].of /\ r.kind = hook[h].kind /\ r.news = hook[h].news /\ r.found = x
    BY <2>2 DEF Running
  <2> HIDE DEF r
  <2>4. \A g \in Hooks : hook'[g] = IF g = h THEN r ELSE hook[g]
    BY <2>1 DEF Types, TypeOK
  <2>5. ASSUME NEW s \in Sessions, "killed" \notin trouble[s]
        PROVE  MarksCovered(s, hook', cache', shown')
    <3>1. MarksCovered(s, hook, cache, shown)
      BY <2>5 DEF Backed
    <3>2. \A k \in Kinds : \A f \in cache[s][k] : Covered(hook', shown', s, k, f)
      BY <2>1, <2>2, <3>1, StaysCovered DEF MarksCovered
    <3>3. ASSUME NEW g \in Hooks, hook'[g].of = s, hook'[g].at \in {"truncate", "write"},
                 NEW f \in hook'[g].found \ hook'[g].news
          PROVE  Covered(hook', shown', s, hook'[g].kind, f)
      <4>1. CASE g = h
        BY <2>2, <2>3, <2>4, <3>2, <3>3, <4>1
      <4>2. CASE g # h
        <5>1. hook'[g] = hook[g]
          BY <2>4, <4>2
        <5>2. Covered(hook, shown, s, hook[g].kind, f)
          BY <3>1, <3>3, <5>1 DEF MarksCovered
        <5>3. QED
          BY <2>1, <2>2, <5>1, <5>2, StaysCovered
      <4>3. QED
        BY <4>1, <4>2
    <3>4. QED
      BY <2>1, <3>2, <3>3 DEF MarksCovered
  <2>6. QED
    BY <2>1, <2>5 DEF Backed
<1>12. ASSUME NEW h \in Hooks, TruncateCache(h)
       PROVE  Backed'
  <2> DEFINE r == [hook[h] EXCEPT !.at = "write"]
  <2>1. /\ At(h, "truncate") /\ hook' = [hook EXCEPT ![h] = r]
        /\ cache' = [cache EXCEPT ![hook[h].of][hook[h].kind] = {}]
        /\ shown' = shown /\ trouble' = trouble
    BY <1>12 DEF TruncateCache, Goto, history
  <2>2. /\ hook[h] \in Running(head) /\ hook[h].at = "truncate"
        /\ hook[h].of \in Sessions /\ hook[h].kind \in Kinds
    BY <2>1, AtWork DEF Placed, MarkPlaces
  <2>3. /\ r.of = hook[h].of /\ r.kind = hook[h].kind /\ r.news = hook[h].news
        /\ r.found = hook[h].found
    BY <2>2 DEF Running
  <2> HIDE DEF r
  <2>4. \A g \in Hooks : hook'[g] = IF g = h THEN r ELSE hook[g]
    BY <2>1 DEF Types, TypeOK
  <2>5. \A s \in Sessions, k \in Kinds : cache'[s][k] \subseteq cache[s][k]
    BY <2>1, <2>2 DEF Types, TypeOK
  <2>6. ASSUME NEW s \in Sessions, "killed" \notin trouble[s]
        PROVE  MarksCovered(s, hook', cache', shown')
    <3>1. MarksCovered(s, hook, cache, shown)
      BY <2>6 DEF Backed
    <3>2. \A k \in Kinds : \A f \in cache'[s][k] : Covered(hook', shown', s, k, f)
      BY <2>1, <2>2, <2>5, <3>1, StaysCovered DEF MarksCovered
    <3>3. ASSUME NEW g \in Hooks, hook'[g].of = s, hook'[g].at \in {"truncate", "write"},
                 NEW f \in hook'[g].found \ hook'[g].news
          PROVE  Covered(hook', shown', s, hook'[g].kind, f)
      <4>1. /\ hook[g].of = s /\ hook[g].kind = hook'[g].kind /\ hook[g].news = hook'[g].news
            /\ hook[g].found = hook'[g].found /\ hook[g].at \in {"truncate", "write"}
        BY <2>2, <2>3, <2>4, <3>3
      <4>2. Covered(hook, shown, s, hook[g].kind, f)
        BY <3>1, <3>3, <4>1 DEF MarksCovered
      <4>3. QED
        BY <2>1, <2>2, <4>1, <4>2, StaysCovered
    <3>4. QED
      BY <3>2, <3>3 DEF MarksCovered
  <2>7. QED
    BY <2>1, <2>6 DEF Backed
<1>13. ASSUME NEW h \in Hooks, WriteCache(h)
       PROVE  Backed'
  <2> DEFINE r == [hook[h] EXCEPT !.at = "output", !.found = {}]
  <2>1. /\ At(h, "write") /\ hook' = [hook EXCEPT ![h] = r]
        /\ cache' = [cache EXCEPT ![hook[h].of][hook[h].kind] = hook[h].found]
        /\ shown' = shown /\ trouble' = trouble
    BY <1>13 DEF WriteCache, Found, history
  <2>2. /\ hook[h] \in Running(head) /\ hook[h].at = "write"
        /\ hook[h].of \in Sessions /\ hook[h].kind \in Kinds
    BY <2>1, AtWork DEF Placed, MarkPlaces
  <2>3. r.of = hook[h].of /\ r.kind = hook[h].kind /\ r.news = hook[h].news /\ r.at = "output"
    BY <2>2 DEF Running
  <2> HIDE DEF r
  <2>4. \A g \in Hooks : hook'[g] = IF g = h THEN r ELSE hook[g]
    BY <2>1 DEF Types, TypeOK
  <2>5. \A s \in Sessions, k \in Kinds :
           cache'[s][k] = IF s = hook[h].of /\ k = hook[h].kind THEN hook[h].found ELSE cache[s][k]
    BY <2>1, <2>2 DEF Types, TypeOK
  <2>6. ASSUME NEW s \in Sessions, "killed" \notin trouble[s]
        PROVE  MarksCovered(s, hook', cache', shown')
    <3>1. MarksCovered(s, hook, cache, shown)
      BY <2>6 DEF Backed
    <3>2. ASSUME NEW k \in Kinds, NEW f, Covered(hook, shown, s, k, f)
          PROVE  Covered(hook', shown', s, k, f)
      BY <2>1, <2>2, <3>2, StaysCovered
    <3>3. ASSUME NEW k \in Kinds, NEW f \in cache'[s][k]
          PROVE  Covered(hook', shown', s, k, f)
      <4>1. CASE s = hook[h].of /\ k = hook[h].kind
        <5>1. f \in hook[h].found
          BY <2>5, <3>3, <4>1
        <5>2. CASE f \in hook[h].news
          BY <2>3, <2>4, <4>1, <5>2 DEF Covered
        <5>3. CASE f \notin hook[h].news
          BY <2>2, <3>1, <3>2, <4>1, <5>1, <5>3 DEF MarksCovered
        <5>4. QED
          BY <5>2, <5>3
      <4>2. CASE ~(s = hook[h].of /\ k = hook[h].kind)
        BY <2>5, <3>1, <3>2, <3>3, <4>2 DEF MarksCovered
      <4>3. QED
        BY <4>1, <4>2
    <3>4. ASSUME NEW g \in Hooks, hook'[g].of = s, hook'[g].at \in {"truncate", "write"},
                 NEW f \in hook'[g].found \ hook'[g].news
          PROVE  Covered(hook', shown', s, hook'[g].kind, f)
      <4>1. hook'[g] = hook[g]
        BY <2>3, <2>4, <3>4
      <4>2. Covered(hook, shown, s, hook[g].kind, f)
        BY <3>1, <3>4, <4>1 DEF MarksCovered
      <4>3. QED
        BY <2>1, <2>2, <4>1, <4>2, StaysCovered
    <3>5. QED
      BY <3>3, <3>4 DEF MarksCovered
  <2>7. QED
    BY <2>1, <2>6 DEF Backed
\* A hook that ends: what it was about to say is said, or the session has had a hook killed.
<1>14. ASSUME NEW h \in Hooks, hook[h] # Idle, hook' = [hook EXCEPT ![h] = Idle], cache' = cache,
              \A s \in Sessions, k \in Kinds : shown[s][k] \subseteq shown'[s][k],
              \A s \in Sessions : "killed" \notin trouble'[s] =>
                 /\ "killed" \notin trouble[s]
                 /\ hook[h].of = s /\ hook[h].at = "output" =>
                       hook[h].news \subseteq shown'[s][hook[h].kind]
       PROVE  Backed'
  <2> SUFFICES ASSUME NEW s \in Sessions, "killed" \notin trouble'[s]
               PROVE  MarksCovered(s, hook', cache', shown')
    BY DEF Backed
  <2>1. MarksCovered(s, hook, cache, shown)
    BY <1>14 DEF Backed
  <2>2. \A g \in Hooks : hook'[g] = IF g = h THEN Idle ELSE hook[g]
    BY <1>14 DEF Types, TypeOK
  <2>3. ASSUME NEW k \in Kinds, NEW f, Covered(hook, shown, s, k, f)
        PROVE  Covered(hook', shown', s, k, f)
    BY <1>14, <2>2, <2>3 DEF Covered
  <2>4. ASSUME NEW k \in Kinds, NEW f \in cache'[s][k]
        PROVE  Covered(hook', shown', s, k, f)
    BY <1>14, <2>1, <2>3, <2>4 DEF MarksCovered
  <2>5. ASSUME NEW g \in Hooks, hook'[g].of = s, hook'[g].at \in {"truncate", "write"},
               NEW f \in hook'[g].found \ hook'[g].news
        PROVE  Covered(hook', shown', s, hook'[g].kind, f)
    <3>1. hook'[g] = hook[g]
      BY <2>2, <2>5 DEF Idle
    <3>2. hook[g].kind \in Kinds
      BY <2>5, <3>1 DEF Types, Placed, MarkPlaces, Idle
    <3>3. Covered(hook, shown, s, hook[g].kind, f)
      BY <2>1, <2>5, <3>1 DEF MarksCovered
    <3>4. QED
      BY <2>3, <3>1, <3>2, <3>3
  <2>6. QED
    BY <2>4, <2>5 DEF MarksCovered
<1>15. ASSUME NEW h \in Hooks, Output(h)
       PROVE  Backed'
  <2>1. At(h, "output") /\ cache' = cache /\ trouble' = trouble /\ hook' = [hook EXCEPT ![h] = Idle]
    BY <1>15 DEF Output, Exit, files
  <2>2. /\ hook[h] \in Running(head) /\ hook[h] # Idle
        /\ hook[h].of \in Sessions /\ hook[h].kind \in Kinds
    BY <2>1, AtWork DEF Placed, MarkPlaces
  <2>3. shown' = [shown EXCEPT ![hook[h].of][hook[h].kind] = @ \union hook[h].news]
    BY <1>15, <2>2, ShowsAll
  <2>4. /\ \A s \in Sessions, k \in Kinds : shown[s][k] \subseteq shown'[s][k]
        /\ hook[h].news \subseteq shown'[hook[h].of][hook[h].kind]
    BY <2>2, <2>3 DEF Types, TypeOK
  <2>5. QED
    BY <1>14, <2>1, <2>2, <2>4
<1>16. ASSUME NEW h \in Hooks, Kill(h)
       PROVE  Backed'
  <2>1. /\ ~At(h, "idle") /\ hook' = [hook EXCEPT ![h] = Idle]
        /\ cache' = cache /\ shown' = shown
    BY <1>16 DEF Kill, Exit, files
  <2>2. hook[h] # Idle
    BY <2>1 DEF At, Idle
  <2>3. hook[h].of \in Sessions
    BY <2>2 DEF Types, TypeOK
  <2>4. /\ "killed" \in trouble'[hook[h].of]
        /\ \A s \in Sessions \ {hook[h].of} : trouble'[s] = trouble[s]
    BY <1>16, <2>3 DEF Kill, Types, TypeOK
  <2>5. QED
    BY <1>14, <2>1, <2>2, <2>4
<1>17. ASSUME hook' = hook, cache' = cache, history' = history
       PROVE  Backed'
  BY <1>17 DEF Backed, MarksCovered, Covered, history
<1>18. ASSUME NEW f \in Files, ChangeFile(f) \/ Commit(f) \/ Assess(f)
       PROVE  Backed'
  BY <1>17, <1>18 DEF ChangeFile, Commit, Assess, files
<1>19. CASE UNCHANGED vars
  BY <1>17, <1>19 DEF vars, files
<1>20. QED
  BY <1>1, <1>2, <1>3, <1>5, <1>6, <1>7, <1>8, <1>9, <1>10, <1>11, <1>12, <1>13, <1>15,
     <1>16, <1>18, <1>19 DEF Next, Proceed

\* At rest, the cache of a session is exactly what the session was told.
CachesAreTrue ==
    \A s \in Sessions, k \in Kinds :
        /\ trouble[s] = {}
        /\ \A h \in Hooks : hook[h].of = s /\ hook[h].kind = k => hook[h].at \notin {"write", "output"}
        => cache[s][k] = shown[s][k]

\* The caches of post_tool_use_nudge.py and session_end_backstop.py are written before the
\* output and without a lock.  Yet unless a hook was killed or two of them overlapped, what
\* is marked was mentioned, so that nothing is suppressed unsaid, and what was mentioned is
\* marked: if a reminder has room for all the files there are.
THEOREM NothingMarkedUnsaid == AllFit => (Spec => []CachesAreTrue)
<1> SUFFICES ASSUME AllFit
             PROVE  Spec => []CachesAreTrue
  OBVIOUS
<1>1. Init => Backed
  BY DEF Init, Backed, MarksCovered, Covered, Idle
<1>2. Types /\ Backed /\ [Next]_vars => Backed'
  BY BackedStep
<1>3. Types /\ Untorn /\ Backed => CachesAreTrue
  <2> SUFFICES ASSUME Types, Untorn, Backed, NEW s \in Sessions, NEW k \in Kinds,
                      trouble[s] = {},
                      \A h \in Hooks : hook[h].of = s /\ hook[h].kind = k =>
                         hook[h].at \notin {"write", "output"}
               PROVE  cache[s][k] = shown[s][k]
    BY DEF CachesAreTrue
  <2>1. Orderly(s, hook, cache[s], shown[s]) /\ MarksCovered(s, hook, cache, shown)
    BY DEF Untorn, Backed
  <2>2. shown[s][k] \subseteq cache[s][k]
    BY <2>1 DEF Orderly
  <2>3. cache[s][k] \subseteq shown[s][k]
    BY <2>1 DEF MarksCovered, Covered
  <2>4. QED
    BY <2>2, <2>3
<1>4. QED
  BY <1>1, <1>2, <1>3, Invariant, PTL DEF Spec
=============================================================================
