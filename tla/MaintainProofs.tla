--------------------------- MODULE MaintainProofs ---------------------------
(* Theorems about Maintain, for any hosts, publishers, commits, documents   *)
(* and page sizes.                                                          *)
EXTENDS Maintain, KeysProofs, FiniteSetTheorems

LEMMA Bounds ==
    /\ NoCommit \notin Commits /\ Local \subseteq Commits
    /\ MaxDocs \in Nat /\ PageSize \in Nat \ {0} /\ MaxPages \in Nat
BY CommitsAssumption, ScenariosAssumption

USE Bounds

-----------------------------------------------------------------------------
(* Commits and what they reach. *)

LEMMA RankIsNat ==
    ASSUME NEW c \in Commits
    PROVE  Cardinality(Reaches[c]) \in Nat
BY CommitsAssumption, FS_CardinalityType

LEMMA ReachingMore ==
    ASSUME NEW c \in Commits, NEW d \in Reaches[c]
    PROVE  Cardinality(Reaches[d]) <= Cardinality(Reaches[c])
BY CommitsAssumption, FS_Subset

LEMMA CloserRanksHigher ==
    ASSUME NEW r \in Commits, NEW c \in Reaches[r], NEW d \in Reaches[r], Behind(c, r) < Behind(d, r)
    PROVE  Cardinality(Reaches[c]) > Cardinality(Reaches[d])
<1>1. ASSUME NEW e \in Reaches[r]
      PROVE  /\ Behind(e, r) = Cardinality(Reaches[r]) - Cardinality(Reaches[e])
             /\ Cardinality(Reaches[e]) \in Nat
  <2>1. e \in Commits /\ IsFiniteSet(Reaches[r]) /\ Reaches[e] \subseteq Reaches[r]
    BY CommitsAssumption
  <2>2. Reaches[r] \cap Reaches[e] = Reaches[e]
    BY <2>1
  <2>3. QED
    BY <2>1, <2>2, FS_Difference, RankIsNat DEF Behind
<1>2. Cardinality(Reaches[r]) \in Nat
  BY RankIsNat
<1>3. QED
  BY <1>1, <1>2

-----------------------------------------------------------------------------
(* Documents and pages. *)

LEMMA WithoutOne ==
    ASSUME docs \in Seq(Documents), NEW d,
           \A i, j \in DOMAIN docs : docs[i] = docs[j] => i = j
    PROVE  /\ Without(d) \in Seq(Documents)
           /\ {Without(d)[i] : i \in DOMAIN Without(d)} = Held \ {d}
           /\ \A i, j \in DOMAIN Without(d) : Without(d)[i] = Without(d)[j] => i = j
<1>1. CASE d \notin Held
  BY <1>1 DEF Without, Held
<1>2. CASE d \in Held
  <2> DEFINE k == CHOOSE i \in DOMAIN docs : docs[i] = d
             rest == [i \in 1 .. Len(docs) - 1 |-> IF i < k THEN docs[i] ELSE docs[i + 1]]
  <2>1. k \in 1 .. Len(docs) /\ docs[k] = d /\ Len(docs) \in Nat
    BY <1>2 DEF Held
  <2>2. Without(d) = RemoveAt(docs, k)
    BY <1>2 DEF Without
  <2> HIDE DEF k
  <2>3. RemoveAt(docs, k) = rest
    <3> DEFINE a == SubSeq(docs, 1, k - 1)
               b == SubSeq(docs, k + 1, Len(docs))
    <3>1. /\ a \in Seq(Documents) /\ Len(a) = k - 1
          /\ \A i \in 1 .. k - 1 : a[i] = docs[i]
      <4>1. /\ 1 \in Int /\ k - 1 \in Int /\ (k - 1) - 1 + 1 = k - 1
            /\ \A i \in 1 .. k - 1 : docs[i] \in Documents /\ 1 + i - 1 = i
        BY <2>1
      <4>2. QED
        BY <2>1, <4>1, SubSeqProperties
    <3>2. /\ b \in Seq(Documents) /\ Len(b) = Len(docs) - k
          /\ \A i \in 1 .. Len(docs) - k : b[i] = docs[k + i]
      <4>1. /\ k + 1 \in Int /\ Len(docs) \in Int /\ Len(docs) - (k + 1) + 1 = Len(docs) - k
            /\ \A i \in k + 1 .. Len(docs) : docs[i] \in Documents
            /\ \A i \in 1 .. Len(docs) - k : k + 1 + i - 1 = k + i
        BY <2>1
      <4>2. QED
        <5>1. /\ b \in Seq(Documents)
              /\ Len(b) = IF k + 1 <= Len(docs) THEN Len(docs) - (k + 1) + 1 ELSE 0
              /\ \A i \in 1 .. Len(docs) - (k + 1) + 1 : b[i] = docs[k + 1 + i - 1]
          BY <4>1, SubSeqProperties
        <5>2. Len(b) = Len(docs) - k
          BY <2>1, <5>1
        <5>3. QED
          BY <4>1, <5>1, <5>2
    <3> HIDE DEF a, b
    <3>3. /\ Len(a \o b) = Len(docs) - 1 /\ a \o b \in Seq(Documents)
          /\ \A i \in 1 .. Len(docs) - 1 : (a \o b)[i] = IF i <= k - 1 THEN a[i] ELSE b[i - (k - 1)]
      BY <2>1, <3>1, <3>2, ConcatProperties
    <3>4. \A i \in 1 .. Len(docs) - 1 : (a \o b)[i] = rest[i]
      <4> TAKE i \in 1 .. Len(docs) - 1
      <4>1. CASE i < k
        BY <2>1, <3>1, <3>3, <4>1
      <4>2. CASE ~(i < k)
        <5>1. i - (k - 1) \in 1 .. Len(docs) - k /\ k + (i - (k - 1)) = i + 1 /\ ~(i <= k - 1)
          BY <2>1, <4>2
        <5>2. b[i - (k - 1)] = docs[i + 1]
          BY <3>2, <5>1
        <5>3. (a \o b)[i] = b[i - (k - 1)]
          BY <3>3, <5>1
        <5>4. QED
          BY <4>2, <5>2, <5>3
      <4>3. QED
        BY <4>1, <4>2
    <3>5. a \o b = rest
      <4>1. rest \in Seq(Documents) /\ Len(rest) = Len(docs) - 1
        BY <2>1
      <4> HIDE DEF rest
      <4>2. QED
        BY <3>3, <3>4, <4>1, SeqEqual
    <3>6. QED
      BY <3>5 DEF RemoveAt, a, b
  <2>4. rest \in Seq(Documents) /\ DOMAIN rest = 1 .. Len(docs) - 1
    BY <2>1
  <2>5. \A i, j \in DOMAIN rest : rest[i] = rest[j] => i = j
    BY <2>1
  <2>6. ASSUME NEW e \in Held \ {d}
        PROVE  \E i \in DOMAIN rest : rest[i] = e
    <3>1. PICK i \in 1 .. Len(docs) : docs[i] = e
      BY DEF Held
    <3>2. i # k
      BY <2>1, <3>1
    <3>3. CASE i < k
      BY <2>1, <3>1, <3>3
    <3>4. CASE i > k
      <4>1. i - 1 \in 1 .. Len(docs) - 1 /\ ~(i - 1 < k) /\ i - 1 + 1 = i
        BY <2>1, <3>4
      <4>2. QED
        BY <3>1, <4>1
    <3>5. QED
      BY <2>1, <3>2, <3>3, <3>4
  <2>7. ASSUME NEW i \in DOMAIN rest
        PROVE  rest[i] \in Held \ {d}
    BY <2>1 DEF Held
  <2>8. QED
    BY <2>2, <2>3, <2>4, <2>5, <2>6, <2>7
<1>3. QED
  BY <1>1, <1>2

LEMMA PageOf ==
    ASSUME docs \in Seq(Documents), server \in {"honours", "ignores"}, NEW from \in Nat
    PROVE  /\ On(Page(from)) \subseteq Held /\ Len(Page(from)) \in Nat
           /\ server = "ignores" => Page(from) = docs
           /\ server = "honours" =>
                 /\ Len(Page(from)) <= PageSize
                 /\ On(Page(from)) = {docs[i] : i \in from + 1 .. Min2(from + PageSize, Len(docs))}
                 /\ Len(Page(from)) < PageSize => Len(docs) < from + PageSize
                 /\ Len(Page(from)) >= PageSize => Len(docs) >= from + PageSize
<1>1. CASE server = "ignores"
  BY <1>1 DEF Page, On, Held
<1>2. CASE server = "honours"
  <2> DEFINE n == Min2(from + PageSize, Len(docs))
             page == SubSeq(docs, from + 1, n)
  <2>1. /\ Len(docs) \in Nat /\ from + 1 \in Int /\ n \in Int /\ n <= Len(docs)
        /\ n <= from + PageSize /\ (n = Len(docs) \/ n = from + PageSize)
    BY DEF Min2
  <2>2. Page(from) = page
    BY <1>2 DEF Page
  <2> HIDE DEF n
  <2>3. \A i \in from + 1 .. n : docs[i] \in Documents
    BY <2>1
  <2>4. /\ page \in Seq(Documents)
        /\ Len(page) = IF from + 1 <= n THEN n - (from + 1) + 1 ELSE 0
        /\ \A i \in 1 .. n - (from + 1) + 1 : page[i] = docs[from + 1 + i - 1]
    BY <2>1, <2>3, SubSeqProperties
  <2> HIDE DEF page
  <2>5. /\ Len(page) = (IF from < n THEN n - from ELSE 0) /\ DOMAIN page = 1 .. Len(page)
        /\ \A i \in 1 .. n - from : page[i] = docs[from + i]
    <3>1. /\ n - (from + 1) + 1 = n - from /\ (from + 1 <= n <=> from < n)
          /\ \A i \in 1 .. n - from : from + 1 + i - 1 = from + i
      BY <2>1
    <3>2. \A i \in 1 .. n - from : page[i] = docs[from + i]
      BY <2>4, <3>1
    <3>3. DOMAIN page = 1 .. Len(page)
      BY <2>4
    <3>4. QED
      BY <2>4, <3>1, <3>2, <3>3
  <2>6. On(page) = {docs[i] : i \in from + 1 .. n}
    <3>1. ASSUME NEW i \in DOMAIN page
          PROVE  from + i \in from + 1 .. n /\ page[i] = docs[from + i]
      BY <2>1, <2>5
    <3>2. ASSUME NEW i \in from + 1 .. n
          PROVE  i - from \in DOMAIN page /\ page[i - from] = docs[i]
      <4>1. i - from \in 1 .. n - from /\ from + (i - from) = i
        BY <2>1
      <4>2. QED
        BY <2>1, <2>5, <4>1
    <3>3. QED
      BY <3>1, <3>2 DEF On
  <2>7. /\ Len(page) < PageSize => Len(docs) < from + PageSize
        /\ Len(page) >= PageSize => Len(docs) >= from + PageSize
    BY <2>1, <2>5
  <2>8. On(page) \subseteq Held
    BY <2>1, <2>6 DEF Held
  <2>9. On(page) = {docs[i] : i \in from + 1 .. Min2(from + PageSize, Len(docs))}
    BY <2>6 DEF n
  <2>10. Len(page) \in Nat /\ Len(page) <= PageSize
    BY <2>1, <2>5
  <2>11. QED
    BY <1>2, <2>2, <2>7, <2>8, <2>9, <2>10
<1>3. QED
  BY <1>1, <1>2

-----------------------------------------------------------------------------
(* The invariant behind KeyNeverLost.  A document beats another of its key if its commit  *)
(* has come farther, or as far in a later upload.  What is deleted was beaten by a document *)
(* that is or was in SAG, so that the best document of each key is never deleted.           *)

Beats(y, x, f) ==
    /\ EncodeKey(y.path, f) = EncodeKey(x.path, f)
    /\ Rank(y) > Rank(x) \/ (Rank(y) = Rank(x) /\ y.id > x.id)

Orderly ==
    /\ \A i, j \in DOMAIN docs : docs[i] = docs[j] => i = j
    /\ \A d \in ever : d.id <= lastId

\* Where merged commits are required, all that was published has been reached by the head.
Reached ==
    require = "merged" =>
        /\ \A d \in ever : d.commit \in Reaches[head] \union {NoCommit}
        /\ \A p \in Publishers : push[p].at = "upload" => push[p].commit \in Reaches[head]

Replacing ==
    \A p \in Publishers :
        /\ push[p].at = "upload" =>
              /\ push[p].path \in Paths /\ push[p].commit \in Commits
              /\ push[p].old # NoDoc =>
                    /\ push[p].old \in ever
                    /\ EncodeKey(push[p].old.path, format) = EncodeKey(push[p].path, format)
                    /\ \/ StaleCheckouts \/ push[p].old.commit = NoCommit
                       \/ push[p].old.commit \in Reaches[push[p].commit]
        /\ push[p].at = "delete" /\ push[p].old # NoDoc /\ ~StaleCheckouts =>
              \E y \in ever : Beats(y, push[p].old, format)

Pairing ==
    \A m \in Maintainers : pc[m] \in {"remove", "audit"} =>
        /\ pair[m] \in [winner : ever, loser : ever]
        /\ require = "merged" => Beats(pair[m].winner, pair[m].loser, format)

Kept ==
    require = "merged" /\ ~StaleCheckouts =>
        \A x \in ever : \E d \in Held : d = x \/ Beats(d, x, format)

KInv == TypeOK /\ Orderly /\ Reached /\ Replacing /\ Pairing /\ Kept

LEMMA RankType ==
    ASSUME NEW d \in Documents
    PROVE  Rank(d) \in Nat /\ d.id \in Nat /\ d.commit \in Commits \union {NoCommit}
<1>1. d.id \in 1 .. MaxDocs /\ d.commit \in Commits \union {NoCommit}
  BY DEF Documents
<1>2. QED
  BY <1>1, RankIsNat DEF Rank

LEMMA BeatsTransitive ==
    ASSUME NEW f, NEW x \in Documents, NEW y \in Documents, NEW z \in Documents,
           Beats(z, y, f), Beats(y, x, f)
    PROVE  Beats(z, x, f) /\ z # x
BY RankType DEF Beats

LEMMA BeatsAnother ==
    ASSUME NEW f, NEW x \in Documents, NEW y \in Documents, Beats(y, x, f)
    PROVE  y # x
BY RankType DEF Beats

\* Deleting a beaten document loses no key.
LEMMA DeletionKeeps ==
    ASSUME TypeOK, Kept, NEW d, Held' = Held \ {d},
           ever' = ever, format' = format, require' = require,
           d \in Held /\ require = "merged" /\ ~StaleCheckouts => \E y \in ever : Beats(y, d, format)
    PROVE  Kept'
<1> SUFFICES ASSUME require = "merged", ~StaleCheckouts, NEW x \in ever
             PROVE  \E e \in Held \ {d} : e = x \/ Beats(e, x, format)
  BY DEF Kept
<1>1. ever \subseteq Documents /\ Held \subseteq ever
  BY DEF TypeOK
<1>2. PICK e \in Held : e = x \/ Beats(e, x, format)
  BY DEF Kept
<1>3. CASE e = d
  <2>1. PICK y \in ever : Beats(y, d, format)
    BY <1>2, <1>3
  <2>2. PICK z \in Held : z = y \/ Beats(z, y, format)
    BY DEF Kept
  <2>3. Beats(z, d, format)
    BY <1>1, <1>2, <1>3, <2>1, <2>2, BeatsTransitive
  <2>4. z # d /\ (z = x \/ Beats(z, x, format))
    BY <1>1, <1>2, <1>3, <2>3, BeatsTransitive, BeatsAnother
  <2>5. QED
    BY <2>4
<1>4. QED
  BY <1>2, <1>3

-----------------------------------------------------------------------------
(* Types. *)

Surroundings == <<require, format, server, aged, head, lastId, docs, ever, push>>

\* The run of m after a step.
RunOK ==
    /\ job' \in [Maintainers -> Jobs] /\ pc' \in [Maintainers -> Places]
    /\ offset' \in [Maintainers -> Nat] /\ listing' \in [Maintainers -> SUBSET ever]
    /\ suspect' \in [Maintainers -> BOOLEAN]
    /\ todo' \in [Maintainers -> SUBSET {KeyOf(d.path) : d \in ever}]
    /\ pair' \in [Maintainers -> [winner : ever, loser : ever] \union {NoPair}]
    /\ report' \in [Maintainers -> SUBSET ever] /\ ref' \in [Maintainers -> Commits]
    /\ heads' \in [Maintainers -> SUBSET Commits]
    /\ audit' \subseteq ever \X ever /\ intact' \in [Maintainers -> SUBSET ever]

LEMMA RunTypes ==
    ASSUME TypeOK, UNCHANGED Surroundings, duty' = duty, RunOK
    PROVE  TypeOK'
<1>1. {KeyOf(d.path) : d \in ever}' = {KeyOf(d.path) : d \in ever}
  BY DEF Surroundings, KeyOf
<1>2. Held' = Held
  BY DEF Held, Surroundings
<1>3. QED
  BY <1>1, <1>2 DEF TypeOK, Surroundings, RunOK

LEMMA FetchedTypes ==
    ASSUME TypeOK, NEW m \in Maintainers, Fetched(m) \/ UNCHANGED <<ref, heads>>
    PROVE  ref' \in [Maintainers -> Commits] /\ heads' \in [Maintainers -> SUBSET Commits]
<1>1. head \in Commits /\ {head} \in SUBSET Commits
  BY DEF TypeOK
<1>2. ref \in [Maintainers -> Commits] /\ heads \in [Maintainers -> SUBSET Commits]
  BY DEF TypeOK
<1>3. CASE UNCHANGED <<ref, heads>>
  BY <1>2, <1>3
<1>4. CASE Fetched(m)
  <2> DEFINE now == {head}
  <2>1. ref' = [ref EXCEPT ![m] = head] /\ heads' = [heads EXCEPT ![m] = now]
    BY <1>4 DEF Fetched
  <2> HIDE DEF now
  <2>2. now \in SUBSET Commits
    BY <1>1 DEF now
  <2>3. QED
    BY <1>1, <1>2, <2>1, <2>2
<1>5. QED
  BY <1>3, <1>4

LEMMA ListingTypes ==
    ASSUME TypeOK, NEW m \in Maintainers,
           Begin(m) \/ Fetch(m) \/ FirstPage(m) \/ SecondPage(m) \/ NextPage(m)
    PROVE  TypeOK'
<1>0. /\ docs \in Seq(Documents) /\ server \in {"honours", "ignores"}
      /\ UNCHANGED Surroundings /\ duty' = duty
      /\ duty[m] \subseteq Jobs /\ head \in Commits /\ ref[m] \in Commits /\ Held \subseteq ever
      /\ listing[m] \subseteq ever /\ offset[m] \in Nat
  BY DEF TypeOK, Begin, Fetch, FirstPage, SecondPage, NextPage, sag, Surroundings
<1>1. CASE Begin(m)
  <2>1. job' \in [Maintainers -> Jobs] /\ pc' \in [Maintainers -> Places]
    BY <1>0, <1>1 DEF Begin, TypeOK, Places
  <2>2. QED
    BY <1>0, <1>1, <2>1, RunTypes DEF RunOK, Begin, TypeOK
<1>2. CASE Fetch(m)
  <2>1. /\ ref' \in [Maintainers -> Commits] /\ pc' \in [Maintainers -> Places]
        /\ heads' \in [Maintainers -> SUBSET Commits]
    BY <1>0, <1>2, FetchedTypes DEF Fetch, TypeOK, Places
  <2>2. QED
    BY <1>0, <1>2, <2>1, RunTypes DEF RunOK, Fetch, TypeOK
<1>3. CASE FirstPage(m)
  <2>1. On(Page(0)) \subseteq ever
    BY <1>0, PageOf
  <2>2. pc' \in [Maintainers -> Places]
    BY <1>3 DEF FirstPage, TypeOK, Places
  <2>3. listing' \in [Maintainers -> SUBSET ever] /\ intact' \in [Maintainers -> SUBSET ever]
    BY <1>0, <1>3, <2>1 DEF FirstPage, TypeOK
  <2>4. QED
    BY <1>0, <1>3, <2>2, <2>3, RunTypes DEF RunOK, FirstPage, TypeOK
<1>4. CASE SecondPage(m)
  <2> DEFINE page == On(Page(PageSize))
  <2>1. page \subseteq ever
    BY <1>0, PageOf
  <2>2. listing' = [listing EXCEPT ![m] = listing[m] \union page]
    BY <1>4 DEF SecondPage
  <2>3. pc' \in [Maintainers -> Places] /\ offset' \in [Maintainers -> Nat]
    <3>1. \/ pc' = [pc EXCEPT ![m] = "listed"] /\ offset' = offset
          \/ pc' = [pc EXCEPT ![m] = "next"] /\ offset' = [offset EXCEPT ![m] = 2 * PageSize]
      BY <1>4 DEF SecondPage
    <3>2. 2 * PageSize \in Nat
      OBVIOUS
    <3>3. pc' \in [Maintainers -> Places]
      BY <3>1 DEF TypeOK, Places
    <3>4. QED
      BY <3>1, <3>2, <3>3 DEF TypeOK
  <2> HIDE DEF page
  <2>4. listing' \in [Maintainers -> SUBSET ever]
    BY <1>0, <2>1, <2>2 DEF TypeOK
  <2>5. QED
    BY <1>0, <1>4, <2>3, <2>4, RunTypes DEF RunOK, SecondPage, TypeOK
<1>5. CASE NextPage(m)
  <2> DEFINE page == IF offset[m] = (MaxPages + 2) * PageSize THEN <<>> ELSE Page(offset[m])
             tooMany == offset[m] = (MaxPages + 2) * PageSize
             noNews == page # <<>> /\ On(page) \subseteq listing[m]
             s == tooMany \/ noNews
  <2>1. On(page) \subseteq ever
    <3>1. On(<<>>) = {}
      BY DEF On
    <3>2. QED
      BY <1>0, <3>1, PageOf
  <2>2. /\ listing' = [listing EXCEPT ![m] = listing[m] \union On(page)]
        /\ suspect' = [suspect EXCEPT ![m] = s] /\ s \in BOOLEAN
        /\ IF s \/ Len(page) < PageSize
           THEN pc' = [pc EXCEPT ![m] = "listed"] /\ UNCHANGED offset
           ELSE offset' = [offset EXCEPT ![m] = @ + PageSize] /\ UNCHANGED pc
    BY <1>5 DEF NextPage
  <2> HIDE DEF page, tooMany, noNews, s
  <2>3. pc' \in [Maintainers -> Places]
    BY <2>2 DEF TypeOK, Places
  <2>4. offset' \in [Maintainers -> Nat]
    <3>1. offset' = offset \/ offset' = [offset EXCEPT ![m] = offset[m] + PageSize]
      BY <2>2
    <3>2. offset[m] + PageSize \in Nat
      BY <1>0
    <3>3. QED
      BY <3>1, <3>2 DEF TypeOK
  <2>5. suspect' \in [Maintainers -> BOOLEAN]
    BY <2>2 DEF TypeOK
  <2>6. listing' \in [Maintainers -> SUBSET ever]
    BY <1>0, <2>1, <2>2 DEF TypeOK
  <2>7. QED
    BY <1>0, <1>5, <2>3, <2>4, <2>5, <2>6, RunTypes DEF RunOK, NextPage, TypeOK
<1>6. QED
  BY <1>1, <1>2, <1>3, <1>4, <1>5

LEMMA CloseTypes ==
    ASSUME TypeOK, NEW m \in Maintainers, Close(m)
    PROVE  /\ job' \in [Maintainers -> Jobs] /\ pc' \in [Maintainers -> Places]
           /\ offset' \in [Maintainers -> Nat] /\ listing' \in [Maintainers -> SUBSET ever]
           /\ suspect' \in [Maintainers -> BOOLEAN]
           /\ todo' \in [Maintainers -> SUBSET {KeyOf(d.path) : d \in ever}]
           /\ pair' \in [Maintainers -> [winner : ever, loser : ever] \union {NoPair}]
           /\ intact' \in [Maintainers -> SUBSET ever]
BY DEF TypeOK, Close, Jobs, Places

LEMMA DecidingTypes ==
    ASSUME TypeOK, Pairing, NEW m \in Maintainers,
           \/ Group(m) \/ TieBreak(m) \/ AppendAudit(m) \/ Finish(m) \/ Abort(m) \/ Report(m)
    PROVE  TypeOK'
<1>0. /\ UNCHANGED Surroundings /\ duty' = duty /\ head \in Commits
      /\ listing[m] \subseteq ever /\ Held \subseteq ever
  BY DEF TypeOK, Group, TieBreak, AppendAudit, Finish, Abort, Report, sag, Surroundings
<1>1. CASE Group(m)
  <2>1. CASE Close(m)
    BY <1>0, <1>1, <2>1, CloseTypes, RunTypes DEF RunOK, Group, TypeOK
  <2>2. CASE ~Close(m)
    <3>1. PICK copied \in SUBSET ever :
              /\ listing' = [listing EXCEPT ![m] = copied]
              /\ todo' = [todo EXCEPT ![m] = {KeyOf(d.path) : d \in copied}]
      BY <1>0, <1>1, <2>2 DEF Group
    <3>2. /\ pc' = [pc EXCEPT ![m] = "group"] /\ offset' = [offset EXCEPT ![m] = 0]
          /\ intact' = [intact EXCEPT ![m] = {}] /\ UNCHANGED <<job, suspect, pair, ref, heads, report, audit>>
      BY <1>1, <2>2 DEF Group
    <3>3. {KeyOf(d.path) : d \in copied} \in SUBSET {KeyOf(d.path) : d \in ever}
      OBVIOUS
    <3>4. /\ listing' \in [Maintainers -> SUBSET ever]
          /\ todo' \in [Maintainers -> SUBSET {KeyOf(d.path) : d \in ever}]
      BY <3>1, <3>3 DEF TypeOK
    <3>5. /\ pc' \in [Maintainers -> Places] /\ offset' \in [Maintainers -> Nat]
          /\ intact' \in [Maintainers -> SUBSET ever]
      BY <3>2 DEF TypeOK, Places
    <3>6. QED
      BY <1>0, <3>2, <3>4, <3>5, RunTypes DEF RunOK, TypeOK
  <2>3. QED
    BY <2>1, <2>2
<1>2. ASSUME NEW key, NextKey(m, key)
      PROVE  /\ todo' \in [Maintainers -> SUBSET {KeyOf(d.path) : d \in ever}]
             /\ pair' \in [Maintainers -> [winner : ever, loser : ever] \union {NoPair}]
             /\ pc' \in [Maintainers -> Places]
  BY <1>2 DEF TypeOK, NextKey, Places
<1>3. CASE TieBreak(m)
  <2>1. /\ UNCHANGED <<job, offset, listing, suspect, report, audit, intact>>
        /\ Fetched(m) \/ UNCHANGED <<ref, heads>>
    BY <1>3 DEF TieBreak
  <2>2. ref' \in [Maintainers -> Commits] /\ heads' \in [Maintainers -> SUBSET Commits]
    BY <2>1, FetchedTypes
  <2>3. CASE \E key \in todo[m] : NextKey(m, key)
    BY <1>0, <1>2, <2>1, <2>2, <2>3, RunTypes DEF RunOK, TypeOK
  <2>4. CASE ~\E key \in todo[m] : NextKey(m, key)
    <3>1. PICK a \in ever, b \in ever :
              pair' = [pair EXCEPT ![m] = [winner |-> a, loser |-> b]]
      BY <1>0, <1>3, <2>4 DEF TieBreak, Copies
    <3>2. pc' = [pc EXCEPT ![m] = "remove"] /\ todo' = todo
      BY <1>3, <2>4 DEF TieBreak
    <3>3. pair' \in [Maintainers -> [winner : ever, loser : ever] \union {NoPair}]
      BY <3>1 DEF TypeOK
    <3>4. pc' \in [Maintainers -> Places]
      BY <3>2 DEF TypeOK, Places
    <3>5. QED
      BY <1>0, <2>1, <2>2, <3>2, <3>3, <3>4, RunTypes DEF RunOK, TypeOK
  <2>5. QED
    BY <2>3, <2>4
<1>4. CASE AppendAudit(m)
  <2>1. pair[m].winner \in ever /\ pair[m].loser \in ever
    BY <1>4 DEF AppendAudit, Pairing
  <2>2. audit' \subseteq ever \X ever
    BY <1>4, <2>1 DEF AppendAudit, TypeOK
  <2>3. QED
    BY <1>0, <1>2, <1>4, <2>2, RunTypes DEF RunOK, TypeOK, AppendAudit
<1>5. CASE Finish(m) \/ Abort(m)
  BY <1>0, <1>5, CloseTypes, RunTypes DEF RunOK, TypeOK, Finish, Abort
<1>6. CASE Report(m)
  <2> DEFINE found == {d \in listing[m] : IF job[m] = "orphans" THEN Orphan(d, ref[m]) ELSE Stale(d, ref[m])}
  <2>1. found \subseteq ever
    BY <1>0
  <2>2. report' = [report EXCEPT ![m] = found]
    BY <1>6 DEF Report
  <2> HIDE DEF found
  <2>3. /\ report' \in [Maintainers -> SUBSET ever] /\ pc' \in [Maintainers -> Places]
    BY <1>6, <2>1, <2>2 DEF TypeOK, Places, Report
  <2>4. /\ listing' \in [Maintainers -> SUBSET ever] /\ offset' \in [Maintainers -> Nat]
        /\ suspect' \in [Maintainers -> BOOLEAN] /\ intact' \in [Maintainers -> SUBSET ever]
    BY <1>6 DEF TypeOK, Report
  <2>5. QED
    BY <1>0, <1>6, <2>3, <2>4, RunTypes DEF RunOK, TypeOK, Report
<1>7. QED
  BY <1>1, <1>3, <1>4, <1>5, <1>6

\* A step that deletes a document, for good.
LEMMA DeletionTypes ==
    ASSUME TypeOK, Orderly, NEW d, docs' = Without(d),
           UNCHANGED <<require, format, server, lastId, aged, ever, head, ref, heads, run, audit>>
               \/ \E m \in Maintainers : RemoveLoser(m),
           intact' = [m \in Maintainers |-> {}], push' \in [Publishers -> Pushes]
    PROVE  TypeOK' /\ Orderly' /\ Held' = Held \ {d}
<1>1. docs \in Seq(Documents) /\ Held \subseteq ever
  BY DEF TypeOK
<1>2. /\ docs' \in Seq(Documents) /\ Held' = Held \ {d}
      /\ \A i, j \in DOMAIN docs' : docs'[i] = docs'[j] => i = j
  <2>1. /\ Without(d) \in Seq(Documents)
        /\ {Without(d)[i] : i \in DOMAIN Without(d)} = Held \ {d}
        /\ \A i, j \in DOMAIN Without(d) : Without(d)[i] = Without(d)[j] => i = j
    BY <1>1, WithoutOne DEF Orderly
  <2>2. Held' = {docs'[i] : i \in DOMAIN docs'}
    BY DEF Held
  <2>3. QED
    BY <2>1, <2>2
<1>3. /\ UNCHANGED <<require, format, server, lastId, aged, ever, head, ref, heads, audit>>
      /\ UNCHANGED <<duty, job, offset, listing, suspect, todo, pair, report>>
      /\ pc' \in [Maintainers -> Places]
  BY DEF RemoveLoser, run, TypeOK, Places
<1>4. {KeyOf(e.path) : e \in ever}' = {KeyOf(e.path) : e \in ever}
  BY <1>3 DEF KeyOf
<1>5. TypeOK'
  BY <1>1, <1>2, <1>3, <1>4 DEF TypeOK
<1>6. Orderly'
  BY <1>2, <1>3 DEF Orderly
<1>7. QED
  BY <1>2, <1>5, <1>6

-----------------------------------------------------------------------------
(* Every action preserves the invariant. *)

LEMMA RunKeeps ==
    ASSUME KInv, TypeOK', UNCHANGED Surroundings, Pairing'
    PROVE  KInv'
<1>1. Held' = Held
  BY DEF Held, Surroundings
<1>2. Orderly' /\ Reached' /\ Replacing'
  BY DEF KInv, Orderly, Reached, Replacing, Surroundings
<1>3. Kept'
  BY <1>1 DEF KInv, Kept, Surroundings
<1>4. QED
  BY <1>2, <1>3 DEF KInv

LEMMA PairingStays ==
    ASSUME Pairing, TypeOK, UNCHANGED <<require, format>>, ever \subseteq ever', NEW m \in Maintainers,
           NEW place \in Places \ {"remove", "audit"},
           pc' = [pc EXCEPT ![m] = place],
           \A n \in Maintainers \ {m} : pair'[n] = pair[n]
    PROVE  Pairing'
<1>1. ASSUME NEW n \in Maintainers, pc'[n] \in {"remove", "audit"}
      PROVE  pc[n] \in {"remove", "audit"} /\ pair'[n] = pair[n]
  BY <1>1 DEF TypeOK
<1>2. ASSUME NEW n \in Maintainers, pc'[n] \in {"remove", "audit"}
      PROVE  pair'[n] \in [winner : ever', loser : ever']
  BY <1>1, <1>2 DEF Pairing
<1>3. QED
  BY <1>1, <1>2 DEF Pairing

LEMMA PairingSame ==
    ASSUME Pairing, UNCHANGED <<require, format, pc, pair>>, ever \subseteq ever'
    PROVE  Pairing'
<1>1. \A n \in Maintainers : pc[n] \in {"remove", "audit"} => pair[n] \in [winner : ever', loser : ever']
  BY DEF Pairing
<1>2. QED
  BY <1>1 DEF Pairing

LEMMA ListingKeeps ==
    ASSUME KInv, NEW m \in Maintainers,
           Begin(m) \/ Fetch(m) \/ FirstPage(m) \/ SecondPage(m) \/ NextPage(m)
    PROVE  KInv'
<1>1. TypeOK'
  BY ListingTypes DEF KInv
<1>2. UNCHANGED Surroundings /\ pair' = pair
  BY DEF Begin, Fetch, FirstPage, SecondPage, NextPage, sag, Surroundings
<1>3. \/ pc' = pc
      \/ \E place \in {"first", "fetch", "listed", "second", "next"} : pc' = [pc EXCEPT ![m] = place]
  BY DEF Begin, Fetch, FirstPage, SecondPage, NextPage
<1>4. Pairing'
  BY <1>2, <1>3, PairingStays, PairingSame DEF KInv, Surroundings, Places
<1>5. QED
  BY <1>1, <1>2, <1>4, RunKeeps

\* The winner has come farther, if all that was published is merged.
LEMMA WinnersBeat ==
    ASSUME KInv, NEW a \in ever, NEW b \in ever, Wins(a, b, head), require = "merged",
           EncodeKey(a.path, format) = EncodeKey(b.path, format)
    PROVE  Rank(a) > Rank(b) /\ Beats(a, b, format)
<1>1. /\ a.commit \in Reaches[head] /\ b.commit \in Reaches[head] \union {NoCommit}
      /\ {a.commit, b.commit} \subseteq Reaches[head] \union Local
  BY DEF Wins, KInv, Reached
<1>2. head \in Commits /\ Reaches[head] \subseteq Commits
  BY CommitsAssumption DEF KInv, TypeOK
<1>3. b.commit \in Reaches[head] /\ Behind(a.commit, head) < Behind(b.commit, head)
  BY <1>1, <1>2 DEF Wins
<1>4. Cardinality(Reaches[a.commit]) > Cardinality(Reaches[b.commit])
  BY <1>1, <1>2, <1>3, CloserRanksHigher
<1>5. Rank(a) > Rank(b)
  BY <1>1, <1>2, <1>3, <1>4 DEF Rank
<1>6. QED
  BY <1>5 DEF Beats

LEMMA DecidingKeeps ==
    ASSUME KInv, NEW m \in Maintainers,
           \/ Group(m) \/ TieBreak(m) \/ AppendAudit(m) \/ Finish(m) \/ Abort(m) \/ Report(m)
    PROVE  KInv'
<1>1. TypeOK'
  BY DecidingTypes DEF KInv
<1>2. UNCHANGED Surroundings /\ TypeOK /\ Pairing
  BY DEF Group, TieBreak, AppendAudit, Finish, Abort, Report, sag, Surroundings, KInv
<1>3. ASSUME NEW place \in {"idle", "group", "reported"}, pc' = [pc EXCEPT ![m] = place],
             pair' = pair \/ pair' = [pair EXCEPT ![m] = NoPair]
      PROVE  Pairing'
  <2>1. \A n \in Maintainers \ {m} : pair'[n] = pair[n]
    BY <1>2, <1>3 DEF TypeOK
  <2>2. QED
    BY <1>2, <1>3, <2>1, PairingStays DEF Surroundings, Places
<1>4. ASSUME Group(m) \/ AppendAudit(m) \/ Finish(m) \/ Abort(m) \/ Report(m)
      PROVE  Pairing'
  BY <1>3, <1>4 DEF Group, AppendAudit, Finish, Abort, Report, Close, NextKey
<1>5. ASSUME TieBreak(m), \E key \in todo[m] : NextKey(m, key)
      PROVE  Pairing'
  BY <1>3, <1>5 DEF NextKey
<1>6. ASSUME TieBreak(m), ~\E key \in todo[m] : NextKey(m, key)
      PROVE  Pairing'
  <2>1. PICK key \in todo[m] :
            \E a, b \in Copies(key, listing[m]) :
                 Wins(a, b, head) /\ pair' = [pair EXCEPT ![m] = [winner |-> a, loser |-> b]]
    BY <1>6 DEF TieBreak
  <2>2. PICK a \in Copies(key, listing[m]), b \in Copies(key, listing[m]) :
            Wins(a, b, head) /\ pair' = [pair EXCEPT ![m] = [winner |-> a, loser |-> b]]
    BY <2>1
  <2>3. a \in ever /\ b \in ever /\ EncodeKey(a.path, format) = EncodeKey(b.path, format)
    BY <1>2 DEF Copies, KeyOf, TypeOK
  <2>4. require = "merged" => Beats(a, b, format)
    BY <2>2, <2>3, WinnersBeat
  <2>5. pc' = [pc EXCEPT ![m] = "remove"]
    BY <1>6 DEF TieBreak
  <2>6. /\ pair'[m] = [winner |-> a, loser |-> b]
        /\ \A n \in Maintainers \ {m} : pair'[n] = pair[n] /\ pc'[n] = pc[n]
    BY <1>2, <2>2, <2>5 DEF TypeOK
  <2>7. ASSUME NEW n \in Maintainers, pc'[n] \in {"remove", "audit"}
        PROVE  /\ pair'[n] \in [winner : ever, loser : ever]
               /\ require = "merged" => Beats(pair'[n].winner, pair'[n].loser, format)
    <3>1. CASE n = m
      BY <2>3, <2>4, <2>6, <3>1
    <3>2. CASE n # m
      BY <1>2, <2>6, <2>7, <3>2 DEF Pairing
    <3>3. QED
      BY <3>1, <3>2
  <2>8. QED
    BY <1>2, <2>7 DEF Pairing, Surroundings
<1>7. Pairing'
  BY <1>4, <1>5, <1>6
<1>8. QED
  BY <1>1, <1>2, <1>7, RunKeeps

LEMMA RemoveLoserKeeps ==
    ASSUME KInv, NEW m \in Maintainers, RemoveLoser(m)
    PROVE  KInv'
<1>1. /\ docs' = Without(pair[m].loser) /\ intact' = [n \in Maintainers |-> {}]
      /\ UNCHANGED <<require, format, lastId, ever, head, push, pair>>
      /\ pc[m] = "remove" /\ pc' = [pc EXCEPT ![m] = "audit"]
  BY DEF RemoveLoser
<1>2. TypeOK /\ Orderly /\ Kept /\ push' \in [Publishers -> Pushes]
  BY <1>1 DEF KInv, TypeOK
<1>3. TypeOK' /\ Orderly' /\ Held' = Held \ {pair[m].loser}
  BY <1>1, <1>2, DeletionTypes
<1>4. /\ pair[m].winner \in ever
      /\ require = "merged" => Beats(pair[m].winner, pair[m].loser, format)
  BY <1>1 DEF KInv, Pairing
<1>5. Kept'
  BY <1>1, <1>2, <1>3, <1>4, DeletionKeeps
<1>6. Reached' /\ Replacing'
  BY <1>1 DEF KInv, Reached, Replacing
<1>7. \A n \in Maintainers : pc'[n] \in {"remove", "audit"} => pc[n] \in {"remove", "audit"}
  BY <1>1, <1>2 DEF TypeOK
<1>8. Pairing'
  BY <1>1, <1>7 DEF KInv, Pairing
<1>9. QED
  BY <1>3, <1>5, <1>6, <1>8 DEF KInv

LEMMA PublishDeletesKeeps ==
    ASSUME KInv, NEW p \in Publishers, PublishDeletes(p)
    PROVE  KInv'
<1>1. /\ UNCHANGED <<require, format, server, lastId, aged, ever, head, ref, heads, run, audit>>
      /\ push[p].at = "delete" /\ push' = [push EXCEPT ![p] = NoPush]
  BY DEF PublishDeletes
<1>2. TypeOK /\ Orderly /\ Kept /\ Pairing
  BY DEF KInv
<1>3. NoPush \in Pushes
  BY DEF NoPush, Pushes
<1>4. push' \in [Publishers -> Pushes]
  BY <1>1, <1>2, <1>3 DEF TypeOK
<1>5. /\ \A q \in Publishers : push'[q].at \in {"upload", "delete"} => push'[q] = push[q]
      /\ UNCHANGED <<pc, pair>>
  BY <1>1, <1>2 DEF TypeOK, NoPush, run
<1>6. Reached' /\ Replacing' /\ Pairing'
  BY <1>1, <1>2, <1>5, PairingSame DEF KInv, Reached, Replacing
<1>7. CASE push[p].old # NoDoc /\ docs' = Without(push[p].old) /\ intact' = [m \in Maintainers |-> {}]
  <2>1. TypeOK' /\ Orderly' /\ Held' = Held \ {push[p].old}
    BY <1>1, <1>2, <1>4, <1>7, DeletionTypes
  <2>2. ~StaleCheckouts => \E y \in ever : Beats(y, push[p].old, format)
    BY <1>1, <1>7 DEF KInv, Replacing
  <2>3. Kept'
    BY <1>1, <1>2, <2>1, <2>2, DeletionKeeps
  <2>4. QED
    BY <1>6, <2>1, <2>3 DEF KInv
<1>8. CASE UNCHANGED <<docs, intact>>
  <2>1. Held' = Held /\ {KeyOf(e.path) : e \in ever}' = {KeyOf(e.path) : e \in ever}
    BY <1>1, <1>8 DEF Held, KeyOf
  <2>2. TypeOK'
    BY <1>1, <1>2, <1>4, <1>8, <2>1 DEF TypeOK, run
  <2>3. Orderly' /\ Kept'
    BY <1>1, <1>2, <1>8, <2>1 DEF Orderly, Kept
  <2>4. QED
    BY <1>6, <2>2, <2>3 DEF KInv
<1>9. QED
  BY <1>7, <1>8 DEF PublishDeletes

LEMMA PublishUploadsKeeps ==
    ASSUME KInv, NEW p \in Publishers, PublishUploads(p)
    PROVE  KInv'
<1> DEFINE new == [id |-> lastId + 1, path |-> push[p].path, commit |-> push[p].commit]
<1>1. /\ UNCHANGED <<require, format, server, aged, head, ref, heads, run, audit, intact>>
      /\ push[p].at = "upload" /\ push' = [push EXCEPT ![p].at = "delete"]
      /\ lastId' = lastId + 1 /\ lastId < MaxDocs
      /\ docs' = Append(docs, new) /\ ever' = ever \union {new}
  BY DEF PublishUploads
<1>2. TypeOK /\ Orderly /\ Kept /\ Pairing /\ Reached /\ Replacing
  BY DEF KInv
<1>3. push[p].path \in Paths /\ push[p].commit \in Commits
  BY <1>1, <1>2 DEF Replacing
<1>4. new \in Documents /\ Rank(new) = Cardinality(Reaches[push[p].commit])
  BY <1>1, <1>2, <1>3 DEF Documents, TypeOK, Rank
<1>5. new.id = lastId + 1 /\ new.path = push[p].path /\ new.commit = push[p].commit
  OBVIOUS
<1> HIDE DEF new
<1>6. /\ docs' \in Seq(Documents) /\ Len(docs') = Len(docs) + 1 /\ docs'[Len(docs) + 1] = new
      /\ \A i \in 1 .. Len(docs) : docs'[i] = docs[i]
      /\ Len(docs) \in Nat
  BY <1>1, <1>2, <1>4, AppendProperties DEF TypeOK
<1>7. Held' = Held \union {new}
  <2>1. DOMAIN docs' = 1 .. Len(docs) + 1 /\ DOMAIN docs = 1 .. Len(docs)
    BY <1>2, <1>6 DEF TypeOK
  <2>2. 1 .. Len(docs) + 1 = (1 .. Len(docs)) \union {Len(docs) + 1}
    BY <1>6
  <2>3. Held' = {docs'[i] : i \in 1 .. Len(docs) + 1}
    BY <2>1 DEF Held
  <2>4. Held = {docs[i] : i \in 1 .. Len(docs)}
    BY <2>1 DEF Held
  <2>5. QED
    BY <1>6, <2>2, <2>3, <2>4
<1>8. new \notin ever
  BY <1>2, <1>5 DEF Orderly, TypeOK
<1>9. Orderly'
  <2>1. \A i \in 1 .. Len(docs) : docs[i] \in ever
    BY <1>2 DEF TypeOK, Held
  <2>2. \A i, j \in DOMAIN docs' : docs'[i] = docs'[j] => i = j
    <3>1. DOMAIN docs' = 1 .. Len(docs) + 1 /\ DOMAIN docs = 1 .. Len(docs)
      BY <1>2, <1>6 DEF TypeOK
    <3> TAKE i, j \in DOMAIN docs'
    <3> HAVE docs'[i] = docs'[j]
    <3>2. CASE i \in 1 .. Len(docs) /\ j \in 1 .. Len(docs)
      BY <1>2, <1>6, <3>1, <3>2 DEF Orderly
    <3>3. CASE i = Len(docs) + 1 /\ j \in 1 .. Len(docs)
      BY <1>6, <1>8, <2>1, <3>3
    <3>4. CASE j = Len(docs) + 1 /\ i \in 1 .. Len(docs)
      BY <1>6, <1>8, <2>1, <3>4
    <3>5. QED
      BY <1>6, <3>1, <3>2, <3>3, <3>4
  <2>3. \A d \in ever' : d.id <= lastId'
    BY <1>1, <1>2, <1>5, RankType DEF Orderly, TypeOK
  <2>4. QED
    BY <2>2, <2>3 DEF Orderly
<1>10. TypeOK'
  <2>1. push' \in [Publishers -> Pushes]
    BY <1>1, <1>2 DEF TypeOK, Pushes
  <2>2. /\ ever' \subseteq Documents /\ Held' \subseteq ever' /\ ever \subseteq ever'
    BY <1>1, <1>2, <1>4, <1>7 DEF TypeOK
  <2>3. {KeyOf(d.path) : d \in ever} \subseteq {KeyOf(d.path) : d \in ever}'
    BY <1>1 DEF KeyOf
  <2>4. /\ listing' \in [Maintainers -> SUBSET ever'] /\ report' \in [Maintainers -> SUBSET ever']
        /\ intact' \in [Maintainers -> SUBSET ever']
    BY <1>1, <1>2, <2>2 DEF TypeOK, run
  <2>5. todo' \in [Maintainers -> SUBSET {KeyOf(d.path) : d \in ever}']
    BY <1>1, <1>2, <2>3 DEF TypeOK, run
  <2>6. pair' \in [Maintainers -> [winner : ever', loser : ever'] \union {NoPair}]
    BY <1>1, <1>2, <2>2 DEF TypeOK, run
  <2>7. lastId' \in 0 .. MaxDocs /\ aged' \subseteq 1 .. lastId'
    BY <1>1, <1>2 DEF TypeOK
  <2>8. QED
    BY <1>1, <1>2, <1>6, <2>1, <2>2, <2>4, <2>5, <2>6, <2>7 DEF TypeOK, run
<1>11. \A q \in Publishers :
           /\ q # p => push'[q] = push[q]
           /\ push'[p].at = "delete" /\ push'[p].old = push[p].old
  BY <1>1, <1>2 DEF TypeOK, Pushes
<1>12. Reached'
  <2>1. require = "merged" => push[p].commit \in Reaches[head]
    BY <1>1, <1>2 DEF Reached
  <2>2. QED
    BY <1>1, <1>2, <1>5, <1>11, <2>1 DEF Reached
<1>13. push[p].old # NoDoc /\ ~StaleCheckouts => Beats(new, push[p].old, format)
  <2> SUFFICES ASSUME push[p].old # NoDoc, ~StaleCheckouts
               PROVE  Beats(new, push[p].old, format)
    OBVIOUS
  <2> DEFINE old == push[p].old
  <2>1. /\ old \in ever /\ EncodeKey(old.path, format) = EncodeKey(push[p].path, format)
        /\ old.commit = NoCommit \/ old.commit \in Reaches[push[p].commit]
    BY <1>1, <1>2 DEF Replacing
  <2>2. old \in Documents /\ old.id <= lastId /\ lastId \in Nat
    BY <1>2, <2>1 DEF TypeOK, Orderly
  <2> HIDE DEF old
  <2>3. Rank(old) <= Rank(new)
    <3>1. CASE old.commit = NoCommit
      BY <1>3, <1>4, <3>1, RankIsNat DEF Rank
    <3>2. CASE old.commit # NoCommit
      BY <1>3, <1>4, <2>1, <3>2, ReachingMore DEF Rank
    <3>3. QED
      BY <3>1, <3>2
  <2>4. new.id > old.id
    BY <1>5, <2>2, RankType
  <2>5. QED
    BY <1>4, <1>5, <2>1, <2>2, <2>3, <2>4, RankType DEF Beats, old
<1>14. Replacing'
  <2>1. ASSUME NEW q \in Publishers, q # p
        PROVE  /\ push'[q].at = "upload" =>
                     /\ push'[q].path \in Paths /\ push'[q].commit \in Commits
                     /\ push'[q].old # NoDoc =>
                           /\ push'[q].old \in ever'
                           /\ EncodeKey(push'[q].old.path, format') = EncodeKey(push'[q].path, format')
                           /\ \/ StaleCheckouts \/ push'[q].old.commit = NoCommit
                              \/ push'[q].old.commit \in Reaches[push'[q].commit]
               /\ push'[q].at = "delete" /\ push'[q].old # NoDoc /\ ~StaleCheckouts =>
                     \E y \in ever' : Beats(y, push'[q].old, format')
    BY <1>1, <1>2, <1>11, <2>1 DEF Replacing
  <2>2. push'[p].old # NoDoc /\ ~StaleCheckouts => \E y \in ever' : Beats(y, push'[p].old, format')
    BY <1>1, <1>11, <1>13
  <2>3. QED
    BY <1>11, <2>1, <2>2 DEF Replacing
<1>15. Pairing'
  BY <1>1, <1>2, PairingSame DEF run
<1>16. Kept'
  BY <1>1, <1>2, <1>7 DEF Kept
<1>17. QED
  BY <1>9, <1>10, <1>12, <1>14, <1>15, <1>16 DEF KInv

LEMMA SurroundingsKeep ==
    ASSUME KInv, MoveHead \/ TimePasses \/ UNCHANGED vars \/ \E p \in Publishers : PublishLists(p)
    PROVE  KInv'
<1>1. /\ UNCHANGED <<require, format, server, docs, lastId, ever, run, audit, intact>>
      /\ UNCHANGED <<pc, pair, duty, job, offset, listing, suspect, todo, report>>
  BY DEF MoveHead, TimePasses, PublishLists, vars, sag, run
<1>2. TypeOK /\ Orderly /\ Kept /\ Pairing /\ Reached /\ Replacing
  BY DEF KInv
<1>3. Held' = Held /\ {KeyOf(d.path) : d \in ever}' = {KeyOf(d.path) : d \in ever}
  BY <1>1 DEF Held, KeyOf
<1>4. Orderly' /\ Kept' /\ Pairing'
  BY <1>1, <1>2, <1>3, PairingSame DEF Orderly, Kept
<1>5. ASSUME head' \in Commits, ref' = ref, heads' \in [Maintainers -> SUBSET Commits], aged' \subseteq 1 .. lastId, push' \in [Publishers -> Pushes]
      PROVE  TypeOK'
  BY <1>1, <1>2, <1>3, <1>5 DEF TypeOK
<1>6. CASE MoveHead
  <2>1. /\ head' \in Commits /\ head \in Reaches[head'] /\ UNCHANGED <<ref, aged, push>>
    BY <1>6 DEF MoveHead, sag
  <2>0. heads' \in [Maintainers -> SUBSET Commits]
    <3>1. \A n \in Maintainers : heads[n] \subseteq Commits
      BY <1>2 DEF TypeOK
    <3>2. heads' = [n \in Maintainers |-> heads[n] \union {head'}]
      BY <1>6 DEF MoveHead
    <3>3. QED
      BY <2>1, <3>1, <3>2
  <2>2. Reaches[head] \subseteq Reaches[head']
    BY <2>1, CommitsAssumption
  <2>3. TypeOK'
    BY <1>2, <1>5, <2>0, <2>1 DEF TypeOK
  <2>4. Reached' /\ Replacing'
    BY <1>1, <1>2, <2>1, <2>2 DEF Reached, Replacing
  <2>5. QED
    BY <1>4, <2>3, <2>4 DEF KInv
<1>7. CASE TimePasses \/ UNCHANGED vars
  <2>1. UNCHANGED <<ref, heads, head, push>>
    BY <1>7 DEF TimePasses, vars, sag
  <2>2. ASSUME NEW d \in Held
        PROVE  d.id \in 1 .. lastId
    <3>1. d \in ever /\ d \in Documents /\ lastId \in Nat
      BY <1>2 DEF TypeOK
    <3>2. d.id \in 1 .. MaxDocs /\ d.id <= lastId
      BY <1>2, <3>1 DEF Orderly, Documents
    <3>3. QED
      BY <3>1, <3>2
  <2>3. aged' \subseteq 1 .. lastId
    <3>1. aged' = aged \/ aged' = {d.id : d \in Held}
      BY <1>7 DEF TimePasses, vars, sag
    <3>2. {d.id : d \in Held} \subseteq 1 .. lastId
      BY <2>2
    <3>3. QED
      BY <1>2, <3>1, <3>2 DEF TypeOK
  <2>4. TypeOK'
    BY <1>2, <1>5, <2>1, <2>3 DEF TypeOK
  <2>5. Reached' /\ Replacing'
    BY <1>1, <1>2, <2>1 DEF Reached, Replacing
  <2>6. QED
    BY <1>4, <2>4, <2>5 DEF KInv
<1>8. ASSUME NEW p \in Publishers, PublishLists(p)
      PROVE  KInv'
  <2>1. PICK path \in Paths, c \in Commits, old \in Held \union {NoDoc} :
            /\ require = "merged" => c \in Reaches[head]
            /\ old # NoDoc => /\ old \in Copies(KeyOf(path), Held)
                              /\ StaleCheckouts \/ old.commit = NoCommit \/ old.commit \in Reaches[c]
            /\ push' = [push EXCEPT ![p] = [at |-> "upload", path |-> path, commit |-> c, old |-> old]]
    BY <1>8 DEF PublishLists
  <2>2. UNCHANGED <<ref, heads, head, aged>>
    BY <1>8 DEF PublishLists, sag
  <2>3. old # NoDoc => old \in ever /\ EncodeKey(old.path, format) = EncodeKey(path, format)
    BY <1>2, <2>1 DEF Copies, KeyOf, TypeOK
  <2>4. old \in Documents \union {NoDoc}
    BY <1>2 DEF TypeOK
  <2>5. [at |-> "upload", path |-> path, commit |-> c, old |-> old] \in Pushes
    BY <2>4 DEF Pushes
  <2>6. push' \in [Publishers -> Pushes]
    BY <1>2, <2>1, <2>5 DEF TypeOK
  <2>7. TypeOK'
    BY <1>2, <1>5, <2>2, <2>6 DEF TypeOK
  <2>8. /\ push'[p] = [at |-> "upload", path |-> path, commit |-> c, old |-> old]
        /\ \A q \in Publishers \ {p} : push'[q] = push[q]
    BY <1>2, <2>1 DEF TypeOK
  <2>9. Reached'
    BY <1>1, <1>2, <2>1, <2>2, <2>8 DEF Reached
  <2>10. Replacing'
    <3>1. \A q \in Publishers \ {p} : push'[q] = push[q]
      BY <2>8
    <3>2. /\ push'[p].at = "upload" /\ push'[p].path = path /\ push'[p].commit = c /\ push'[p].old = old
      BY <2>8
    <3>3. QED
      BY <1>1, <1>2, <2>1, <2>3, <3>1, <3>2 DEF Replacing
  <2>11. QED
    BY <1>4, <2>7, <2>9, <2>10 DEF KInv
<1>9. QED
  BY <1>6, <1>7, <1>8

LEMMA KStep == KInv /\ [Next]_vars => KInv'
BY SurroundingsKeep, PublishUploadsKeeps, PublishDeletesKeeps, ListingKeeps, DecidingKeeps,
   RemoveLoserKeeps DEF Next

LEMMA KInit == Init => KInv
<1> SUFFICES ASSUME Init
             PROVE  KInv
  OBVIOUS
<1>1. PICK s \in Scenarios : duty = s.duty /\ require = s.require /\ docs = s.docs
  BY DEF Init
<1>2. /\ duty \in [Maintainers -> SUBSET Jobs] /\ require \in {"committed", "merged"}
      /\ docs \in Seq(Documents)
  BY <1>1, ScenariosAssumption
<1>3. \A i \in DOMAIN docs : docs[i].id = i /\ docs[i] \in Documents
  BY <1>1, <1>2, ScenariosAssumption
<1>4. lastId = Len(docs) /\ Len(docs) \in 0 .. MaxDocs /\ DOMAIN docs = 1 .. Len(docs)
  <2>1. Len(docs) \in Nat /\ DOMAIN docs = 1 .. Len(docs) /\ lastId = Len(docs)
    BY <1>2 DEF Init
  <2>2. CASE Len(docs) = 0
    BY <2>1, <2>2
  <2>3. CASE Len(docs) # 0
    <3>1. Len(docs) \in DOMAIN docs
      BY <2>1, <2>3
    <3>2. docs[Len(docs)].id = Len(docs) /\ docs[Len(docs)].id \in 1 .. MaxDocs
      BY <1>3, <3>1 DEF Documents
    <3>3. QED
      BY <2>1, <3>2
  <2>4. QED
    BY <2>2, <2>3
<1>5. Held \subseteq Documents /\ ever = Held /\ head \in Commits
  BY <1>3 DEF Held, Init
<1>6. TypeOK
  <2>1. push \in [Publishers -> Pushes]
    BY DEF Init, Pushes, NoPush
  <2>2. QED
    BY <1>2, <1>4, <1>5, <2>1 DEF Init, TypeOK, Places, Jobs
<1>7. Orderly
  BY <1>3, <1>4, <1>5 DEF Orderly, Held
<1>8. Reached /\ Replacing /\ Pairing
  BY <1>5 DEF Init, Reached, Replacing, Pairing, NoPush
<1>9. Kept
  BY <1>5 DEF Kept
<1>10. QED
  BY <1>6, <1>7, <1>8, <1>9 DEF KInv

LEMMA KHolds == Spec => []KInv
BY KInit, KStep, PTL DEF Spec

\* The state is well formed: listings, pairs and reports are of documents that there have been.
THEOREM MaintainTypeCorrect == Spec => []TypeOK
<1>1. KInv => TypeOK
  BY DEF KInv
<1>2. QED
  BY <1>1, KHolds, PTL

\* Dedupe by any number of hosts on old listings, while publishers replace documents, never
\* loses a key and never sets one back, as long as only merged commits are published and no
\* publisher goes back.
THEOREM DedupeLosesNoKey == Spec => []KeyNeverLost
<1>1. ASSUME KInv
      PROVE  KeyNeverLost
  <2> SUFFICES ASSUME require = "merged", ~StaleCheckouts, NEW x \in ever
               PROVE  \E d \in Held : KeyOf(d.path) = KeyOf(x.path) /\ Rank(d) >= Rank(x)
    BY DEF KeyNeverLost
  <2>1. PICK d \in Held : d = x \/ Beats(d, x, format)
    BY <1>1 DEF KInv, Kept
  <2>2. Rank(x) \in Nat /\ Rank(d) \in Nat
    BY <1>1, RankType DEF KInv, TypeOK
  <2>3. QED
    BY <2>1, <2>2 DEF Beats, KeyOf
<1>2. QED
  BY <1>1, KHolds, PTL

-----------------------------------------------------------------------------
(* The invariant behind ListingComplete: at each place of the listing, what m has seen of *)
(* the documents that were there when it began.                                          *)

Covered(ds, srv, place, o, l, s, it) ==
    /\ it \subseteq {ds[i] : i \in DOMAIN ds}
    /\ srv = "ignores" /\ place \in {"second", "next", "listed"} => it \subseteq l
    /\ srv = "honours" /\ place = "second" /\ it # {} =>
          Len(ds) >= PageSize /\ l = {ds[i] : i \in 1 .. PageSize}
    /\ srv = "honours" /\ place = "next" =>
          \A i \in DOMAIN ds : ds[i] \in it /\ i <= o => ds[i] \in l
    /\ place = "listed" /\ ~s => it \subseteq l

CoveredNow(m) == Covered(docs, server, pc[m], offset[m], listing[m], suspect[m], intact[m])

LInv == KInv /\ \A m \in Maintainers : CoveredNow(m)

LEMMA SameCovered ==
    ASSUME NEW m, CoveredNow(m), UNCHANGED <<docs, server>>,
           pc'[m] = pc[m], offset'[m] = offset[m], listing'[m] = listing[m],
           suspect'[m] = suspect[m], intact'[m] = intact[m]
    PROVE  CoveredNow(m)'
BY DEF CoveredNow

\* Places at which nothing is said of a listing.
LEMMA NothingToCover ==
    ASSUME NEW ds, NEW srv, NEW place, NEW o, NEW l, NEW s, NEW it,
           place \notin {"second", "next", "listed"}, it \subseteq {ds[i] : i \in DOMAIN ds}
    PROVE  Covered(ds, srv, place, o, l, s, it)
BY DEF Covered

LEMMA NoneIntact ==
    ASSUME NEW ds, NEW srv, NEW place, NEW o, NEW l, NEW s
    PROVE  Covered(ds, srv, place, o, l, s, {})
BY DEF Covered

LEMMA UploadCovered ==
    ASSUME NEW ds \in Seq(Documents), NEW new \in Documents, NEW srv, NEW place, NEW o, NEW l,
           NEW s, NEW it, Covered(ds, srv, place, o, l, s, it), new \notin it
    PROVE  Covered(Append(ds, new), srv, place, o, l, s, it)
<1> DEFINE all == Append(ds, new)
<1>1. /\ Len(ds) \in Nat /\ DOMAIN ds = 1 .. Len(ds) /\ DOMAIN all = 1 .. Len(ds) + 1
      /\ Len(all) = Len(ds) + 1 /\ all[Len(ds) + 1] = new
      /\ \A i \in 1 .. Len(ds) : all[i] = ds[i]
  BY AppendProperties
<1> HIDE DEF all
<1>2. it \subseteq {all[i] : i \in DOMAIN all}
  BY <1>1 DEF Covered
<1>3. srv = "honours" /\ place = "second" /\ it # {} =>
          Len(all) >= PageSize /\ l = {all[i] : i \in 1 .. PageSize}
  <2> SUFFICES ASSUME srv = "honours", place = "second", it # {}
               PROVE  Len(all) >= PageSize /\ l = {all[i] : i \in 1 .. PageSize}
    OBVIOUS
  <2>1. Len(ds) >= PageSize /\ l = {ds[i] : i \in 1 .. PageSize}
    BY DEF Covered
  <2>2. \A i \in 1 .. PageSize : all[i] = ds[i]
    BY <1>1, <2>1
  <2>3. QED
    BY <1>1, <2>1, <2>2
<1>4. ASSUME srv = "honours", place = "next", NEW i \in DOMAIN all, all[i] \in it, i <= o
      PROVE  all[i] \in l
  <2>1. i \in 1 .. Len(ds)
    BY <1>1, <1>4
  <2>2. QED
    BY <1>1, <1>4, <2>1 DEF Covered
<1>5. Covered(ds, srv, place, o, l, s, it)
  OBVIOUS
<1>6. Covered(all, srv, place, o, l, s, it)
  BY <1>2, <1>3, <1>4, <1>5 DEF Covered
<1>7. QED
  BY <1>6 DEF all

LEMMA FirstPageCovered ==
    ASSUME KInv, NEW m \in Maintainers, FirstPage(m)
    PROVE  CoveredNow(m)'
<1>1. /\ docs \in Seq(Documents) /\ server \in {"honours", "ignores"} /\ Len(docs) \in Nat
      /\ DOMAIN docs = 1 .. Len(docs)
  BY DEF KInv, TypeOK
<1>2. /\ listing'[m] = On(Page(0)) /\ intact'[m] = Held /\ UNCHANGED <<docs, server>>
      /\ pc'[m] = IF Len(Page(0)) = PageSize THEN "second" ELSE "listed"
  BY DEF FirstPage, KInv, TypeOK, sag
<1>3. Held = {docs[i] : i \in DOMAIN docs}
  BY DEF Held
<1>4. ASSUME NEW o, NEW s
      PROVE  Covered(docs, server, pc'[m], o, On(Page(0)), s, Held)
  <2>1. CASE server = "ignores"
    <3>1. On(Page(0)) = Held
      BY <1>1, <2>1, PageOf DEF On, Held
    <3>2. QED
      BY <1>2, <1>3, <2>1, <3>1 DEF Covered
  <2>2. CASE server = "honours"
    <3> DEFINE page == Page(0)
               seen == On(page)
               n == Min2(PageSize, Len(docs))
    <3>1. /\ seen = {docs[i] : i \in 1 .. n} /\ Len(page) \in Nat
          /\ Len(page) < PageSize => Len(docs) < PageSize
          /\ Len(page) >= PageSize => Len(docs) >= PageSize
      <4>1. 0 \in Nat /\ 0 + 1 = 1 /\ 0 + PageSize = PageSize
        OBVIOUS
      <4>2. /\ seen = {docs[i] : i \in 0 + 1 .. Min2(0 + PageSize, Len(docs))} /\ Len(page) \in Nat
            /\ Len(page) < PageSize => Len(docs) < 0 + PageSize
            /\ Len(page) >= PageSize => Len(docs) >= 0 + PageSize
        BY <1>1, <2>2, PageOf
      <4>3. QED
        BY <4>1, <4>2
    <3>2. /\ Len(docs) <= PageSize => n = Len(docs)
          /\ Len(docs) >= PageSize => n = PageSize
      <4>1. \A a, b \in Nat : (b <= a => Min2(a, b) = b) /\ (b >= a => Min2(a, b) = a)
        BY DEF Min2
      <4> HIDE DEF page, seen
      <4>2. PageSize \in Nat /\ Len(docs) \in Nat
        BY <1>1
      <4>3. QED
        BY <4>1, <4>2
    <3> HIDE DEF page, seen, n
    <3>4. CASE Len(page) = PageSize
      <4>1. pc'[m] = "second" /\ Len(docs) >= PageSize /\ seen = {docs[i] : i \in 1 .. PageSize}
        BY <1>2, <3>1, <3>2, <3>4 DEF page
      <4>2. QED
        BY <1>3, <2>2, <4>1 DEF Covered, seen, page
    <3>5. CASE Len(page) # PageSize
      <4>1. CASE Len(page) < PageSize
        <5>1. seen = Held
          BY <1>1, <1>3, <3>1, <3>2, <4>1
        <5>2. QED
          BY <1>2, <1>3, <2>2, <3>5, <5>1 DEF Covered, seen, page
      <4>2. CASE Len(page) > PageSize
        <5>1. FALSE
          BY <1>1, <2>2, <4>2, PageOf DEF page
        <5>2. QED
          BY <5>1
      <4>3. QED
        BY <3>1, <3>5, <4>1, <4>2
    <3>6. QED
      BY <3>4, <3>5
  <2>3. QED
    BY <1>1, <2>1, <2>2
<1>5. QED
  BY <1>2, <1>4 DEF CoveredNow

\* The indices of a page.
LEMMA PageIndices ==
    ASSUME NEW len \in Nat, NEW o \in Nat, NEW z \in Nat \ {0}
    PROVE  /\ \A i \in 1 .. len : i > o /\ i <= o + z => i \in o + 1 .. Min2(o + z, len)
           /\ len > o => o + 1 \in o + 1 .. Min2(o + z, len) /\ o + 1 \in 1 .. len
BY DEF Min2

LEMMA SecondPageCovered ==
    ASSUME KInv, NEW m \in Maintainers, CoveredNow(m), SecondPage(m)
    PROVE  CoveredNow(m)'
<1> DEFINE page == On(Page(PageSize))
           seen == listing[m] \union page
           it == intact[m]
           n == Min2(PageSize + PageSize, Len(docs))
<1>1. /\ docs \in Seq(Documents) /\ server \in {"honours", "ignores"} /\ Len(docs) \in Nat
      /\ DOMAIN docs = 1 .. Len(docs) /\ \A i, j \in DOMAIN docs : docs[i] = docs[j] => i = j
  BY DEF KInv, TypeOK, Orderly
<1>2. /\ listing'[m] = seen /\ intact'[m] = it /\ UNCHANGED <<docs, server>>
      /\ \/ pc'[m] = "listed" /\ page \subseteq listing[m]
         \/ pc'[m] = "next" /\ offset'[m] = 2 * PageSize
  BY DEF SecondPage, KInv, TypeOK, sag
<1>3. Covered(docs, server, "second", offset[m], listing[m], suspect[m], it)
  BY DEF CoveredNow, SecondPage
<1>4. CASE server = "ignores"
  BY <1>2, <1>3, <1>4 DEF CoveredNow, Covered
<1>5. CASE server = "honours" /\ it # {}
  <2>1. Len(docs) >= PageSize /\ listing[m] = {docs[i] : i \in 1 .. PageSize}
    BY <1>3, <1>5 DEF Covered
  <2>2. page = {docs[i] : i \in PageSize + 1 .. n}
    BY <1>1, <1>5, PageOf
  <2>3. /\ \A i \in 1 .. Len(docs) : i > PageSize /\ i <= PageSize + PageSize => i \in PageSize + 1 .. n
        /\ Len(docs) > PageSize => PageSize + 1 \in PageSize + 1 .. n /\ PageSize + 1 \in 1 .. Len(docs)
        /\ 2 * PageSize = PageSize + PageSize
    <3>1. /\ \A i \in 1 .. Len(docs) : i > PageSize /\ i <= PageSize + PageSize => i \in PageSize + 1 .. n
          /\ Len(docs) > PageSize => PageSize + 1 \in PageSize + 1 .. n /\ PageSize + 1 \in 1 .. Len(docs)
      <4>1. PageSize \in Nat \ {0} /\ PageSize \in Nat
        OBVIOUS
      <4> HIDE DEF page, seen, it
      <4>2. QED
        BY <1>1, <4>1, PageIndices
    <3>2. 2 * PageSize = PageSize + PageSize
      OBVIOUS
    <3>3. QED
      BY <3>1, <3>2
  <2> HIDE DEF page, n, it
  <2>4. CASE pc'[m] = "listed" /\ page \subseteq listing[m]
    <3>1. Len(docs) = PageSize
      <4>1. SUFFICES ASSUME Len(docs) # PageSize
                     PROVE  FALSE
        OBVIOUS
      <4>2. PageSize + 1 \in PageSize + 1 .. n /\ PageSize + 1 \in DOMAIN docs
        <5>1. Len(docs) > PageSize
          <6>1. \A a, b \in Nat : a >= b /\ a # b => a > b
            OBVIOUS
          <6>2. QED
            BY <1>1, <2>1, <4>1, <6>1
        <5>2. QED
          BY <1>1, <2>3, <5>1
      <4>3. docs[PageSize + 1] \in listing[m]
        BY <2>2, <2>4, <4>2
      <4>4. PICK i \in 1 .. PageSize : docs[i] = docs[PageSize + 1]
        BY <2>1, <4>3
      <4>5. i \in DOMAIN docs /\ i # PageSize + 1
        BY <1>1, <2>1
      <4>6. QED
        BY <1>1, <4>2, <4>4, <4>5
    <3>2. it \subseteq listing[m]
      BY <1>1, <1>3, <2>1, <3>1 DEF Covered
    <3>3. QED
      BY <1>2, <1>3, <1>5, <2>4, <3>2 DEF CoveredNow, Covered
  <2>5. CASE pc'[m] = "next" /\ offset'[m] = 2 * PageSize
    <3>1. ASSUME NEW i \in DOMAIN docs, i <= 2 * PageSize
          PROVE  docs[i] \in seen
      <4>1. CASE i <= PageSize
        BY <1>1, <2>1, <4>1
      <4>2. CASE i > PageSize
        <5>1. i \in PageSize + 1 .. n
          BY <1>1, <2>3, <3>1, <4>2
        <5>2. QED
          BY <2>2, <5>1
      <4>3. QED
        BY <1>1, <4>1, <4>2
    <3>2. QED
      BY <1>2, <1>3, <1>5, <2>5, <3>1 DEF CoveredNow, Covered
  <2>6. QED
    BY <1>2, <2>4, <2>5
<1>6. CASE it = {}
  BY <1>2, <1>6, NoneIntact DEF CoveredNow
<1>7. QED
  BY <1>1, <1>4, <1>5, <1>6

LEMMA NextPageCovered ==
    ASSUME KInv, NEW m \in Maintainers, CoveredNow(m), NextPage(m)
    PROVE  CoveredNow(m)'
<1> DEFINE tooMany == offset[m] = (MaxPages + 2) * PageSize
           page == IF tooMany THEN <<>> ELSE Page(offset[m])
           noNews == page # <<>> /\ On(page) \subseteq listing[m]
           seen == listing[m] \union On(page)
           it == intact[m]
           o == offset[m]
           n == Min2(o + PageSize, Len(docs))
<1>1. /\ docs \in Seq(Documents) /\ server \in {"honours", "ignores"} /\ Len(docs) \in Nat
      /\ DOMAIN docs = 1 .. Len(docs) /\ o \in Nat
  BY DEF KInv, TypeOK
<1>2. /\ listing'[m] = seen /\ intact'[m] = it /\ UNCHANGED <<docs, server>>
      /\ suspect'[m] = (tooMany \/ noNews)
      /\ \/ pc'[m] = "listed" /\ (tooMany \/ noNews \/ Len(page) < PageSize)
         \/ pc'[m] = "next" /\ offset'[m] = o + PageSize /\ ~tooMany
  <2> HIDE DEF page, tooMany, noNews
  <2>1. /\ listing' = [listing EXCEPT ![m] = seen] /\ intact' = intact /\ UNCHANGED <<docs, server>>
        /\ suspect' = [suspect EXCEPT ![m] = tooMany \/ noNews]
        /\ IF tooMany \/ noNews \/ Len(page) < PageSize
           THEN pc' = [pc EXCEPT ![m] = "listed"] /\ UNCHANGED offset
           ELSE offset' = [offset EXCEPT ![m] = o + PageSize] /\ UNCHANGED pc
    BY DEF NextPage, sag, page, tooMany, noNews
  <2>2. pc[m] = "next" /\ TypeOK
    BY DEF NextPage, KInv
  <2>3. QED
    BY <2>1, <2>2 DEF TypeOK
<1>3. Covered(docs, server, "next", o, listing[m], suspect[m], it)
  BY DEF CoveredNow, NextPage
<1>4. CASE server = "ignores"
  <2> HIDE DEF page, tooMany, noNews
  <2>1. QED
    BY <1>2, <1>3, <1>4 DEF CoveredNow, Covered
<1>5. CASE tooMany
  <2> HIDE DEF page, noNews
  <2>1. pc'[m] = "listed" /\ suspect'[m]
    BY <1>2, <1>5
  <2>2. QED
    BY <1>2, <1>3, <1>4, <1>1, <2>1 DEF CoveredNow, Covered
<1>6. CASE server = "honours" /\ ~tooMany
  <2>1. /\ On(page) = {docs[i] : i \in o + 1 .. n}
        /\ Len(page) < PageSize => Len(docs) < o + PageSize
    BY <1>1, <1>6, PageOf
  <2>2. \A i \in 1 .. Len(docs) : i > o /\ i <= o + PageSize => i \in o + 1 .. n
    BY <1>1, PageIndices
  <2> HIDE DEF page, noNews, n, it, o
  <2>3. \A i \in DOMAIN docs : docs[i] \in it /\ i <= o => docs[i] \in listing[m]
    BY <1>3, <1>6 DEF Covered
  <2>4. ASSUME NEW i \in DOMAIN docs, docs[i] \in it, i <= o + PageSize
        PROVE  docs[i] \in seen
    <3>1. CASE i <= o
      BY <2>3, <2>4, <3>1
    <3>2. CASE i > o
      <4>1. i \in o + 1 .. n
        BY <1>1, <2>2, <2>4, <3>2
      <4>2. QED
        BY <2>1, <4>1
    <3>3. QED
      BY <1>1, <3>1, <3>2
  <2>5. CASE pc'[m] = "next" /\ offset'[m] = o + PageSize
    BY <1>2, <1>3, <1>6, <2>4, <2>5 DEF CoveredNow, Covered
  <2>6. CASE pc'[m] = "listed" /\ noNews
    <3>1. suspect'[m]
      BY <1>2, <2>6
    <3>2. QED
      BY <1>2, <1>3, <1>6, <2>6, <3>1 DEF CoveredNow, Covered
  <2>7. CASE pc'[m] = "listed" /\ Len(page) < PageSize
    <3>1. \A i \in DOMAIN docs : i <= o + PageSize
      BY <1>1, <2>1, <2>7
    <3>2. it \subseteq {docs[i] : i \in DOMAIN docs}
      BY <1>3 DEF Covered
    <3>3. it \subseteq seen
      BY <2>4, <3>1, <3>2
    <3>4. QED
      BY <1>2, <1>6, <2>7, <3>2, <3>3 DEF CoveredNow, Covered
  <2>8. QED
    BY <1>2, <1>6, <2>5, <2>6, <2>7
<1>7. QED
  BY <1>1, <1>4, <1>5, <1>6

LEMMA OwnStepCovered ==
    ASSUME KInv, NEW m \in Maintainers, CoveredNow(m),
           \/ Begin(m) \/ Fetch(m) \/ FirstPage(m) \/ SecondPage(m) \/ NextPage(m)
           \/ Group(m) \/ TieBreak(m) \/ AppendAudit(m) \/ Finish(m) \/ Abort(m) \/ Report(m)
    PROVE  CoveredNow(m)' /\ UNCHANGED <<docs, server>>
<1>1. TypeOK
  BY DEF KInv
<1>2. UNCHANGED <<docs, server>>
  BY DEF Begin, Fetch, FirstPage, SecondPage, NextPage, Group, TieBreak, AppendAudit, Finish,
     Abort, Report, sag
<1>3. intact[m] \subseteq {docs[i] : i \in DOMAIN docs}
  BY DEF CoveredNow, Covered
<1>4. CASE Begin(m) \/ Fetch(m) \/ TieBreak(m) \/ AppendAudit(m)
  <2>1. pc'[m] \notin {"second", "next", "listed"} /\ intact'[m] = intact[m]
    BY <1>1, <1>4 DEF Begin, Fetch, TieBreak, AppendAudit, NextKey, TypeOK
  <2>2. QED
    BY <1>2, <1>3, <2>1, NothingToCover DEF CoveredNow
<1>5. CASE Group(m) \/ Finish(m) \/ Abort(m) \/ Report(m)
  <2>1. intact'[m] = {}
    BY <1>1, <1>5 DEF Group, Finish, Abort, Report, Close, TypeOK
  <2>2. QED
    BY <1>2, <2>1, NoneIntact DEF CoveredNow
<1>6. QED
  BY <1>2, <1>4, <1>5, FirstPageCovered, SecondPageCovered, NextPageCovered

LEMMA OthersCovered ==
    ASSUME KInv, NEW m \in Maintainers, NEW n \in Maintainers, n # m, CoveredNow(n),
           \/ Begin(m) \/ Fetch(m) \/ FirstPage(m) \/ SecondPage(m) \/ NextPage(m)
           \/ Group(m) \/ TieBreak(m) \/ AppendAudit(m) \/ Finish(m) \/ Abort(m) \/ Report(m)
    PROVE  CoveredNow(n)'
<1>1. TypeOK
  BY DEF KInv
<1>2. /\ UNCHANGED <<docs, server>>
      /\ pc'[n] = pc[n] /\ listing'[n] = listing[n] /\ intact'[n] = intact[n]
      /\ offset'[n] = offset[n] /\ suspect'[n] = suspect[n]
  <2>1. CASE Begin(m) \/ Fetch(m) \/ FirstPage(m) \/ SecondPage(m)
    BY <1>1, <2>1 DEF Begin, Fetch, FirstPage, SecondPage, sag, TypeOK
  <2>2. CASE NextPage(m)
    BY <1>1, <2>2 DEF NextPage, sag, TypeOK
  <2>3. CASE Group(m) \/ Finish(m) \/ Abort(m) \/ Report(m)
    BY <1>1, <2>3 DEF Group, Finish, Abort, Report, Close, sag, TypeOK
  <2>4. CASE TieBreak(m) \/ AppendAudit(m)
    BY <1>1, <2>4 DEF TieBreak, AppendAudit, NextKey, sag, TypeOK
  <2>5. QED
    BY <2>1, <2>2, <2>3, <2>4
<1>3. QED
  BY <1>2, SameCovered

LEMMA SagStepCovered ==
    ASSUME KInv, NEW n \in Maintainers, CoveredNow(n),
           \/ MoveHead \/ TimePasses \/ UNCHANGED vars
           \/ \E p \in Publishers : PublishLists(p) \/ PublishUploads(p) \/ PublishDeletes(p)
           \/ \E m \in Maintainers : RemoveLoser(m)
    PROVE  CoveredNow(n)'
<1>1. TypeOK /\ Orderly /\ Replacing
  BY DEF KInv
<1>2. CASE MoveHead \/ TimePasses \/ UNCHANGED vars \/ \E p \in Publishers : PublishLists(p)
  BY <1>2, SameCovered DEF MoveHead, TimePasses, vars, PublishLists, sag, run
<1>3. ASSUME NEW p \in Publishers, PublishDeletes(p)
      PROVE  CoveredNow(n)'
  <2>1. CASE intact' = [m \in Maintainers |-> {}]
    BY <2>1, NoneIntact DEF CoveredNow
  <2>2. CASE UNCHANGED <<docs, intact>>
    BY <1>3, <2>2, SameCovered DEF PublishDeletes, run
  <2>3. QED
    BY <1>3, <2>1, <2>2 DEF PublishDeletes
<1>4. ASSUME NEW p \in Publishers, PublishUploads(p)
      PROVE  CoveredNow(n)'
  <2> DEFINE new == [id |-> lastId + 1, path |-> push[p].path, commit |-> push[p].commit]
  <2>1. new \in Documents /\ new \notin ever
    BY <1>1, <1>4 DEF PublishUploads, Replacing, Documents, TypeOK, Orderly
  <2>2. docs' = Append(docs, new) /\ UNCHANGED <<server, run, intact>>
    BY <1>4 DEF PublishUploads
  <2> HIDE DEF new
  <2>3. new \notin intact[n] /\ docs \in Seq(Documents)
    BY <1>1, <2>1 DEF TypeOK
  <2>4. Covered(Append(docs, new), server, pc[n], offset[n], listing[n], suspect[n], intact[n])
    BY <2>1, <2>3, UploadCovered DEF CoveredNow
  <2>5. QED
    BY <2>2, <2>4 DEF CoveredNow, run
<1>5. ASSUME NEW m \in Maintainers, RemoveLoser(m)
      PROVE  CoveredNow(n)'
  <2>1. intact'[n] = {}
    BY <1>5 DEF RemoveLoser
  <2>2. QED
    BY <2>1, NoneIntact DEF CoveredNow
<1>6. QED
  BY <1>2, <1>3, <1>4, <1>5

LEMMA LHolds == Spec => []LInv
<1>1. Init => LInv
  <2> SUFFICES ASSUME Init
               PROVE  LInv
    OBVIOUS
  <2>1. \A m \in Maintainers : CoveredNow(m)
    BY NoneIntact DEF Init, CoveredNow
  <2>2. QED
    BY <2>1, KInit DEF LInv
<1>2. LInv /\ [Next]_vars => LInv'
  <2> SUFFICES ASSUME LInv, [Next]_vars
               PROVE  LInv'
    OBVIOUS
  <2>1. KInv /\ KInv'
    BY KStep DEF LInv
  <2>2. ASSUME NEW n \in Maintainers
        PROVE  CoveredNow(n)'
    <3>1. CoveredNow(n)
      BY DEF LInv
    <3>2. CASE \E m \in Maintainers :
                  \/ Begin(m) \/ Fetch(m) \/ FirstPage(m) \/ SecondPage(m) \/ NextPage(m)
                  \/ Group(m) \/ TieBreak(m) \/ AppendAudit(m) \/ Finish(m) \/ Abort(m) \/ Report(m)
      BY <2>1, <3>1, <3>2, OwnStepCovered, OthersCovered
    <3>3. QED
      BY <2>1, <3>1, <3>2, SagStepCovered DEF Next
  <2>3. QED
    BY <2>1, <2>2 DEF LInv
<1>3. QED
  BY <1>1, <1>2, PTL DEF Spec

\* Page by page, from a server that pages or one that does not, with documents coming in
\* meanwhile: a listing without `truncated` has all that SAG held when it began, for any
\* page size and any number of documents.
THEOREM ListingsAreComplete == Spec => []ListingComplete
<1>1. LInv => ListingComplete
  BY DEF LInv, CoveredNow, Covered, ListingComplete
<1>2. QED
  BY <1>1, LHolds, PTL

-----------------------------------------------------------------------------
(* The invariant behind ReportsAreOfTheBranch: what was published had a blob, and         *)
(* origin/<branch> of a clone is a head that the branch has had since the last fetch.      *)

Blobs ==
    /\ \A d \in ever : d.commit # NoCommit => Tree[d.commit][d.path] # NoBlob
    /\ \A p \in Publishers : push[p].at = "upload" => Tree[push[p].commit][push[p].path] # NoBlob

Seen == \A m \in Maintainers : ref[m] \in heads[m]

RInv == KInv /\ Blobs /\ Seen

LEMMA BlobsKept ==
    ASSUME KInv, Blobs, [Next]_vars
    PROVE  Blobs'
<1>1. TypeOK
  BY DEF KInv
<1>2. ASSUME ever' = ever, push' = push
      PROVE  Blobs'
  BY <1>2 DEF Blobs
<1>3. ASSUME NEW p \in Publishers, PublishLists(p)
      PROVE  Blobs'
  <2>1. PICK path \in Paths, c \in Commits, old \in Held \union {NoDoc} :
            /\ Tree[c][path] # NoBlob
            /\ push' = [push EXCEPT ![p] = [at |-> "upload", path |-> path, commit |-> c, old |-> old]]
    BY <1>3 DEF PublishLists
  <2>2. /\ push'[p].commit = c /\ push'[p].path = path
        /\ \A q \in Publishers \ {p} : push'[q] = push[q]
    BY <1>1, <2>1 DEF TypeOK
  <2>3. ever' = ever
    BY <1>3 DEF PublishLists, sag
  <2>4. QED
    BY <2>1, <2>2, <2>3 DEF Blobs
<1>4. ASSUME NEW p \in Publishers, PublishUploads(p)
      PROVE  Blobs'
  <2> DEFINE new == [id |-> lastId + 1, path |-> push[p].path, commit |-> push[p].commit]
  <2>1. /\ ever' = ever \union {new} /\ push[p].at = "upload"
        /\ push' = [push EXCEPT ![p].at = "delete"]
    BY <1>4 DEF PublishUploads
  <2>2. Tree[new.commit][new.path] # NoBlob
    BY <2>1 DEF Blobs
  <2> HIDE DEF new
  <2>3. push'[p].at = "delete" /\ \A q \in Publishers \ {p} : push'[q] = push[q]
    BY <1>1, <2>1 DEF TypeOK, Pushes
  <2>4. QED
    BY <2>1, <2>2, <2>3 DEF Blobs
<1>5. ASSUME NEW p \in Publishers, PublishDeletes(p)
      PROVE  Blobs'
  <2>1. ever' = ever /\ push'[p].at = "idle" /\ \A q \in Publishers \ {p} : push'[q] = push[q]
    BY <1>1, <1>5 DEF PublishDeletes, TypeOK, NoPush
  <2>2. QED
    BY <2>1 DEF Blobs
<1>6. CASE MoveHead \/ TimePasses \/ UNCHANGED vars
  BY <1>2, <1>6 DEF MoveHead, TimePasses, vars, sag
<1>7. ASSUME NEW m \in Maintainers,
             \/ Begin(m) \/ Fetch(m) \/ FirstPage(m) \/ SecondPage(m) \/ NextPage(m) \/ Group(m)
             \/ TieBreak(m) \/ AppendAudit(m) \/ Finish(m) \/ Abort(m) \/ Report(m) \/ RemoveLoser(m)
      PROVE  Blobs'
  BY <1>2, <1>7 DEF Begin, Fetch, FirstPage, SecondPage, NextPage, Group, TieBreak, AppendAudit,
     Finish, Abort, Report, RemoveLoser, sag
<1>8. QED
  BY <1>3, <1>4, <1>5, <1>6, <1>7 DEF Next

LEMMA SeenKept ==
    ASSUME TypeOK, Seen, [Next]_vars
    PROVE  Seen'
<1>1. ASSUME UNCHANGED <<ref, heads>>
      PROVE  Seen'
  BY <1>1 DEF Seen
<1>2. ASSUME NEW m \in Maintainers, Fetched(m)
      PROVE  Seen'
  BY <1>2 DEF Fetched, Seen, TypeOK
<1>3. CASE MoveHead
  <2>1. /\ ref' = ref
        /\ heads' = [m \in Maintainers |-> heads[m] \union {head'}]
    BY <1>3 DEF MoveHead
  <2>2. QED
    BY <2>1 DEF Seen
<1>4. ASSUME NEW m \in Maintainers, Fetch(m) \/ TieBreak(m)
      PROVE  Seen'
  BY <1>1, <1>2, <1>4 DEF Fetch, TieBreak
<1>5. CASE TimePasses \/ UNCHANGED vars
           \/ \E p \in Publishers : PublishLists(p) \/ PublishUploads(p) \/ PublishDeletes(p)
  BY <1>1, <1>5 DEF TimePasses, vars, PublishLists, PublishUploads, PublishDeletes
<1>6. ASSUME NEW m \in Maintainers,
             \/ Begin(m) \/ FirstPage(m) \/ SecondPage(m) \/ NextPage(m) \/ Group(m)
             \/ AppendAudit(m) \/ Finish(m) \/ Abort(m) \/ Report(m) \/ RemoveLoser(m)
      PROVE  Seen'
  BY <1>1, <1>6 DEF Begin, FirstPage, SecondPage, NextPage, Group, AppendAudit, Finish, Abort,
     Report, RemoveLoser
<1>7. QED
  BY <1>3, <1>4, <1>5, <1>6 DEF Next

\* At a commit r, Git's answers about a key that is a path are what the docstrings mean.
LEMMA GitAnswersForPaths ==
    ASSUME TypeOK, Blobs, NEW d \in ever, KeyOf(d.path) = d.path, NEW r \in Commits
    PROVE  /\ Orphan(d, r) <=> d.path \notin OutsideGit /\ Reportable(d, "orphans", r)
           /\ Stale(d, r) <=> d.path \notin OutsideGit /\ d.id \in aged /\ Reportable(d, "stale", r)
<1>1. d.path \in Paths /\ NoCommit \notin Reaches[r]
  BY CommitsAssumption DEF TypeOK, Documents
<1>2. BlobAt(KeyOf(d.path), r) = Tree[r][d.path]
  BY <1>1 DEF BlobAt
<1>3. Orphan(d, r) <=> d.path \notin OutsideGit /\ Reportable(d, "orphans", r)
  BY <1>2 DEF Orphan, Reportable
<1>4. d.commit # NoCommit => {Tree[d.commit][d.path]} \ {NoBlob} = {Tree[d.commit][d.path]}
  BY DEF Blobs
<1>5. Stale(d, r) <=> d.path \notin OutsideGit /\ d.id \in aged /\ Reportable(d, "stale", r)
  BY <1>2, <1>4 DEF Stale, Reportable
<1>6. QED
  BY <1>3, <1>5

LEMMA RHolds == Spec => []RInv
<1>1. Init => RInv
  <2> SUFFICES ASSUME Init
               PROVE  RInv
    OBVIOUS
  <2>1. PICK s \in Scenarios : docs = s.docs
    BY DEF Init
  <2>2. \A i \in DOMAIN docs : docs[i].commit # NoCommit => Tree[docs[i].commit][docs[i].path] # NoBlob
    BY <2>1, ScenariosAssumption
  <2>3. Blobs
    <3>1. \A d \in ever : d.commit # NoCommit => Tree[d.commit][d.path] # NoBlob
      BY <2>2 DEF Init, Held
    <3>2. \A p \in Publishers : push[p].at = "idle"
      BY DEF Init, NoPush
    <3>3. QED
      BY <3>1, <3>2 DEF Blobs
  <2>4. QED
    BY <2>3, KInit DEF RInv, Init, Seen
<1>2. RInv /\ [Next]_vars => RInv'
  BY KStep, BlobsKept, SeenKept DEF RInv, KInv
<1>3. QED
  BY <1>1, <1>2, PTL DEF Spec

LEMMA OnlyReportReports ==
    ASSUME TypeOK, [Next]_vars, NEW m \in Maintainers, pc[m] = "listed", pc'[m] = "reported"
    PROVE  Report(m)
<1>1. ASSUME NEW n \in Maintainers, n # m, NEW place, pc' = [pc EXCEPT ![n] = place]
      PROVE  FALSE
  BY <1>1 DEF TypeOK
<1>2. ASSUME NEW place, place # "reported", pc' = [pc EXCEPT ![m] = place]
      PROVE  FALSE
  BY <1>2 DEF TypeOK
<1>3. pc' # pc
  OBVIOUS
<1>4. ASSUME NEW n \in Maintainers,
             \/ Begin(n) \/ Fetch(n) \/ FirstPage(n) \/ SecondPage(n) \/ NextPage(n) \/ Group(n)
             \/ TieBreak(n) \/ RemoveLoser(n) \/ AppendAudit(n) \/ Finish(n) \/ Abort(n)
      PROVE  FALSE
  <2>1. \/ pc' = pc
        \/ \E place \in Places \ {"reported"} : pc' = [pc EXCEPT ![n] = place]
    BY <1>4 DEF Begin, Fetch, FirstPage, SecondPage, NextPage, Group, TieBreak, RemoveLoser,
       AppendAudit, Finish, Abort, Close, NextKey, Places
  <2>2. QED
    BY <1>1, <1>2, <1>3, <2>1
<1>5. ASSUME NEW n \in Maintainers, n # m, Report(n)
      PROVE  FALSE
  BY <1>1, <1>5 DEF Report
<1>6. \A p \in Publishers : ~PublishLists(p) /\ ~PublishUploads(p) /\ ~PublishDeletes(p)
  BY <1>3 DEF PublishLists, PublishUploads, PublishDeletes, run
<1>7. ~MoveHead /\ ~TimePasses /\ ~UNCHANGED vars
  BY <1>3 DEF MoveHead, TimePasses, vars, run
<1>8. QED
  BY <1>4, <1>5, <1>6, <1>7 DEF Next

\* What is reported at the end of a listing, however many documents, pages and heads.
LEMMA ReportTells ==
    ASSUME LInv, RInv, NEW m \in Maintainers, Report(m)
    PROVE  /\ \A d \in report'[m] : KeyOf(d.path) = d.path =>
                 \E h \in heads[m] : Reportable(d, job[m], h)
           /\ \A d \in intact[m] :
                 /\ KeyOf(d.path) = d.path /\ d.path \notin OutsideGit /\ ~suspect[m]
                 /\ job[m] = "stale" => d.id \in aged
                 /\ \A h \in heads[m] : Reportable(d, job[m], h)
                 => d \in report'[m]
<1> DEFINE named(d) == IF job[m] = "orphans" THEN Orphan(d, ref[m]) ELSE Stale(d, ref[m])
           found == {d \in listing[m] : named(d)}
<1>1. TypeOK /\ Blobs /\ ref[m] \in heads[m] /\ ref[m] \in Commits
  BY DEF RInv, KInv, Seen, TypeOK
<1>2. /\ listing[m] \subseteq ever /\ intact[m] \subseteq ever
      /\ ~suspect[m] => intact[m] \subseteq listing[m]
  <2>1. pc[m] = "listed"
    BY DEF Report
  <2>2. ~suspect[m] => intact[m] \subseteq listing[m]
    BY <2>1 DEF LInv, CoveredNow, Covered
  <2>3. QED
    BY <1>1, <2>2 DEF TypeOK
<1>3. job[m] = "orphans" \/ job[m] = "stale"
  BY DEF Report
<1>4. ASSUME NEW d \in ever, KeyOf(d.path) = d.path
      PROVE  named(d) <=> /\ d.path \notin OutsideGit /\ (job[m] = "stale" => d.id \in aged)
                          /\ Reportable(d, job[m], ref[m])
  <2>1. /\ Orphan(d, ref[m]) <=> d.path \notin OutsideGit /\ Reportable(d, "orphans", ref[m])
        /\ Stale(d, ref[m]) <=> /\ d.path \notin OutsideGit /\ d.id \in aged
                               /\ Reportable(d, "stale", ref[m])
    BY <1>1, <1>4, GitAnswersForPaths
  <2>2. CASE job[m] = "orphans"
    BY <2>1, <2>2
  <2>3. CASE job[m] = "stale"
    BY <2>1, <2>3
  <2>4. QED
    BY <1>3, <2>2, <2>3
<1>5. report'[m] = found
  BY <1>1 DEF Report, TypeOK
<1> HIDE DEF named
<1>6. QED
  BY <1>1, <1>2, <1>4, <1>5

\* A report is about the branch, for any hosts, publishers, page sizes, failures of the fetch
\* and heads: it names only what has been an orphan or stale since the last fetch that
\* worked, and all that has been so ever since and in SAG while it was listed.
THEOREM ReportsFollowTheBranch == Spec => ReportsAreOfTheBranch
<1>1. ASSUME LInv, RInv, [Next]_vars, NEW m \in Maintainers, pc[m] = "listed", pc'[m] = "reported"
      PROVE  Report(m)
  BY <1>1, OnlyReportReports DEF RInv, KInv
<1>2. LInv /\ RInv /\ [Next]_vars =>
         [\A m \in Maintainers : pc[m] = "listed" /\ pc'[m] = "reported" =>
          /\ \A d \in report'[m] : KeyOf(d.path) = d.path =>
                \E h \in heads[m] : Reportable(d, job[m], h)
          /\ \A d \in intact[m] :
                /\ KeyOf(d.path) = d.path /\ d.path \notin OutsideGit /\ ~suspect[m]
                /\ job[m] = "stale" => d.id \in aged
                /\ \A h \in heads[m] : Reportable(d, job[m], h)
                => d \in report'[m]]_vars
  BY <1>1, ReportTells
<1>3. QED
  BY <1>2, LHolds, RHolds, PTL DEF Spec, ReportsAreOfTheBranch

-----------------------------------------------------------------------------
(* The invariant behind KeysNameFiles: whatever is published has a key. *)

Keyed ==
    /\ \A d \in ever : Encodable(d.path, format)
    /\ \A p \in Publishers : push[p].at = "upload" => Encodable(push[p].path, format)

NInv == KInv /\ Keyed

LEMMA KeyedKept ==
    ASSUME KInv, Keyed, [Next]_vars
    PROVE  Keyed'
<1>1. TypeOK
  BY DEF KInv
<1>2. ASSUME UNCHANGED <<ever, push, format>>
      PROVE  Keyed'
  BY <1>2 DEF Keyed
<1>3. ASSUME NEW p \in Publishers, PublishLists(p)
      PROVE  Keyed'
  <2>1. PICK path \in Paths, c \in Commits, old \in Held \union {NoDoc} :
            /\ Encodable(path, format)
            /\ push' = [push EXCEPT ![p] = [at |-> "upload", path |-> path, commit |-> c, old |-> old]]
    BY <1>3 DEF PublishLists
  <2>2. push'[p].path = path /\ \A q \in Publishers \ {p} : push'[q] = push[q]
    BY <1>1, <2>1 DEF TypeOK
  <2>3. ever' = ever /\ format' = format
    BY <1>3 DEF PublishLists, sag
  <2>4. QED
    BY <2>1, <2>2, <2>3 DEF Keyed
<1>4. ASSUME NEW p \in Publishers, PublishUploads(p)
      PROVE  Keyed'
  <2> DEFINE new == [id |-> lastId + 1, path |-> push[p].path, commit |-> push[p].commit]
  <2>1. /\ ever' = ever \union {new} /\ push[p].at = "upload" /\ format' = format
        /\ push' = [push EXCEPT ![p].at = "delete"]
    BY <1>4 DEF PublishUploads
  <2>2. Encodable(new.path, format)
    BY <2>1 DEF Keyed
  <2> HIDE DEF new
  <2>3. push'[p].at = "delete" /\ \A q \in Publishers \ {p} : push'[q] = push[q]
    BY <1>1, <2>1 DEF TypeOK, Pushes
  <2>4. QED
    BY <2>1, <2>2, <2>3 DEF Keyed
<1>5. ASSUME NEW p \in Publishers, PublishDeletes(p)
      PROVE  Keyed'
  <2>1. /\ ever' = ever /\ format' = format
        /\ push'[p].at = "idle" /\ \A q \in Publishers \ {p} : push'[q] = push[q]
    BY <1>1, <1>5 DEF PublishDeletes, TypeOK, NoPush
  <2>2. QED
    BY <2>1 DEF Keyed
<1>6. CASE MoveHead \/ TimePasses \/ UNCHANGED vars
  BY <1>2, <1>6 DEF MoveHead, TimePasses, vars, sag
<1>7. ASSUME NEW m \in Maintainers,
             \/ Begin(m) \/ Fetch(m) \/ FirstPage(m) \/ SecondPage(m) \/ NextPage(m) \/ Group(m)
             \/ TieBreak(m) \/ AppendAudit(m) \/ Finish(m) \/ Abort(m) \/ Report(m) \/ RemoveLoser(m)
      PROVE  Keyed'
  BY <1>2, <1>7 DEF Begin, Fetch, FirstPage, SecondPage, NextPage, Group, TieBreak, AppendAudit,
     Finish, Abort, Report, RemoveLoser, sag
<1>8. QED
  BY <1>3, <1>4, <1>5, <1>6, <1>7 DEF Next

LEMMA NHolds == Spec => []NInv
<1>1. Init => NInv
  <2> SUFFICES ASSUME Init
               PROVE  NInv
    OBVIOUS
  <2>1. Keyed
    BY DEF Init, Keyed, NoPush
  <2>2. QED
    BY <2>1, KInit DEF NInv
<1>2. NInv /\ [Next]_vars => NInv'
  BY KStep, KeyedKept DEF NInv
<1>3. QED
  BY <1>1, <1>2, PTL DEF Spec

\* The key of a document says which file it is: two copies of one key are versions of one
\* file, whatever has been published, unless a path has an underscore beside a slash.
THEOREM KeysKeepNamingFiles == Spec => []KeysNameFiles
<1>1. NInv => KeysNameFiles
  <2> SUFFICES ASSUME NInv
               PROVE  KeysNameFiles
    OBVIOUS
  <2> DEFINE T == STRING \union {"_", "/"}
  <2>1. ASSUME NEW d \in ever
        PROVE  d.path \in Seq(T) /\ Encodable(d.path, format)
    <3>1. d.path \in Paths
      BY DEF NInv, KInv, TypeOK, Documents
    <3>2. d.path \in Seq(STRING)
      BY <3>1, PathsAssumption
    <3>3. QED
      BY <3>2, SeqMonotonic DEF NInv, Keyed
  <2>2. format \in {"flat", "path"} /\ "_" \in T /\ "/" \in T
    BY PathsAssumption, Zenon DEF NInv, KInv, TypeOK
  <2> HIDE DEF T
  <2>3. ASSUME NEW d \in ever, ~Ambiguous(d.path)
        PROVE  DecodeKey(KeyOf(d.path), format) = d.path
    BY <2>1, <2>2, <2>3, DecodeUndoesEncode, Zenon DEF KeyOf
  <2>4. QED
    BY <2>3, Zenon DEF KeysNameFiles
<1>2. QED
  BY <1>1, NHolds, PTL
-----------------------------------------------------------------------------
(* The records of dedupe_auto_removed. *)

\* The winner had come closer to a head that the branch has really had, or had reached it
\* when the loser had not.
Justified(w, l) ==
    /\ w # l /\ EncodeKey(w.path, format) = EncodeKey(l.path, format)
    /\ \E r \in Reaches[head] : Wins(w, l, r)
    /\ require = "merged" => Rank(w) > Rank(l)

RemovalsAreJustified == \A e \in audit : Justified(e[1], e[2]) /\ e[2] \notin Held

\* The same of what a host has decided and not yet recorded.
Decided(m) ==
    /\ pc[m] \in {"remove", "audit"} => Justified(pair[m].winner, pair[m].loser)
    /\ pc[m] = "audit" => pair[m].loser \notin Held

AInv == KInv /\ RemovalsAreJustified /\ \A m \in Maintainers : Decided(m)

LEMMA WinsOverAnother ==
    ASSUME KInv, NEW a, NEW b, NEW r \in Commits, Wins(a, b, r)
    PROVE  a # b
<1>1. SUFFICES ASSUME a = b
               PROVE  FALSE
  OBVIOUS
<1>2. a.commit \in Reaches[r] /\ Behind(a.commit, r) < Behind(a.commit, r)
  BY <1>1 DEF Wins
<1>3. Behind(a.commit, r) \in Nat
  BY CommitsAssumption, FS_Difference, FS_CardinalityType DEF Behind
<1>4. QED
  BY <1>2, <1>3

\* The branch only moves forward, and ids are not used twice.
LEMMA StaysJustified ==
    ASSUME KInv, UNCHANGED <<format, require>>, NEW w, NEW l, Justified(w, l),
           head' \in Commits, head \in Reaches[head']
    PROVE  Justified(w, l)'
<1>1. Reaches[head] \subseteq Reaches[head']
  BY CommitsAssumption
<1>2. QED
  BY <1>1 DEF Justified, Wins, Behind, Rank

LEMMA StaysRemoved ==
    ASSUME KInv, [Next]_vars, NEW d \in ever, d \notin Held
    PROVE  d \notin Held'
<1>1. TypeOK /\ Orderly
  BY DEF KInv
<1>2. CASE docs' = docs
  BY <1>2 DEF Held
<1>3. ASSUME NEW p \in Publishers, PublishUploads(p)
      PROVE  d \notin Held'
  <2> DEFINE new == [id |-> lastId + 1, path |-> push[p].path, commit |-> push[p].commit]
  <2>1. docs' = Append(docs, new) /\ docs \in Seq(Documents) /\ lastId \in Nat
    BY <1>1, <1>3 DEF PublishUploads, TypeOK
  <2>2. d.id <= lastId /\ d.id \in Nat /\ new.id = lastId + 1
    BY <1>1 DEF Orderly, TypeOK, Documents
  <2>3. d # new
    BY <2>1, <2>2
  <2> HIDE DEF new
  <2>4. Held' = Held \union {new}
    BY <2>1 DEF Held
  <2>5. QED
    BY <2>3, <2>4
<1>4. ASSUME NEW e, docs' = Without(e)
      PROVE  d \notin Held'
  <2>1. Held' = Held \ {e}
    <3>1. {Without(e)[i] : i \in DOMAIN Without(e)} = Held \ {e}
      BY <1>1, WithoutOne DEF TypeOK, Orderly
    <3>2. Held' = {docs'[i] : i \in DOMAIN docs'}
      BY Zenon DEF Held
    <3>3. QED
      BY <1>4, <3>1, <3>2
  <2>2. QED
    BY <2>1
<1>5. ASSUME NEW p \in Publishers, PublishLists(p) \/ PublishDeletes(p)
      PROVE  d \notin Held'
  BY <1>2, <1>4, <1>5 DEF PublishLists, PublishDeletes, sag
<1>6. ASSUME NEW m \in Maintainers, RemoveLoser(m)
      PROVE  d \notin Held'
  BY <1>4, <1>6 DEF RemoveLoser
<1>7. ASSUME NEW m \in Maintainers,
             \/ Begin(m) \/ Fetch(m) \/ FirstPage(m) \/ SecondPage(m) \/ NextPage(m) \/ Group(m)
             \/ TieBreak(m) \/ AppendAudit(m) \/ Finish(m) \/ Abort(m) \/ Report(m)
      PROVE  d \notin Held'
  BY <1>2, <1>7 DEF Begin, Fetch, FirstPage, SecondPage, NextPage, Group, TieBreak, AppendAudit,
     Finish, Abort, Report, sag
<1>8. CASE MoveHead \/ TimePasses \/ UNCHANGED vars
  BY <1>2, <1>8 DEF MoveHead, TimePasses, vars, sag
<1>9. QED
  BY <1>3, <1>5, <1>6, <1>7, <1>8 DEF Next
LEMMA HeadMoves ==
    ASSUME TypeOK, [Next]_vars
    PROVE  UNCHANGED <<format, require>> /\ head' \in Commits /\ head \in Reaches[head']
<1>1. head \in Commits /\ head \in Reaches[head]
  BY CommitsAssumption DEF TypeOK
<1>2. CASE MoveHead
  BY <1>2 DEF MoveHead, sag
<1>3. CASE TimePasses \/ UNCHANGED vars
  BY <1>1, <1>3 DEF TimePasses, vars, sag
<1>4. ASSUME NEW p \in Publishers, PublishLists(p) \/ PublishUploads(p) \/ PublishDeletes(p)
      PROVE  UNCHANGED <<format, require, head>>
  BY <1>4 DEF PublishLists, PublishUploads, PublishDeletes, sag
<1>5. ASSUME NEW m \in Maintainers,
             \/ Begin(m) \/ Fetch(m) \/ FirstPage(m) \/ SecondPage(m) \/ NextPage(m) \/ Group(m)
             \/ TieBreak(m) \/ AppendAudit(m) \/ Finish(m) \/ Abort(m) \/ Report(m) \/ RemoveLoser(m)
      PROVE  UNCHANGED <<format, require, head>>
  BY <1>5 DEF Begin, Fetch, FirstPage, SecondPage, NextPage, Group, TieBreak, AppendAudit,
     Finish, Abort, Report, RemoveLoser, sag
<1>6. QED
  BY <1>1, <1>2, <1>3, <1>4, <1>5 DEF Next

LEMMA StaysTrue ==
    ASSUME AInv, [Next]_vars
    PROVE  /\ \A w, l : Justified(w, l) => Justified(w, l)'
           /\ \A d \in ever : d \notin Held => d \notin Held'
<1>1. UNCHANGED <<format, require>> /\ head' \in Commits /\ head \in Reaches[head']
  BY HeadMoves DEF AInv, KInv
<1>2. \A w, l : Justified(w, l) => Justified(w, l)'
  BY <1>1, StaysJustified DEF AInv
<1>3. QED
  BY <1>2, StaysRemoved DEF AInv

LEMMA RecordsStay ==
    ASSUME AInv, [Next]_vars
    PROVE  \A e \in audit : Justified(e[1], e[2])' /\ e[2] \notin Held'
<1>1. \A e \in audit : e[2] \in ever
  BY DEF AInv, KInv, TypeOK
<1>2. QED
  BY <1>1, StaysTrue DEF AInv, RemovalsAreJustified

LEMMA DecidedStays ==
    ASSUME AInv, [Next]_vars, NEW n \in Maintainers, pc'[n] = pc[n], pair'[n] = pair[n]
    PROVE  Decided(n)'
<1>1. pc[n] = "audit" => pair[n].loser \in ever
  BY DEF AInv, KInv, Pairing
<1>2. QED
  BY <1>1, StaysTrue DEF AInv, Decided

\* What a host decides is so for the head that it has just fetched.
LEMMA TieBreakDecides ==
    ASSUME AInv, [Next]_vars, NEW m \in Maintainers, TieBreak(m)
    PROVE  Decided(m)'
<1>1. TypeOK /\ KInv
  BY DEF AInv, KInv
<1>2. CASE \E key \in todo[m] : NextKey(m, key)
  BY <1>1, <1>2 DEF NextKey, Decided, TypeOK
<1>3. CASE ~\E key \in todo[m] : NextKey(m, key)
  <2>1. PICK key \in todo[m] :
            \E a, b \in Copies(key, listing[m]) :
                 Wins(a, b, head) /\ pair' = [pair EXCEPT ![m] = [winner |-> a, loser |-> b]]
    BY <1>3 DEF TieBreak
  <2>2. PICK a \in Copies(key, listing[m]), b \in Copies(key, listing[m]) :
            Wins(a, b, head) /\ pair' = [pair EXCEPT ![m] = [winner |-> a, loser |-> b]]
    BY <2>1
  <2>3. a \in ever /\ b \in ever /\ EncodeKey(a.path, format) = EncodeKey(b.path, format)
    BY <1>1 DEF Copies, KeyOf, TypeOK
  <2>4. require = "merged" => Rank(a) > Rank(b)
    BY <1>1, <2>2, <2>3, WinnersBeat
  <2>5. head \in Commits /\ head \in Reaches[head]
    BY <1>1, CommitsAssumption DEF TypeOK
  <2>6. a # b
    BY <1>1, <2>2, <2>5, WinsOverAnother
  <2>7. Justified(a, b)
    BY <2>2, <2>3, <2>4, <2>5, <2>6 DEF Justified
  <2>8. Justified(a, b)'
    BY <2>7, StaysTrue
  <2>9. pc'[m] = "remove" /\ pair'[m].winner = a /\ pair'[m].loser = b
    BY <1>1, <1>3, <2>2 DEF TieBreak, TypeOK
  <2>10. QED
    BY <2>8, <2>9 DEF Decided
<1>4. QED
  BY <1>2, <1>3

LEMMA RemoveLoserDecides ==
    ASSUME AInv, [Next]_vars, NEW m \in Maintainers, RemoveLoser(m)
    PROVE  Decided(m)'
<1>1. TypeOK /\ Orderly
  BY DEF AInv, KInv
<1>2. /\ pc[m] = "remove" /\ pc'[m] = "audit" /\ pair' = pair
      /\ docs' = Without(pair[m].loser)
  BY <1>1 DEF RemoveLoser, TypeOK
<1>3. pair[m].loser \notin Held'
  <2>1. {Without(pair[m].loser)[i] : i \in DOMAIN Without(pair[m].loser)} = Held \ {pair[m].loser}
    BY <1>1, WithoutOne DEF TypeOK, Orderly
  <2>2. Held' = {docs'[i] : i \in DOMAIN docs'}
    BY Zenon DEF Held
  <2>3. QED
    BY <1>2, <2>1, <2>2
<1>4. Justified(pair[m].winner, pair[m].loser)
  BY <1>2 DEF AInv, Decided
<1>5. QED
  BY <1>2, <1>3, <1>4, StaysTrue DEF Decided

LEMMA AHolds == Spec => []AInv
<1>1. Init => AInv
  <2> SUFFICES ASSUME Init
               PROVE  AInv
    OBVIOUS
  <2>1. audit = {} /\ \A m \in Maintainers : pc[m] = "idle"
    BY DEF Init
  <2>2. QED
    BY <2>1, KInit DEF AInv, RemovalsAreJustified, Decided
<1>2. AInv /\ [Next]_vars => AInv'
  <2> SUFFICES ASSUME AInv, [Next]_vars
               PROVE  AInv'
    OBVIOUS
  <2>1. KInv' /\ TypeOK
    BY KStep DEF AInv, KInv
  <2>2. SUFFICES RemovalsAreJustified' /\ \A n \in Maintainers : Decided(n)'
    BY <2>1 DEF AInv
  <2>3. ASSUME UNCHANGED <<pc, pair, audit>>
        PROVE  RemovalsAreJustified' /\ \A n \in Maintainers : Decided(n)'
    BY <2>3, RecordsStay, DecidedStays DEF RemovalsAreJustified
  <2>4. CASE MoveHead \/ TimePasses \/ UNCHANGED vars
             \/ \E p \in Publishers : PublishLists(p) \/ PublishUploads(p) \/ PublishDeletes(p)
    BY <2>3, <2>4 DEF MoveHead, TimePasses, vars, run, PublishLists, PublishUploads, PublishDeletes
  \* A step of m whose own place and pair are settled.
  <2>5. ASSUME NEW m \in Maintainers, Decided(m)', audit' = audit,
               \A n \in Maintainers \ {m} : pc'[n] = pc[n] /\ pair'[n] = pair[n]
        PROVE  RemovalsAreJustified' /\ \A n \in Maintainers : Decided(n)'
    BY <2>5, RecordsStay, DecidedStays DEF RemovalsAreJustified
  <2>6. ASSUME NEW m \in Maintainers,
               Begin(m) \/ Fetch(m) \/ FirstPage(m) \/ SecondPage(m) \/ Report(m)
        PROVE  RemovalsAreJustified' /\ \A n \in Maintainers : Decided(n)'
    <3>1. /\ audit' = audit /\ pair' = pair /\ pc'[m] \notin {"remove", "audit"}
          /\ \A n \in Maintainers \ {m} : pc'[n] = pc[n]
      BY <2>1, <2>6 DEF Begin, Fetch, FirstPage, SecondPage, Report, TypeOK
    <3>2. Decided(m)'
      BY <3>1 DEF Decided
    <3>3. QED
      BY <2>5, <3>1, <3>2
  <2>7. ASSUME NEW m \in Maintainers, NextPage(m)
        PROVE  RemovalsAreJustified' /\ \A n \in Maintainers : Decided(n)'
    <3>1. /\ audit' = audit /\ pair' = pair /\ pc'[m] \notin {"remove", "audit"}
          /\ \A n \in Maintainers \ {m} : pc'[n] = pc[n]
      BY <2>1, <2>7 DEF NextPage, TypeOK
    <3>2. Decided(m)'
      BY <3>1 DEF Decided
    <3>3. QED
      BY <2>5, <3>1, <3>2
  <2>8. ASSUME NEW m \in Maintainers, Group(m) \/ Finish(m) \/ Abort(m)
        PROVE  RemovalsAreJustified' /\ \A n \in Maintainers : Decided(n)'
    <3>1. /\ audit' = audit /\ pc'[m] \notin {"remove", "audit"}
          /\ \A n \in Maintainers \ {m} : pc'[n] = pc[n] /\ pair'[n] = pair[n]
      BY <2>1, <2>8 DEF Group, Finish, Abort, Close, TypeOK
    <3>2. Decided(m)'
      BY <3>1 DEF Decided
    <3>3. QED
      BY <2>5, <3>1, <3>2
  <2>9. ASSUME NEW m \in Maintainers, TieBreak(m)
        PROVE  RemovalsAreJustified' /\ \A n \in Maintainers : Decided(n)'
    <3>1. audit' = audit /\ \A n \in Maintainers \ {m} : pc'[n] = pc[n] /\ pair'[n] = pair[n]
      BY <2>1, <2>9 DEF TieBreak, NextKey, TypeOK
    <3>2. QED
      BY <2>5, <2>9, <3>1, TieBreakDecides
  <2>10. ASSUME NEW m \in Maintainers, RemoveLoser(m)
         PROVE  RemovalsAreJustified' /\ \A n \in Maintainers : Decided(n)'
    <3>1. audit' = audit /\ \A n \in Maintainers \ {m} : pc'[n] = pc[n] /\ pair'[n] = pair[n]
      BY <2>1, <2>10 DEF RemoveLoser, TypeOK
    <3>2. QED
      BY <2>5, <2>10, <3>1, RemoveLoserDecides
  <2>11. ASSUME NEW m \in Maintainers, AppendAudit(m)
         PROVE  RemovalsAreJustified' /\ \A n \in Maintainers : Decided(n)'
    <3>1. /\ pc[m] = "audit" /\ pc'[m] = "group"
          /\ audit' = audit \union {<<pair[m].winner, pair[m].loser>>}
          /\ \A n \in Maintainers \ {m} : pc'[n] = pc[n] /\ pair'[n] = pair[n]
      BY <2>1, <2>11 DEF AppendAudit, NextKey, TypeOK
    <3>2. PICK w \in ever, l \in ever : pair[m].winner = w /\ pair[m].loser = l
      BY <3>1 DEF AInv, KInv, Pairing
    <3>3. Justified(w, l) /\ l \notin Held
      BY <3>1, <3>2 DEF AInv, Decided
    <3>4. Justified(w, l)' /\ l \notin Held'
      BY <3>3, StaysTrue
    <3>5. audit' = audit \union {<<w, l>>}
      BY <3>1, <3>2
    <3>6. RemovalsAreJustified'
      BY <3>4, <3>5, RecordsStay DEF RemovalsAreJustified
    <3>7. Decided(m)'
      BY <3>1 DEF Decided
    <3>8. QED
      BY <3>1, <3>6, <3>7, DecidedStays
  <2>12. QED
    BY <2>4, <2>6, <2>7, <2>8, <2>9, <2>10, <2>11 DEF Next
<1>3. QED
  BY <1>1, <1>2, PTL DEF Spec

\* Any number of hosts that dedupe at the same time, on listings that may be old, while
\* documents are replaced and the branch moves on: every recorded removal was right for a
\* head that the branch has had, never set a key back where merged commits are required, and
\* stays done.
THEOREM DedupeRecordsAreJustified == Spec => []RemovalsAreJustified
<1>1. AInv => RemovalsAreJustified
  BY DEF AInv
<1>2. QED
  BY <1>1, AHolds, PTL
=============================================================================
