-------------------------- MODULE FrontEndsProofs ---------------------------
(* Theorems about FrontEnds, for any processes, workloads, timeouts, faults *)
(* and blips.                                                               *)
EXTENDS FrontEnds, SequenceTheorems, TLAPS

LEMMA Bounds ==
    /\ WaitTimeout \in Nat /\ RequestTimeout \in Nat
    /\ MaxFaults \in Nat /\ MaxBlips \in Nat /\ NoDoc \notin Nat
BY FrontEndsAssumption

USE Bounds

-----------------------------------------------------------------------------
(* What SAG and the logs only ever gain. *)

ReadyWasServed == \A d \in DOMAIN docs : docs[d] = "ready" => d \in served

Published == {"publish", "publish_wait"}

LEMMA WorkOf ==
    ASSUME TypeOK, NEW p \in Procs
    PROVE  sent[p] \in Seq(Lines \union Calls) /\ Len(sent[p]) \in Nat
<1>1. sent \in Workloads
  BY DEF TypeOK
<1>2. sent \in [Procs -> Seq(Lines \union Calls)]
  BY <1>1, FrontEndsAssumption
<1>3. QED
  BY <1>2

\* The documents of a step: no id comes back, and a document is ready only if it was served.
Grows ==
    /\ lastId' \in Nat /\ lastId' >= lastId
    /\ DOMAIN docs' \subseteq 1 .. lastId'
    /\ \A d \in DOMAIN docs' : docs'[d] \in Statuses /\ (docs'[d] = "ready" => d \in served')
    /\ \A d \in 1 .. lastId : d \in DOMAIN docs' => d \in DOMAIN docs
    /\ audit \subseteq audit' /\ hit \subseteq hit'
    /\ served \subseteq served' /\ served' \subseteq 1 .. lastId'

LEMMA ChangeGrows ==
    ASSUME TypeOK, ReadyWasServed, NEW p \in Procs,
           Change(p) \/ (docs' = Without(job[p].existing) /\ lastId' = lastId)
              \/ (docs' = docs /\ lastId' = lastId),
           served' = served, audit \subseteq audit', hit \subseteq hit'
    PROVE  Grows
<1> USE DEF TypeOK, ReadyWasServed, Grows, Statuses
<1>1. CASE Upload(job[p].existing)
  BY <1>1 DEF Upload
<1>2. CASE docs' = Without(job[p].existing) /\ lastId' = lastId
  BY <1>2 DEF Without
<1>3. CASE job[p].existing \in DOMAIN docs /\ docs' = With(job[p].existing, "pending")
           /\ lastId' = lastId
  BY <1>3 DEF With
<1>4. CASE docs' = docs /\ lastId' = lastId
  BY <1>4
<1>5. QED
  BY <1>1, <1>2, <1>3, <1>4 DEF Change

LEMMA AllGrows == TypeOK /\ ReadyWasServed /\ [Next]_vars => Grows
<1> SUFFICES ASSUME TypeOK, ReadyWasServed, [Next]_vars
             PROVE  Grows
  OBVIOUS
<1>1. ASSUME sag' = sag, served' = served, audit \subseteq audit', hit \subseteq hit'
      PROVE  Grows
  BY <1>1 DEF sag, TypeOK, ReadyWasServed, Grows
<1>2. ASSUME NEW p \in Procs,
             \/ Ignore(p) \/ Hello(p) \/ Refuse(p) \/ Stumble(p) \/ Call(p) \/ Answer(p) \/ Find(p)
             \/ StopWaiting(p) \/ PollFindsNothing(p) \/ Poll(p) \/ Blip(p) \/ Sleep(p)
      PROVE  Grows
  BY <1>1, <1>2 DEF Ignore, Hello, Refuse, Stumble, Call, Answer, Find, StopWaiting,
     PollFindsNothing, Poll, Blip, Sleep, TakeLine, history
<1>3. ASSUME NEW p \in Procs, Record(p) \/ RecordFails(p) \/ Kill(p)
      PROVE  Grows
  BY <1>1, <1>3 DEF Record, RecordFails, Kill, CountFault, history
<1>4. ASSUME NEW p \in Procs, Effect(p)
      PROVE  Grows
  BY <1>1, <1>4, ChangeGrows DEF Effect, history
<1>5. ASSUME NEW p \in Procs, RequestFails(p)
      PROVE  Grows
  BY <1>1, <1>5, ChangeGrows DEF RequestFails, CountFault
<1>6. ASSUME NEW d \in DOMAIN docs, Ingest(d)
      PROVE  Grows
  BY <1>6 DEF Ingest, TypeOK, ReadyWasServed, Grows, Statuses
<1>7. CASE UNCHANGED vars
  BY <1>1, <1>7 DEF vars, history
<1>8. QED
  BY <1>2, <1>3, <1>4, <1>5, <1>6, <1>7 DEF Next, Proceed

-----------------------------------------------------------------------------
(* What holds of one process, in the world as it is: the documents and the last id in *)
(* SAG, the audit log, and the histories.                                             *)

Now == [ids |-> DOMAIN docs, last |-> lastId, log |-> audit, was |-> served, hits |-> hit]

Jobs == [existing : Nat \union {NoDoc}, doc : Nat \union {NoDoc}, seen : Statuses,
         clock : Nat, delay : 16 .. 80, result : Results]
Told == [line : Nat, id : Nat, result : Results, doc : Nat \union {NoDoc}]
Busy == Places \ {"idle", "exited", "dead"}
Working == {"find", "effect", "record", "poll", "sleep"}

\* What an answer to op says of the world w.
True_(op, result, doc, w, who) ==
    /\ op \in Calls \ {"status"} /\ result \in {"done", "ready"} =>
          /\ doc \in 1 .. w.last /\ <<Event(op), doc>> \in w.log
          /\ op = "unpublish" => doc \notin w.ids
    /\ op = "publish_wait" =>
          /\ result = "ready" => doc \in w.was
          /\ result = "api_error" /\ doc # NoDoc => who \in w.hits \/ (doc \in 1 .. w.last /\ doc \notin w.ids)

\* What a call has reached at each place.
Sound(op, place, j, w, who) ==
    /\ place \in Working => op \in Calls
    /\ place \in Working \union {"idle"} => j.seen \in {"none", "pending"}
    /\ place \in {"idle", "find"} => j.existing = NoDoc
    /\ place = "effect" =>
          op # "status" /\ (j.existing \in 1 .. w.last \/ (j.existing = NoDoc /\ op \in Published))
    /\ place \in {"record", "poll", "sleep"} =>
          op # "status" /\ j.doc \in 1 .. w.last /\ (op = "unpublish" => j.doc \notin w.ids)
    /\ place \in {"poll", "sleep"} =>
          op = "publish_wait" /\ <<"publish", j.doc>> \in w.log
    /\ place = "answer" => True_(op, j.result, j.doc, w, who)

\* Which lines have their answer.
Ordered(work, n, place, ans) ==
    /\ place \in Busy =>
          /\ n >= 1 /\ work[n] # "notice"
          /\ \A i \in 1 .. Len(ans) : ans[i].line < n
    /\ \A i \in 1 .. Len(ans) : ans[i].line \in 1 .. n /\ work[ans[i].line] # "notice"
    /\ \A i \in 1 .. n : work[i] # "notice" =>
          \/ \E k \in 1 .. Len(ans) : ans[k].line = i
          \/ i = n /\ place \notin {"idle", "exited"}
    /\ \A i, k \in 1 .. Len(ans) : i < k => ans[i].line < ans[k].line

AnswersTrue(p, work, ans, w) ==
    \A i \in 1 .. Len(ans) :
        True_(work[ans[i].line], ans[i].result, ans[i].doc, w, <<p, ans[i].line>>)

\* Under which id an answer is given.
Labelled(p, ans) == \A i \in 1 .. Len(ans) : ans[i].id = Id(p, ans[i].line)

Fine(p, work, n, place, j, ans, w) ==
    /\ n \in Nat /\ n <= Len(work)
    /\ place \in Places /\ j \in Jobs /\ ans \in Seq(Told)
    /\ j.clock <= WaitTimeout + RequestTimeout
    /\ Sound(work[n], place, j, w, <<p, n>>)
    /\ Ordered(work, n, place, ans)
    /\ AnswersTrue(p, work, ans, w)
    /\ Labelled(p, ans)

Rest ==
    /\ audit \subseteq (Calls \X (1 .. lastId))
    /\ faults \in 0 .. MaxFaults /\ blips \in 0 .. MaxBlips
    /\ hit \subseteq (Procs \X Nat)

IInv ==
    /\ TypeOK /\ ReadyWasServed
    /\ \A p \in Procs : Fine(p, sent[p], line[p], pc[p], job[p], answers[p], Now)

LEMMA TrueLater ==
    ASSUME TypeOK, Grows, NEW op, NEW result, NEW doc, NEW who,
           True_(op, result, doc, Now, who)
    PROVE  True_(op, result, doc, Now', who)
BY DEF Now, True_, Grows, TypeOK

LEMMA SoundLater ==
    ASSUME TypeOK, Grows, NEW op, NEW place, NEW j, NEW who, Sound(op, place, j, Now, who)
    PROVE  Sound(op, place, j, Now', who)
<1>1. place = "answer" => True_(op, j.result, j.doc, Now', who)
  BY TrueLater DEF Sound
<1>2. /\ Now'.last >= Now.last /\ Now.last \in Nat /\ Now'.last \in Nat
      /\ Now.log \subseteq Now'.log
      /\ \A d \in 1 .. Now.last : d \notin Now.ids => d \notin Now'.ids
  BY DEF Now, Grows, TypeOK
<1>3. QED
  BY <1>1, <1>2 DEF Sound

LEMMA AnswersLater ==
    ASSUME TypeOK, Grows, NEW p, NEW work, NEW ans, AnswersTrue(p, work, ans, Now)
    PROVE  AnswersTrue(p, work, ans, Now')
<1>1. ASSUME NEW i \in 1 .. Len(ans)
      PROVE  True_(work[ans[i].line], ans[i].result, ans[i].doc, Now', <<p, ans[i].line>>)
  <2>1. True_(work[ans[i].line], ans[i].result, ans[i].doc, Now, <<p, ans[i].line>>)
    BY DEF AnswersTrue
  <2>2. QED
    BY <2>1, TrueLater
<1>2. QED
  BY <1>1 DEF AnswersTrue

LEMMA FineLater ==
    ASSUME TypeOK, Grows, NEW p, NEW work, NEW n, NEW place, NEW j, NEW ans,
           Fine(p, work, n, place, j, ans, Now)
    PROVE  Fine(p, work, n, place, j, ans, Now')
<1>1. Sound(work[n], place, j, Now', <<p, n>>)
  BY SoundLater DEF Fine
<1>2. AnswersTrue(p, work, ans, Now')
  BY AnswersLater DEF Fine
<1>3. QED
  BY <1>1, <1>2 DEF Fine

\* A step of p alone preserves the invariant if it leaves p in order.
LEMMA Turn ==
    ASSUME IInv, Grows, NEW p \in Procs, NEW n, NEW place, NEW j, NEW ans,
           sent' = sent, line' = [line EXCEPT ![p] = n], pc' = [pc EXCEPT ![p] = place],
           job' = [job EXCEPT ![p] = j], answers' = [answers EXCEPT ![p] = ans],
           Fine(p, sent[p], n, place, j, ans, Now'), Rest'
    PROVE  IInv'
<1>1. TypeOK
  BY DEF IInv
<1>2. \A q \in Procs : Fine(q, sent[q], line'[q], pc'[q], job'[q], answers'[q], Now')
  <2> TAKE q \in Procs
  <2>1. Fine(q, sent[q], line[q], pc[q], job[q], answers[q], Now')
    BY <1>1, FineLater DEF IInv
  <2>2. CASE q = p
    BY <1>1, <2>2 DEF TypeOK
  <2>3. CASE q # p
    BY <1>1, <2>1, <2>3 DEF TypeOK
  <2>4. QED
    BY <2>2, <2>3
<1>3. (\A q \in Procs : Fine(q, sent[q], line[q], pc[q], job[q], answers[q], Now))'
  BY <1>2
<1>4. ReadyWasServed'
  BY DEF ReadyWasServed, Grows
<1>5. TypeOK'
  <2>1. /\ n \in Nat /\ n <= Len(sent[p]) /\ place \in Places /\ j \in Jobs /\ ans \in Seq(Told)
    BY DEF Fine
  <2>2. /\ line' \in [Procs -> Nat] /\ \A q \in Procs : line'[q] <= Len(sent[q])
    BY <1>1, <2>1 DEF TypeOK
  <2>3. pc' \in [Procs -> Places] /\ job' \in [Procs -> Jobs] /\ answers' \in [Procs -> Seq(Told)]
    BY <1>1, <2>1 DEF TypeOK, Jobs, Told
  <2>4. QED
    BY <1>1, <2>2, <2>3 DEF TypeOK, Jobs, Told, Grows, Rest
<1>6. QED
  BY <1>3, <1>4, <1>5 DEF IInv

-----------------------------------------------------------------------------
(* Lines and their answers. *)

LEMMA OrderedTake ==
    ASSUME NEW work, NEW n \in Nat, NEW place, NEW ans \in Seq(Told), Ordered(work, n, "idle", ans),
           \/ place = "idle" /\ work[n + 1] = "notice"
           \/ place \in Busy \union {"dead"} /\ work[n + 1] # "notice"
    PROVE  Ordered(work, n + 1, place, ans)
<1>1. \A i \in 1 .. Len(ans) : ans[i].line \in 1 .. n /\ work[ans[i].line] # "notice"
  BY DEF Ordered
<1>2. \A i \in 1 .. n : work[i] # "notice" => \E k \in 1 .. Len(ans) : ans[k].line = i
  BY DEF Ordered
<1>3. \A i \in 1 .. n + 1 : work[i] # "notice" =>
          \/ \E k \in 1 .. Len(ans) : ans[k].line = i
          \/ i = n + 1 /\ place \notin {"idle", "exited"}
  BY <1>2 DEF Busy, Places
<1>4. \A i, k \in 1 .. Len(ans) : i < k => ans[i].line < ans[k].line
  BY DEF Ordered
<1>5. \A i \in 1 .. Len(ans) : ans[i].line < n + 1 /\ ans[i].line \in 1 .. n + 1
  BY <1>1
<1>6. place \in Busy => n + 1 >= 1 /\ work[n + 1] # "notice"
  BY DEF Busy
<1>7. QED
  BY <1>1, <1>3, <1>4, <1>5, <1>6 DEF Ordered

LEMMA OrderedStay ==
    ASSUME NEW work, NEW n \in Nat, NEW old, NEW place, NEW ans, Ordered(work, n, old, ans),
           place = "dead" \/ (old \in Busy /\ place \in Busy)
    PROVE  Ordered(work, n, place, ans)
BY DEF Ordered, Busy, Places

LEMMA OrderedAnswer ==
    ASSUME NEW work, NEW n \in Nat, NEW place \in {"idle", "exited"}, NEW ans \in Seq(Told),
           NEW a \in Told, a.line = n, Ordered(work, n, "answer", ans)
    PROVE  Ordered(work, n, place, Append(ans, a))
<1> DEFINE all == Append(ans, a)
<1>1. /\ all \in Seq(Told) /\ Len(all) = Len(ans) + 1 /\ all[Len(ans) + 1] = a /\ Len(ans) \in Nat
      /\ \A i \in 1 .. Len(ans) : all[i] = ans[i]
  BY AppendProperties
<1> HIDE DEF all
<1>2. n >= 1 /\ work[n] # "notice" /\ \A i \in 1 .. Len(ans) : ans[i].line < n
  BY DEF Ordered, Busy, Places
<1>3. \A i \in 1 .. Len(all) : all[i].line \in 1 .. n /\ work[all[i].line] # "notice"
  BY <1>1, <1>2 DEF Ordered
<1>4. \A i \in 1 .. n : work[i] # "notice" => \E k \in 1 .. Len(all) : all[k].line = i
  <2> TAKE i \in 1 .. n
  <2> HAVE work[i] # "notice"
  <2>1. CASE i = n
    BY <1>1, <2>1
  <2>2. CASE i # n
    <3>1. PICK k \in 1 .. Len(ans) : ans[k].line = i
      BY <2>2 DEF Ordered
    <3>2. QED
      BY <1>1, <3>1
  <2>3. QED
    BY <2>1, <2>2
<1>5. \A i, k \in 1 .. Len(all) : i < k => all[i].line < all[k].line
  <2> TAKE i, k \in 1 .. Len(all)
  <2> HAVE i < k
  <2>1. i \in 1 .. Len(ans) /\ all[i] = ans[i]
    BY <1>1
  <2>2. CASE k = Len(ans) + 1
    BY <1>1, <1>2, <2>1, <2>2
  <2>3. CASE k # Len(ans) + 1
    <3>1. k \in 1 .. Len(ans) /\ all[k] = ans[k]
      BY <1>1, <2>3
    <3>2. QED
      BY <2>1, <3>1 DEF Ordered
  <2>4. QED
    BY <2>2, <2>3
<1>6. place \notin Busy
  BY DEF Busy
<1>7. Ordered(work, n, place, all)
  BY <1>3, <1>4, <1>5, <1>6 DEF Ordered
<1>8. QED
  BY <1>7 DEF all

\* The running call of p moves on.
LEMMA WorkTurn ==
    ASSUME IInv, Grows, NEW p \in Procs, NEW place \in Busy, NEW j \in Jobs,
           sent' = sent, line' = line, answers' = answers,
           pc' = [pc EXCEPT ![p] = place], job' = [job EXCEPT ![p] = j],
           pc[p] \in Busy, j.clock <= WaitTimeout + RequestTimeout,
           Sound(Op(p), place, j, Now', <<p, line[p]>>), Rest'
    PROVE  IInv'
<1>1. Fine(p, sent[p], line[p], pc[p], job[p], answers[p], Now') /\ TypeOK
  BY FineLater DEF IInv
<1>2. Ordered(sent[p], line[p], place, answers[p])
  BY <1>1, OrderedStay DEF Fine
<1>3. Fine(p, sent[p], line[p], place, j, answers[p], Now')
  BY <1>1, <1>2 DEF Fine, Op, Busy
<1>4. line' = [line EXCEPT ![p] = line[p]] /\ answers' = [answers EXCEPT ![p] = answers[p]]
  BY <1>1 DEF TypeOK
<1>5. QED
  BY <1>3, <1>4, Turn

\* p takes a line.
LEMMA TakeTurn ==
    ASSUME IInv, Grows, NEW p \in Procs, NEW kinds, NEW place \in Places, NEW j \in Jobs,
           TakeLine(p, kinds),
           pc' = [pc EXCEPT ![p] = place], job' = [job EXCEPT ![p] = j],
           \/ place = "idle" /\ kinds = {"notice"}
           \/ place \in Busy \union {"dead"} /\ "notice" \notin kinds,
           j.clock <= WaitTimeout + RequestTimeout,
           Sound(sent[p][line[p] + 1], place, j, Now', <<p, line[p] + 1>>)
    PROVE  IInv'
<1>1. Fine(p, sent[p], line[p], pc[p], job[p], answers[p], Now') /\ TypeOK
  BY FineLater DEF IInv
<1>2. Ordered(sent[p], line[p] + 1, place, answers[p])
  BY <1>1, OrderedTake DEF Fine, TakeLine
<1>3. Fine(p, sent[p], line[p] + 1, place, j, answers[p], Now')
  BY <1>1, <1>2, WorkOf DEF Fine, TakeLine
<1>4. /\ line' = [line EXCEPT ![p] = line[p] + 1] /\ sent' = sent
      /\ answers' = [answers EXCEPT ![p] = answers[p]]
  BY <1>1 DEF TakeLine, TypeOK
<1>5. Rest'
  BY <1>1 DEF Rest, TypeOK, TakeLine, sag, history
<1>6. QED
  BY <1>3, <1>4, <1>5, Turn

\* The running call of p ends.
LEMMA FinishTurn ==
    ASSUME IInv, Grows, NEW p \in Procs, NEW result \in Results,
           sent' = sent, line' = line, answers' = answers, pc[p] \in Busy, Finish(p, result),
           True_(Op(p), result, job[p].doc, Now', <<p, line[p]>>), Rest'
    PROVE  IInv'
<1> DEFINE j == [job[p] EXCEPT !.result = result]
<1>1. job[p] \in Jobs /\ job[p].clock <= WaitTimeout + RequestTimeout
  BY DEF IInv, Fine
<1>2. j \in Jobs /\ j.clock = job[p].clock /\ j.result = result /\ j.doc = job[p].doc
  BY <1>1 DEF Jobs
<1>3. pc' = [pc EXCEPT ![p] = "answer"] /\ job' = [job EXCEPT ![p] = j]
  BY DEF Finish, Goto
<1> HIDE DEF j
<1>4. Sound(Op(p), "answer", j, Now', <<p, line[p]>>)
  BY <1>2 DEF Sound, Working
<1>5. "answer" \in Busy
  BY DEF Busy, Places
<1>6. QED
  BY <1>1, <1>2, <1>3, <1>4, <1>5, WorkTurn

-----------------------------------------------------------------------------
(* Every action preserves the invariant. *)

LEMMA JobFacts ==
    ASSUME IInv, NEW p \in Procs
    PROVE  /\ job[p] \in Jobs /\ job[p].clock <= WaitTimeout + RequestTimeout
           /\ job[p].clock \in Nat /\ job[p].delay \in 16 .. 80
           /\ NoJob \in Jobs /\ NoJob.clock <= WaitTimeout + RequestTimeout
           /\ Sound(Op(p), pc[p], job[p], Now, <<p, line[p]>>)
           /\ job' = job => job' = [job EXCEPT ![p] = job[p]]
           /\ pc' = pc => pc' = [pc EXCEPT ![p] = pc[p]]
BY DEF IInv, Fine, NoJob, Jobs, Statuses, Results, TypeOK, Op

LEMMA LineKinds == "notice" \notin Calls /\ Published \subseteq Calls
BY DEF Calls, Published

LEMMA TakingKeeps ==
    ASSUME IInv, Grows, NEW p \in Procs,
           Ignore(p) \/ Hello(p) \/ Refuse(p) \/ Stumble(p) \/ Call(p)
    PROVE  IInv'
<1> USE JobFacts, LineKinds DEF Places, Busy, Goto
<1>1. CASE Ignore(p)
  <2>1. pc[p] = "idle" /\ pc' = [pc EXCEPT ![p] = "idle"] /\ job' = [job EXCEPT ![p] = job[p]]
    BY <1>1 DEF Ignore, TakeLine
  <2>2. Sound(sent[p][line[p] + 1], "idle", job[p], Now', <<p, line[p] + 1>>)
    BY <2>1 DEF Sound, Working
  <2>3. QED
    BY <1>1, <2>1, <2>2, TakeTurn DEF Ignore
<1>2. CASE Hello(p) \/ Refuse(p)
  <2>1. PICK r \in {"done", "error"} :
            Finish(p, r) /\ TakeLine(p, IF r = "done" THEN {"hello"} ELSE {"unknown", "invalid"})
    BY <1>2 DEF Hello, Refuse
  <2> DEFINE j == [job[p] EXCEPT !.result = r]
  <2>2. j \in Jobs /\ j.clock = job[p].clock
    BY DEF Jobs, Results
  <2>3. pc' = [pc EXCEPT ![p] = "answer"] /\ job' = [job EXCEPT ![p] = j]
    BY <2>1 DEF Finish
  <2> HIDE DEF j
  <2>4. Sound(sent[p][line[p] + 1], "answer", j, Now', <<p, line[p] + 1>>)
    BY <2>1 DEF Sound, True_, Working, TakeLine, Calls
  <2>5. QED
    BY <2>1, <2>2, <2>3, <2>4, TakeTurn
<1>3. CASE Stumble(p)
  <2>1. pc' = [pc EXCEPT ![p] = "dead"] /\ job' = [job EXCEPT ![p] = job[p]]
    BY <1>3 DEF Stumble
  <2>2. Sound(sent[p][line[p] + 1], "dead", job[p], Now', <<p, line[p] + 1>>)
    BY DEF Sound, Working
  <2>3. QED
    BY <1>3, <2>1, <2>2, TakeTurn DEF Stumble
<1>4. CASE Call(p)
  <2>1. pc' = [pc EXCEPT ![p] = "find"] /\ job' = [job EXCEPT ![p] = job[p]]
    BY <1>4 DEF Call
  <2>2. Sound(sent[p][line[p] + 1], "find", job[p], Now', <<p, line[p] + 1>>)
    BY <1>4 DEF Sound, Working, Call, TakeLine
  <2>3. QED
    BY <1>4, <2>1, <2>2, TakeTurn DEF Call
<1>5. QED
  BY <1>1, <1>2, <1>3, <1>4

LEMMA RestStays ==
    ASSUME IInv, Grows, audit' = audit, faults' = faults, blips' \in 0 .. MaxBlips, hit' = hit
    PROVE  Rest'
BY DEF Rest, IInv, TypeOK, Grows

LEMMA FindKeeps ==
    ASSUME IInv, Grows, NEW p \in Procs, Find(p)
    PROVE  IInv'
<1>1. Rest' /\ sent' = sent /\ line' = line /\ answers' = answers /\ pc[p] = "find" /\ TypeOK
  BY RestStays DEF Find, history, IInv, TypeOK
<1>2. Op(p) \in Calls /\ job[p].seen \in {"none", "pending"}
  BY <1>1, JobFacts DEF Sound, Working
<1>3. ASSUME NEW result \in {"error", "done"}, Finish(p, result), result = "done" => Op(p) = "status"
      PROVE  IInv'
  BY <1>1, <1>3, FinishTurn DEF True_, Results, Busy, Places
<1>4. ASSUME NEW j \in Jobs, job' = [job EXCEPT ![p] = j], Goto(p, "effect"),
             j.clock = job[p].clock, j.seen = job[p].seen, Op(p) # "status",
             j.existing \in 1 .. Now'.last \/ (j.existing = NoDoc /\ Op(p) \in Published)
      PROVE  IInv'
  <2>1. Sound(Op(p), "effect", j, Now', <<p, line[p]>>)
    BY <1>2, <1>4 DEF Sound, Working
  <2>2. QED
    BY <1>1, <1>4, <2>1, WorkTurn, JobFacts DEF Goto, Busy, Places
<1>5. ASSUME NEW d \in DOMAIN docs, job' = [job EXCEPT ![p].existing = d], Goto(p, "effect"),
             Op(p) # "status"
      PROVE  IInv'
  <2> DEFINE j == [job[p] EXCEPT !.existing = d]
  <2>1. d \in Nat /\ d \in 1 .. Now'.last
    BY <1>1 DEF TypeOK, Now, Grows
  <2>2. /\ job' = [job EXCEPT ![p] = j] /\ j \in Jobs /\ j.clock = job[p].clock
        /\ j.seen = job[p].seen /\ j.existing = d
    BY <1>5, <2>1, JobFacts DEF Jobs
  <2> HIDE DEF j
  <2>3. QED
    BY <1>4, <1>5, <2>1, <2>2
<1>6. CASE UNCHANGED job /\ Goto(p, "effect") /\ Op(p) \in Published
  <2>1. job[p].existing = NoDoc
    BY <1>1, JobFacts DEF Sound
  <2>2. QED
    BY <1>4, <1>6, <2>1, JobFacts DEF Published
<1>7. QED
  BY <1>2, <1>3, <1>5, <1>6 DEF Find, Published

LEMMA EffectKeeps ==
    ASSUME IInv, Grows, NEW p \in Procs, Effect(p)
    PROVE  IInv'
<1>1. Rest' /\ sent' = sent /\ line' = line /\ answers' = answers /\ pc[p] = "effect" /\ TypeOK
  BY RestStays DEF Effect, history, IInv, TypeOK
<1>2. /\ Op(p) \in Calls \ {"status"} /\ job[p].seen \in {"none", "pending"}
      /\ job[p].existing \in 1 .. lastId \/ (job[p].existing = NoDoc /\ Op(p) \in Published)
  BY <1>1, JobFacts DEF Sound, Working, Now
<1>3. CASE Op(p) = "reprocess" /\ Finish(p, "api_error")
  BY <1>1, <1>3, FinishTurn DEF True_, Results, Busy, Places
<1>4. CASE Change(p) /\ Goto(p, "record")
           /\ job' = [job EXCEPT ![p] = [@ EXCEPT !.existing = NoDoc, !.doc =
                 IF Op(p) \in {"publish", "publish_wait"} THEN lastId' ELSE job[p].existing]]
  <2> DEFINE doc == IF Op(p) \in {"publish", "publish_wait"} THEN lastId' ELSE job[p].existing
             j == [job[p] EXCEPT !.existing = NoDoc, !.doc = doc]
  <2>1. doc \in 1 .. lastId'
    <3>1. CASE Op(p) \in Published
      <4>1. lastId' = lastId + 1 /\ lastId \in Nat
        BY <1>1, <1>4, <3>1 DEF Change, Published, Upload, TypeOK
      <4>2. QED
        BY <3>1, <4>1 DEF Published
    <3>2. CASE Op(p) \notin Published
      BY <1>1, <1>2, <3>2 DEF Published, Grows, TypeOK
    <3>3. QED
      BY <3>1, <3>2
  <2>2. Op(p) = "unpublish" => doc \notin DOMAIN docs'
    BY <1>4 DEF Change, Without
  <2> HIDE DEF doc
  <2>3. doc \in Nat
    BY <2>1 DEF Grows
  <2>4. /\ job' = [job EXCEPT ![p] = j] /\ j \in Jobs /\ j.clock = job[p].clock
        /\ j.seen = job[p].seen /\ j.doc = doc
    BY <1>4, <2>3, JobFacts DEF Jobs, doc
  <2> HIDE DEF j
  <2>5. Sound(Op(p), "record", j, Now', <<p, line[p]>>)
    BY <1>2, <2>1, <2>2, <2>4 DEF Sound, Working, Now
  <2>6. QED
    BY <1>1, <1>4, <2>4, <2>5, WorkTurn, JobFacts DEF Goto, Busy, Places
<1>5. QED
  BY <1>3, <1>4 DEF Effect

LEMMA RecordKeeps ==
    ASSUME IInv, Grows, NEW p \in Procs, Record(p)
    PROVE  IInv'
<1>1. sent' = sent /\ line' = line /\ answers' = answers /\ pc[p] = "record" /\ TypeOK
      /\ docs' = docs /\ lastId' = lastId /\ faults' = faults /\ blips' = blips /\ hit' = hit
  BY DEF Record, history, sag, IInv
<1>2. /\ Op(p) \in Calls \ {"status"} /\ job[p].seen \in {"none", "pending"}
      /\ job[p].doc \in 1 .. lastId /\ (Op(p) = "unpublish" => job[p].doc \notin DOMAIN docs)
  BY <1>1, JobFacts DEF Sound, Working, Now
<1>3. /\ <<Event(Op(p)), job[p].doc>> \in audit' /\ Event(Op(p)) \in Calls
      /\ audit' = audit \union {<<Event(Op(p)), job[p].doc>>}
  BY <1>2 DEF Record, Event, Calls
<1>4. Rest'
  BY <1>1, <1>2, <1>3 DEF Rest, TypeOK
<1>5. CASE Op(p) = "publish_wait" /\ Goto(p, "poll") /\ UNCHANGED job
  <2>1. Sound(Op(p), "poll", job[p], Now', <<p, line[p]>>)
    BY <1>1, <1>2, <1>3, <1>5 DEF Sound, Working, Now, Event
  <2>2. QED
    BY <1>1, <1>4, <1>5, <2>1, WorkTurn, JobFacts DEF Goto, Busy, Places
<1>6. CASE Op(p) # "publish_wait" /\ Finish(p, "done")
  <2>1. True_(Op(p), "done", job[p].doc, Now', <<p, line[p]>>)
    BY <1>1, <1>2, <1>3, <1>6 DEF True_, Now
  <2>2. QED
    BY <1>1, <1>4, <1>6, <2>1, FinishTurn DEF Busy, Places, Results
<1>7. QED
  BY <1>5, <1>6 DEF Record

LEMMA AnswerKeeps ==
    ASSUME IInv, Grows, NEW p \in Procs, Answer(p)
    PROVE  IInv'
<1> DEFINE a == [line |-> line[p], id |-> Id(p, line[p]), result |-> job[p].result,
                 doc |-> job[p].doc]
           all == Append(answers[p], a)
           place == IF p \in Commands THEN "exited" ELSE "idle"
<1>1. TypeOK /\ Fine(p, sent[p], line[p], "answer", job[p], answers[p], Now')
  BY FineLater DEF IInv, Answer
<1>2. /\ a \in Told /\ a.line = line[p] /\ a.result = job[p].result /\ a.doc = job[p].doc
      /\ a.id = Id(p, line[p])
  BY <1>1 DEF Told, Fine, Jobs, Id
<1> HIDE DEF a
<1>3. answers[p] \in Seq(Told) /\ line[p] \in Nat
  BY <1>1 DEF Fine
<1>4. Ordered(sent[p], line[p], place, all)
  BY <1>1, <1>2, <1>3, OrderedAnswer DEF Fine
<1>5. /\ all \in Seq(Told) /\ Len(all) = Len(answers[p]) + 1 /\ all[Len(answers[p]) + 1] = a
      /\ Len(answers[p]) \in Nat
      /\ \A i \in 1 .. Len(answers[p]) : all[i] = answers[p][i]
  BY <1>2, <1>3, AppendProperties
<1> HIDE DEF all
<1>6. AnswersTrue(p, sent[p], all, Now')
  <2>1. ASSUME NEW i \in 1 .. Len(all)
        PROVE  True_(sent[p][all[i].line], all[i].result, all[i].doc, Now', <<p, all[i].line>>)
    <3>1. CASE i = Len(answers[p]) + 1
      <4>1. True_(sent[p][line[p]], job[p].result, job[p].doc, Now', <<p, line[p]>>)
        BY <1>1 DEF Fine, Sound
      <4>2. QED
        BY <1>2, <1>5, <3>1, <4>1
    <3>2. CASE i # Len(answers[p]) + 1
      <4>1. i \in 1 .. Len(answers[p]) /\ all[i] = answers[p][i]
        BY <1>5, <3>2
      <4>2. QED
        BY <1>1, <4>1 DEF Fine, AnswersTrue
    <3>3. QED
      BY <3>1, <3>2
  <2>2. QED
    BY <2>1 DEF AnswersTrue
<1>7. Sound(sent[p][line[p]], place, NoJob, Now', <<p, line[p]>>)
  BY DEF Sound, Working, NoJob
<1>8. Fine(p, sent[p], line[p], place, NoJob, all, Now')
  <2>1. Labelled(p, all)
    BY <1>1, <1>2, <1>5 DEF Fine, Labelled
  <2>2. QED
    BY <1>1, <1>4, <1>5, <1>6, <1>7, <2>1, JobFacts DEF Fine, Places
<1>9. /\ sent' = sent /\ line' = [line EXCEPT ![p] = line[p]] /\ pc' = [pc EXCEPT ![p] = place]
      /\ job' = [job EXCEPT ![p] = NoJob] /\ answers' = [answers EXCEPT ![p] = all]
  BY <1>1 DEF Answer, Goto, all, a, TypeOK
<1>10. Rest'
  BY <1>1, RestStays DEF Answer, history, TypeOK
<1>11. QED
  BY <1>8, <1>9, <1>10, Turn

LEMMA WaitingKeeps ==
    ASSUME IInv, Grows, NEW p \in Procs,
           StopWaiting(p) \/ PollFindsNothing(p) \/ Poll(p) \/ Blip(p) \/ Sleep(p)
    PROVE  IInv'
<1> USE DEF Busy, Places
<1>1. /\ sent' = sent /\ line' = line /\ answers' = answers /\ TypeOK
      /\ pc[p] \in {"poll", "sleep"} /\ docs' = docs /\ lastId' = lastId
      /\ audit' = audit /\ served' = served /\ hit' = hit
  BY DEF StopWaiting, PollFindsNothing, Poll, Blip, Sleep, history, sag, IInv
<1>2. Rest'
  <2>1. faults' = faults /\ blips' \in 0 .. MaxBlips
    BY <1>1 DEF StopWaiting, PollFindsNothing, Poll, Blip, Sleep, history, TypeOK
  <2>2. QED
    BY <1>1, <2>1, RestStays
<1>3. /\ Op(p) = "publish_wait" /\ job[p].doc \in 1 .. lastId
      /\ <<"publish", job[p].doc>> \in audit /\ job[p].seen \in {"none", "pending"}
  BY <1>1, JobFacts DEF Sound, Working, Now
<1>4. ASSUME NEW result \in {"unready", "api_error"}, Finish(p, result),
             result = "api_error" => job[p].doc \notin DOMAIN docs
      PROVE  IInv'
  <2>1. True_(Op(p), result, job[p].doc, Now', <<p, line[p]>>)
    BY <1>1, <1>3, <1>4 DEF True_, Now
  <2>2. QED
    BY <1>1, <1>2, <1>4, <2>1, FinishTurn DEF Results
\* The wait goes on.
<1>5. ASSUME NEW place \in {"poll", "sleep"}, NEW j \in Jobs, pc' = [pc EXCEPT ![p] = place],
             job' = [job EXCEPT ![p] = j], j.clock <= WaitTimeout + RequestTimeout,
             j.doc = job[p].doc, j.seen \in {"none", "pending"}
      PROVE  IInv'
  <2>1. Sound(Op(p), place, j, Now', <<p, line[p]>>)
    BY <1>1, <1>3, <1>5, LineKinds DEF Sound, Working, Now, Published
  <2>2. QED
    BY <1>1, <1>2, <1>5, <2>1, WorkTurn
<1>6. CASE StopWaiting(p)
  BY <1>3, <1>4, <1>6 DEF StopWaiting, Judge
<1>7. CASE PollFindsNothing(p)
  BY <1>4, <1>7 DEF PollFindsNothing
<1>8. CASE Poll(p)
  <2> DEFINE status == docs[job[p].doc]
             over == status # "pending"
             j(took) == [job[p] EXCEPT !.seen = status, !.clock = job[p].clock + took,
                                       !.result = IF over THEN Judge(status) ELSE job[p].result]
  <2>1. status \in Statuses /\ (status = "ready" => job[p].doc \in served)
    BY <1>8 DEF Poll, IInv, TypeOK, ReadyWasServed
  <2>2. PICK took \in {0, RequestTimeout} :
            job' = [job EXCEPT ![p] = j(took)] /\ Goto(p, IF over THEN "answer" ELSE "sleep")
    BY <1>8 DEF Poll
  <2>3. /\ j(took).doc = job[p].doc /\ j(took).seen = status
        /\ j(took).clock = job[p].clock + took /\ j(took).result \in Results
        /\ over => j(took).result = Judge(status)
    BY JobFacts DEF Jobs, Judge, Results
  <2>4. j(took) \in Jobs /\ j(took).clock <= WaitTimeout + RequestTimeout
    <3>1. job[p].clock < WaitTimeout /\ job[p].clock \in Nat
      BY <1>8, JobFacts DEF Poll
    <3>2. job[p].clock + took \in Nat /\ job[p].clock + took <= WaitTimeout + RequestTimeout
      BY <3>1
    <3>3. (IF over THEN Judge(status) ELSE job[p].result) \in Results
      BY JobFacts DEF Jobs, Judge, Results
    <3>4. j(took) \in Jobs
      BY <2>1, <3>2, <3>3, JobFacts DEF Jobs
    <3>5. QED
      BY <2>3, <3>2, <3>4
  <2> HIDE DEF status
  <2> HIDE DEF j
  <2>5. CASE over
    <3>1. True_(Op(p), j(took).result, j(took).doc, Now', <<p, line[p]>>)
      BY <1>1, <1>3, <2>1, <2>3, <2>5 DEF True_, Now, Judge, Event
    <3>2. Sound(Op(p), "answer", j(took), Now', <<p, line[p]>>)
      BY <3>1 DEF Sound, Working
    <3>3. QED
      BY <1>1, <1>2, <2>2, <2>3, <2>4, <2>5, <3>2, WorkTurn DEF Goto
  <2>6. CASE ~over
    BY <1>5, <2>2, <2>3, <2>4, <2>6 DEF Goto
  <2>7. QED
    BY <2>5, <2>6
<1>9. CASE Blip(p)
  <2> DEFINE j(took) == [job[p] EXCEPT !.clock = job[p].clock + took]
  <2>1. PICK took \in {0, RequestTimeout} : job' = [job EXCEPT ![p] = j(took)]
    BY <1>9 DEF Blip
  <2>2. /\ j(took).doc = job[p].doc /\ j(took).seen = job[p].seen
        /\ j(took).clock = job[p].clock + took
    BY JobFacts DEF Jobs
  <2>3. j(took) \in Jobs /\ j(took).clock <= WaitTimeout + RequestTimeout
    <3>1. job[p].clock < WaitTimeout /\ job[p].clock \in Nat
      BY <1>9, JobFacts DEF Blip
    <3>2. job[p].clock + took \in Nat /\ job[p].clock + took <= WaitTimeout + RequestTimeout
      BY <3>1
    <3>3. j(took) \in Jobs
      BY <3>2, JobFacts DEF Jobs
    <3>4. QED
      BY <2>2, <3>2, <3>3
  <2> HIDE DEF j
  <2>4. QED
    BY <1>3, <1>5, <1>9, <2>1, <2>2, <2>3 DEF Blip, Goto
<1>10. CASE Sleep(p)
  <2> DEFINE c == job[p].clock
             d == job[p].delay
             left == IF c < WaitTimeout THEN WaitTimeout - c ELSE 0
             clock == c + Lesser(d, left)
             delay == Lesser((d * 3) \div 2, 80)
             j == [job[p] EXCEPT !.clock = clock, !.delay = delay]
  <2>1. c \in Nat /\ d \in 16 .. 80 /\ c <= WaitTimeout + RequestTimeout
    BY JobFacts
  <2>2. job' = [job EXCEPT ![p] = j] /\ Goto(p, "poll")
    BY <1>10 DEF Sleep
  <2> HIDE DEF c, d
  <2>3. clock \in Nat /\ clock <= WaitTimeout + RequestTimeout
    BY <2>1 DEF Lesser
  <2>4. delay \in 16 .. 80
    BY <2>1 DEF Lesser
  <2> HIDE DEF clock, delay
  <2>5. /\ j \in Jobs /\ j.doc = job[p].doc /\ j.seen = job[p].seen /\ j.clock = clock
    BY <2>3, <2>4, JobFacts DEF Jobs
  <2> HIDE DEF j
  <2>6. QED
    BY <1>3, <1>5, <2>2, <2>3, <2>5 DEF Goto
<1>11. QED
  BY <1>6, <1>7, <1>8, <1>9, <1>10

LEMMA FaultsKeep ==
    ASSUME IInv, Grows, NEW p \in Procs, RecordFails(p) \/ RequestFails(p) \/ Kill(p)
    PROVE  IInv'
<1> USE DEF Busy, Places
<1>1. /\ sent' = sent /\ line' = line /\ answers' = answers /\ TypeOK /\ audit' = audit
      /\ <<p, line[p]>> \in hit'
  BY DEF RecordFails, RequestFails, Kill, CountFault, IInv
<1>2. Rest'
  BY <1>1 DEF RecordFails, RequestFails, Kill, CountFault, Rest, TypeOK, Grows
<1>3. CASE RecordFails(p)
  <2>1. True_(Op(p), "error", job[p].doc, Now', <<p, line[p]>>)
    BY DEF True_
  <2>2. QED
    BY <1>1, <1>2, <1>3, <2>1, FinishTurn DEF RecordFails, Results
<1>4. CASE RequestFails(p)
  <2>1. True_(Op(p), "api_error", job[p].doc, Now', <<p, line[p]>>)
    BY <1>1 DEF True_, Now
  <2>2. QED
    BY <1>1, <1>2, <1>4, <2>1, FinishTurn DEF RequestFails, Results
<1>5. CASE Kill(p)
  <2>1. Fine(p, sent[p], line[p], pc[p], job[p], answers[p], Now')
    BY <1>1, FineLater DEF IInv
  <2>2. Ordered(sent[p], line[p], "dead", answers[p])
    BY <2>1, OrderedStay DEF Fine
  <2>3. Sound(sent[p][line[p]], "dead", NoJob, Now', <<p, line[p]>>)
    BY DEF Sound, Working
  <2>4. Fine(p, sent[p], line[p], "dead", NoJob, answers[p], Now')
    BY <2>1, <2>2, <2>3, JobFacts DEF Fine
  <2>5. /\ line' = [line EXCEPT ![p] = line[p]] /\ answers' = [answers EXCEPT ![p] = answers[p]]
        /\ pc' = [pc EXCEPT ![p] = "dead"] /\ job' = [job EXCEPT ![p] = NoJob]
    BY <1>1, <1>5 DEF Kill, Goto, TypeOK
  <2>6. QED
    BY <1>1, <1>2, <2>4, <2>5, Turn
<1>6. QED
  BY <1>3, <1>4, <1>5

\* A step of SAG alone, or none.
LEMMA OthersKeep ==
    ASSUME IInv, Grows, UNCHANGED <<sent, line, pc, job, answers, audit, faults, blips, hit>>
    PROVE  IInv'
<1>1. TypeOK /\ Rest'
  BY RestStays DEF IInv, TypeOK
<1>2. \A q \in Procs : Fine(q, sent[q], line[q], pc[q], job[q], answers[q], Now')
  BY <1>1, FineLater DEF IInv
<1>3. (\A q \in Procs : Fine(q, sent[q], line[q], pc[q], job[q], answers[q], Now))'
  BY <1>2
<1>4. ReadyWasServed'
  BY DEF ReadyWasServed, Grows
<1>5. TypeOK'
  BY <1>1 DEF TypeOK, Grows, Rest
<1>6. QED
  BY <1>3, <1>4, <1>5 DEF IInv

LEMMA InitHolds == Init => IInv
<1> SUFFICES ASSUME Init
             PROVE  IInv
  OBVIOUS
<1>1. TypeOK /\ ReadyWasServed
  BY DEF Init, TypeOK, ReadyWasServed, Places, NoJob, Statuses, Results
<1>2. ASSUME NEW p \in Procs
      PROVE  Fine(p, sent[p], line[p], pc[p], job[p], answers[p], Now)
  <2>1. /\ line[p] = 0 /\ pc[p] = "idle" /\ job[p] = NoJob /\ answers[p] = <<>>
        /\ Len(sent[p]) \in Nat
    BY <1>1, WorkOf DEF Init
  <2>2. NoJob \in Jobs /\ NoJob.clock = 0
    BY DEF NoJob, Jobs, Statuses, Results
  <2>3. Sound(sent[p][0], "idle", NoJob, Now, <<p, 0>>)
    BY DEF Sound, Working, NoJob
  <2>4. Ordered(sent[p], 0, "idle", <<>>) /\ AnswersTrue(p, sent[p], <<>>, Now)
        /\ Labelled(p, <<>>)
    BY DEF Ordered, AnswersTrue, Labelled, Busy
  <2>5. <<>> \in Seq(Told)
    OBVIOUS
  <2>6. QED
    BY <2>1, <2>2, <2>3, <2>4, <2>5 DEF Fine, Places
<1>3. QED
  BY <1>1, <1>2 DEF IInv

LEMMA StepKeeps == IInv /\ [Next]_vars => IInv'
<1> SUFFICES ASSUME IInv, [Next]_vars
             PROVE  IInv'
  OBVIOUS
<1>1. Grows
  BY AllGrows DEF IInv
<1>2. CASE \E p \in Procs : Proceed(p) \/ Kill(p)
  BY <1>1, <1>2, TakingKeeps, FindKeeps, EffectKeeps, RecordKeeps, AnswerKeeps, WaitingKeeps,
     FaultsKeep DEF Proceed
<1>3. CASE \E d \in DOMAIN docs : Ingest(d)
  BY <1>1, <1>3, OthersKeep DEF Ingest
<1>4. CASE UNCHANGED vars
  BY <1>1, <1>4, OthersKeep DEF vars, history
<1>5. QED
  BY <1>2, <1>3, <1>4 DEF Next

LEMMA InvariantHolds == Spec => []IInv
BY InitHolds, StepKeeps, PTL DEF Spec

-----------------------------------------------------------------------------
(* The theorems. *)

\* The state is well formed: every place is one of the code's, every answer has a result,
\* the log only names documents that SAG has handed out.
THEOREM FrontEndsTypeCorrect == Spec => []TypeOK
<1>1. IInv => TypeOK
  BY DEF IInv
<1>2. QED
  BY <1>1, InvariantHolds, PTL

LEMMA GivenAnswers ==
    ASSUME IInv, NEW g \in Given
    PROVE  /\ g[1] \in Procs /\ g = <<g[1], g[2]>>
           /\ Answered(g).doc \in Nat \union {NoDoc}
           /\ True_(Asked(g), Answered(g).result, Answered(g).doc, Now, <<g[1], Answered(g).line>>)
<1>0. PICK p \in Procs : g \in {p} \X (1 .. Len(answers[p]))
  BY DEF Given
<1>1. PICK i \in 1 .. Len(answers[p]) : g = <<p, i>>
  BY <1>0
<1>2. Fine(p, sent[p], line[p], pc[p], job[p], answers[p], Now)
  BY DEF IInv
<1>3. answers[p] \in Seq(Told)
  BY <1>2 DEF Fine
<1>4. answers[p][i].doc \in Nat \union {NoDoc}
  <2>1. answers[p][i] \in Told
    BY <1>3
  <2>2. QED
    BY <2>1 DEF Told
<1>5. True_(sent[p][answers[p][i].line], answers[p][i].result, answers[p][i].doc, Now,
            <<p, answers[p][i].line>>)
  BY <1>2 DEF Fine, AnswersTrue
<1>6. QED
  BY <1>1, <1>4, <1>5 DEF Asked, Answered

\* An agent gets an answer to each of its lines with an id, under that id, in their order,
\* none left out and none twice, also among calls without an id, which are carried out and
\* answered with none; and what it and the users are told is done is in the audit log and
\* stays done, whatever requests, records and processes fail in between.
THEOREM AnswersStayTrue == Spec => []AnswersAreTrue
<1>1. ASSUME IInv
      PROVE  InOrder
  <2> SUFFICES ASSUME NEW p \in Procs
               PROVE  LET asking == {i \in 1 .. line[p] :
                                        sent[p][i] # "notice" /\ <<p, i>> \notin Idless}
                          given == {answers[p][i].id : i \in 1 .. Len(answers[p])} \ {0}
                          open == IF pc[p] \in {"idle", "exited"} THEN {} ELSE {line[p]}
                      IN  /\ given \subseteq asking /\ asking \subseteq given \union open
                          /\ \A i \in 1 .. Len(answers[p]) :
                                answers[p][i].id \in {0, answers[p][i].line}
                          /\ \A i, j \in 1 .. Len(answers[p]) :
                                i < j => answers[p][i].line < answers[p][j].line
    BY DEF InOrder
  <2>1. Ordered(sent[p], line[p], pc[p], answers[p]) /\ Labelled(p, answers[p])
    BY <1>1 DEF IInv, Fine
  <2>2. \A i \in 1 .. Len(answers[p]) :
            /\ answers[p][i].id = IF <<p, answers[p][i].line>> \in Idless THEN 0
                                  ELSE answers[p][i].line
            /\ answers[p][i].line \in 1 .. line[p] /\ sent[p][answers[p][i].line] # "notice"
    BY <2>1 DEF Ordered, Labelled, Id
  <2>3. \A i \in 1 .. line[p] : sent[p][i] # "notice" =>
            \/ \E k \in 1 .. Len(answers[p]) : answers[p][k].line = i
            \/ i = line[p] /\ pc[p] \notin {"idle", "exited"}
    BY <2>1 DEF Ordered
  <2>4. \A i, j \in 1 .. Len(answers[p]) : i < j => answers[p][i].line < answers[p][j].line
    BY <2>1 DEF Ordered
  <2> DEFINE asking == {i \in 1 .. line[p] : sent[p][i] # "notice" /\ <<p, i>> \notin Idless}
             given == {answers[p][i].id : i \in 1 .. Len(answers[p])} \ {0}
             open == IF pc[p] \in {"idle", "exited"} THEN {} ELSE {line[p]}
  <2>5. given \subseteq asking
    BY <2>2
  <2>6. ASSUME NEW n \in asking
        PROVE  n \in given \union open
    <3>1. CASE n = line[p] /\ pc[p] \notin {"idle", "exited"}
      BY <3>1
    <3>2. CASE \E k \in 1 .. Len(answers[p]) : answers[p][k].line = n
      <4>1. PICK k \in 1 .. Len(answers[p]) : answers[p][k].line = n
        BY <3>2
      <4>2. <<p, n>> \notin Idless /\ n # 0
        BY <2>6
      <4>3. answers[p][k].id = n
        BY <2>2, <4>1, <4>2
      <4>4. QED
        BY <4>2, <4>3
    <3>3. QED
      BY <2>3, <2>6, <3>1, <3>2
  <2>7. \A i \in 1 .. Len(answers[p]) : answers[p][i].id \in {0, answers[p][i].line}
    BY <2>2
  <2>8. QED
    BY <2>4, <2>5, <2>6, <2>7
<1>2. IInv => DoneIsDone
  BY GivenAnswers DEF DoneIsDone, True_, Now
<1>3. QED
  BY <1>1, <1>2, InvariantHolds, PTL DEF AnswersAreTrue

\* A wait is at most one request late, calls ready only what could be searched, and ends in
\* an error only for a document that is gone or a request that failed for good.
THEOREM WaitsKeepTheirWord == Spec => []WaitKeepsItsWord
<1>1. ASSUME IInv
      PROVE  WaitKeepsItsWord
  <2>1. \A p \in Procs : job[p].clock <= WaitTimeout + RequestTimeout
    BY <1>1 DEF IInv, Fine
  <2>2. QED
    BY <1>1, <2>1, GivenAnswers DEF WaitKeepsItsWord, True_, Now
<1>2. QED
  BY <1>1, InvariantHolds, PTL
-----------------------------------------------------------------------------
(* Work comes to an end: what fairness needs for EveryLineIsServed. *)

Until(clock) == IF clock < WaitTimeout THEN WaitTimeout - clock ELSE 0

\* How many more steps a process makes at most before it takes its next line.
StepsLeft(place, clock) ==
    CASE place = "find"   -> 3 * WaitTimeout + 6
      [] place = "effect" -> 3 * WaitTimeout + 5
      [] place = "record" -> 3 * WaitTimeout + 4
      [] place = "poll"   -> IF Until(clock) = 0 THEN 3 ELSE 3 * Until(clock) + 2
      [] place = "sleep"  -> IF Until(clock) = 0 THEN 4 ELSE 3 * Until(clock) + 1
      [] place = "answer" -> 2
      [] place = "idle"   -> 1
      [] OTHER            -> 0

UsesUp(p) ==
    \/ line'[p] = line[p] + 1
    \/ /\ line'[p] = line[p]
       /\ StepsLeft(pc'[p], job'[p].clock) < StepsLeft(pc[p], job[p].clock)

\* Each of its steps uses up one of those it has left, and nothing else touches it.
Counts(p) ==
    /\ Proceed(p) \/ Kill(p) => UsesUp(p)
    /\ UsesUp(p) \/ UNCHANGED <<line[p], pc[p], job[p]>>

LEMMA UntilType ==
    ASSUME NEW c \in Nat
    PROVE  Until(c) \in 0 .. WaitTimeout /\ (Until(c) = 0 <=> c >= WaitTimeout)
BY DEF Until

LEMMA StepsLeftBound ==
    ASSUME NEW place \in Places, NEW c \in Nat
    PROVE  StepsLeft(place, c) \in 0 .. 3 * WaitTimeout + 6
BY UntilType DEF StepsLeft, Places

LEMMA ProcTypes ==
    ASSUME IInv, NEW p \in Procs
    PROVE  /\ line[p] \in Nat /\ pc[p] \in Places /\ job[p] \in Jobs
           /\ job[p].clock \in Nat /\ job[p].delay \in 16 .. 80
           /\ line \in [Procs -> Nat] /\ pc \in [Procs -> Places] /\ job \in [Procs -> Jobs]
BY DEF IInv, TypeOK, Jobs

\* To the answer, to the end, and along the call.
LEMMA EndsCount ==
    ASSUME IInv, NEW p \in Procs, line' = line,
           \/ pc[p] \in Working /\ pc'[p] = "answer"
           \/ pc[p] = "answer" /\ pc'[p] \in {"idle", "exited"}
           \/ pc[p] \in Places \ {"dead", "exited"} /\ pc'[p] = "dead"
           \/ pc[p] = "find" /\ pc'[p] = "effect"
           \/ pc[p] = "effect" /\ pc'[p] = "record"
    PROVE  UsesUp(p)
BY ProcTypes, UntilType DEF UsesUp, StepsLeft, Working, Places

LEMMA PollingCounts ==
    ASSUME NEW c \in Nat, NEW d \in Nat
    PROVE  /\ StepsLeft("poll", c) < StepsLeft("record", d)
           /\ c < WaitTimeout /\ d >= c => StepsLeft("sleep", d) < StepsLeft("poll", c)
           /\ (c < WaitTimeout /\ d > c) \/ (c >= WaitTimeout /\ d >= WaitTimeout) =>
                 StepsLeft("poll", d) < StepsLeft("sleep", c)
BY DEF StepsLeft, Until

LEMMA WaitCounts ==
    ASSUME IInv, NEW p \in Procs,
           Record(p) \/ Poll(p) \/ Blip(p) \/ Sleep(p)
    PROVE  UsesUp(p)
<1>1. /\ line' = line /\ pc[p] \in Places /\ job[p] \in Jobs /\ job[p].clock \in Nat
      /\ job[p].delay \in 16 .. 80 /\ pc \in [Procs -> Places] /\ job \in [Procs -> Jobs]
  BY ProcTypes DEF Record, Poll, Blip, Sleep
<1>2. CASE Record(p)
  <2>1. CASE pc[p] = "record" /\ pc'[p] = "answer"
    BY <1>1, <2>1, EndsCount DEF Working
  <2>2. CASE pc[p] = "record" /\ pc'[p] = "poll" /\ job' = job
    BY <1>1, <2>2, PollingCounts DEF UsesUp
  <2>3. QED
    BY <1>1, <1>2, <2>1, <2>2 DEF Record, Goto, Finish
<1>3. CASE Poll(p)
  <2>1. PICK took \in {0, RequestTimeout} :
            job' = [job EXCEPT ![p] = [@ EXCEPT
                !.seen = docs[job[p].doc], !.clock = job[p].clock + took,
                !.result = IF docs[job[p].doc] # "pending" THEN Judge(docs[job[p].doc])
                           ELSE job[p].result]]
    BY <1>3 DEF Poll
  <2>2. job'[p].clock = job[p].clock + took /\ took \in Nat
    BY <1>1, <2>1 DEF Jobs
  <2>3. pc[p] = "poll" /\ pc'[p] \in {"answer", "sleep"} /\ job[p].clock < WaitTimeout
    BY <1>1, <1>3 DEF Poll, Goto
  <2>4. CASE pc'[p] = "answer"
    BY <1>1, <2>3, <2>4, EndsCount DEF Working
  <2>5. CASE pc'[p] = "sleep"
    BY <1>1, <2>2, <2>3, <2>5, PollingCounts DEF UsesUp
  <2>6. QED
    BY <2>3, <2>4, <2>5
<1>4. CASE Blip(p)
  <2>1. PICK took \in {0, RequestTimeout} : job' = [job EXCEPT ![p].clock = @ + took]
    BY <1>4 DEF Blip
  <2>2. job'[p].clock = job[p].clock + took /\ took \in Nat
    BY <1>1, <2>1 DEF Jobs
  <2>3. pc[p] = "poll" /\ pc'[p] = "sleep" /\ job[p].clock < WaitTimeout
    BY <1>1, <1>4 DEF Blip, Goto
  <2>4. QED
    BY <1>1, <2>2, <2>3, PollingCounts DEF UsesUp
<1>5. CASE Sleep(p)
  <2>1. /\ pc[p] = "sleep" /\ pc'[p] = "poll"
        /\ job'[p].clock = job[p].clock + Lesser(job[p].delay, Until(job[p].clock))
    BY <1>1, <1>5 DEF Sleep, Goto, Until, Jobs
  <2>2. /\ Lesser(job[p].delay, Until(job[p].clock)) \in Nat
        /\ job[p].clock < WaitTimeout => Lesser(job[p].delay, Until(job[p].clock)) > 0
    BY <1>1, UntilType DEF Lesser
  <2> HIDE DEF Lesser
  <2>3. QED
    BY <1>1, <2>1, <2>2, PollingCounts DEF UsesUp
<1>6. QED
  BY <1>2, <1>3, <1>4, <1>5
LEMMA OwnStepCounts ==
    ASSUME IInv, NEW p \in Procs, Proceed(p) \/ Kill(p)
    PROVE  UsesUp(p)
<1>1. line[p] \in Nat /\ pc[p] \in Places /\ line \in [Procs -> Nat] /\ pc \in [Procs -> Places]
  BY ProcTypes
<1>2. ASSUME NEW kinds, TakeLine(p, kinds)
      PROVE  UsesUp(p)
  BY <1>1, <1>2 DEF TakeLine, UsesUp
<1>3. CASE Ignore(p) \/ Hello(p) \/ Refuse(p) \/ Stumble(p) \/ Call(p)
  BY <1>2, <1>3 DEF Ignore, Hello, Refuse, Stumble, Call
<1>4. CASE Answer(p)
  BY <1>1, <1>4, EndsCount DEF Answer, Goto
<1>5. CASE Find(p) \/ Effect(p)
  BY <1>1, <1>5, EndsCount DEF Find, Effect, Goto, Finish, Working
<1>6. CASE StopWaiting(p) \/ PollFindsNothing(p)
  BY <1>1, <1>6, EndsCount DEF StopWaiting, PollFindsNothing, Goto, Finish, Working
<1>7. CASE RecordFails(p) \/ RequestFails(p)
  BY <1>1, <1>7, EndsCount DEF RecordFails, RequestFails, CountFault, Goto, Finish, Working
<1>8. CASE Kill(p)
  BY <1>1, <1>8, EndsCount DEF Kill, CountFault, Goto
<1>9. QED
  BY <1>3, <1>4, <1>5, <1>6, <1>7, <1>8, WaitCounts DEF Proceed

LEMMA OthersStepCounts ==
    ASSUME IInv, NEW p \in Procs, NEW q \in Procs \ {p}, Proceed(q) \/ Kill(q)
    PROVE  UNCHANGED <<line[p], pc[p], job[p]>>
<1>1. line \in [Procs -> Nat] /\ pc \in [Procs -> Places] /\ job \in [Procs -> Jobs]
  BY ProcTypes
<1>2. CASE Ignore(q) \/ Hello(q) \/ Refuse(q) \/ Stumble(q) \/ Call(q) \/ Answer(q)
  BY <1>1, <1>2 DEF Ignore, Hello, Refuse, Stumble, Call, Answer, TakeLine, Goto, Finish
<1>3. CASE Find(q) \/ Effect(q) \/ Record(q)
  BY <1>1, <1>3 DEF Find, Effect, Record, Goto, Finish
<1>4. CASE StopWaiting(q) \/ PollFindsNothing(q) \/ Poll(q) \/ Blip(q) \/ Sleep(q)
  BY <1>1, <1>4 DEF StopWaiting, PollFindsNothing, Poll, Blip, Sleep, Goto, Finish
<1>5. CASE RecordFails(q) \/ RequestFails(q) \/ Kill(q)
  BY <1>1, <1>5 DEF RecordFails, RequestFails, Kill, CountFault, Goto, Finish
<1>6. QED
  BY <1>2, <1>3, <1>4, <1>5 DEF Proceed

\* A process that is asked for n lines makes at most (n + 1) * (3 * WaitTimeout + 7) steps,
\* whatever the others, SAG and the faults do: there are only so many lines, and between two
\* of them every step uses up some of what is left.  No poll and no sleep is for nothing.
THEOREM StepsAreCounted ==
    Spec => /\ [][\A p \in Procs : Counts(p)]_vars
            /\ [](\A p \in Procs :
                     /\ line[p] <= Len(sent[p])
                     /\ StepsLeft(pc[p], job[p].clock) \in 0 .. 3 * WaitTimeout + 6)
<1>1. IInv /\ [Next]_vars => [\A p \in Procs : Counts(p)]_vars
  <2> SUFFICES ASSUME IInv, Next, NEW p \in Procs
               PROVE  Counts(p)
    OBVIOUS
  <2>1. ASSUME NEW q \in Procs, Proceed(q) \/ Kill(q)
        PROVE  Counts(p)
    BY <2>1, OwnStepCounts, OthersStepCounts DEF Counts
  <2>2. CASE \E d \in DOMAIN docs : Ingest(d)
    <3>1. UNCHANGED <<line, pc, job>>
      BY <2>2 DEF Ingest
    <3>2. QED
      BY <3>1, OwnStepCounts DEF Counts
  <2>3. QED
    BY <2>1, <2>2 DEF Next
<1>2. IInv => \A p \in Procs :
                  /\ line[p] <= Len(sent[p])
                  /\ StepsLeft(pc[p], job[p].clock) \in 0 .. 3 * WaitTimeout + 6
  BY ProcTypes, StepsLeftBound DEF IInv, TypeOK
<1>3. QED
  BY <1>1, <1>2, InvariantHolds, PTL DEF Spec
=============================================================================
