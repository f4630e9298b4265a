-------------------------- MODULE StateFileProofs --------------------------
(* Theorems about FileLock and StateFile, for any number of processes and  *)
(* updates, both formats and any timeout.                                  *)
EXTENDS StateFile, SequenceTheorems, TLAPS

USE LockAssumption

LEMMA LaterType ==
    ASSUME NEW t \in Ticks
    PROVE  Later(t) \in Ticks
BY DEF Ticks, Later

\* Every step of the lock keeps its variables in shape.
LEMMA LockTypeStep ==
    ASSUME LockTypeOK, [LockNext]_lockVars
    PROVE  LockTypeOK'
<1>1. 0 \in Ticks
  BY DEF Ticks
<1>2. CASE UNCHANGED lockVars
  BY <1>2 DEF LockTypeOK, lockVars
<1>3. ASSUME NEW p \in Procs, Enter(p) \/ Attempt(p) \/ Exit(p) \/ Crash(p)
      PROVE  LockTypeOK'
  <2>1. CASE Enter(p)
    BY <2>1, <1>1 DEF LockTypeOK, Enter, Places
  <2>2. CASE Create(p)
    BY <2>2, <1>1 DEF LockTypeOK, Create, Places
  <2>3. CASE Stat(p)
    BY <2>3 DEF LockTypeOK, Stat, Places
  <2>4. CASE Unlink(p)
    BY <2>4 DEF LockTypeOK, Unlink, Places
  <2>5. CASE CheckDeadline(p)
    BY <2>5 DEF LockTypeOK, CheckDeadline, Places
  <2>6. CASE Exit(p)
    BY <2>6 DEF LockTypeOK, Exit, Places
  <2>7. CASE Crash(p)
    BY <2>7 DEF LockTypeOK, Crash, Places
  <2>8. QED
    BY <1>3, <2>1, <2>2, <2>3, <2>4, <2>5, <2>6, <2>7 DEF Attempt
<1>4. CASE Tick
  BY <1>4, LaterType DEF LockTypeOK, Tick
<1>5. QED
  BY <1>2, <1>3, <1>4 DEF LockNext

LEMMA LockTypeInit == LockInit => LockTypeOK
BY DEF LockInit, LockTypeOK, Places, Ticks

\* The lock's variables keep their shapes.
THEOREM LockTypeCorrect == LockSpec => []LockTypeOK
<1>1. LockTypeOK /\ [LockNext]_lockVars => LockTypeOK'
  BY LockTypeStep
<1>2. QED
  BY <1>1, LockTypeInit, PTL DEF LockSpec

-----------------------------------------------------------------------------
(* Mutual exclusion.  A lock file is as old as its holder's time inside, so it  *)
(* is never older than the timeout and nobody gets as far as unlinking it.      *)

LockFresh ==
    /\ lock # NoOne => at[lock] = "in" /\ age = timer[lock] /\ age <= Timeout
    /\ \A p \in Procs : at[p] = "in" => lock = p
    /\ \A p \in Procs : at[p] # "unlink"

LEMMA LockFreshStep ==
    ASSUME ~Crashes, ~SlowHolders, LockTypeOK, LockFresh, [LockNext]_lockVars
    PROVE  LockFresh'
<1>1. CASE UNCHANGED lockVars
  BY <1>1 DEF LockFresh, lockVars
<1>2. ASSUME NEW p \in Procs, Enter(p) \/ Attempt(p) \/ Exit(p) \/ Crash(p)
      PROVE  LockFresh'
  <2>1. CASE Enter(p)
    BY <2>1 DEF LockTypeOK, LockFresh, Enter
  <2>2. CASE Create(p)
    BY <2>2 DEF LockTypeOK, LockFresh, Create
  <2>3. CASE Stat(p)
    <3>1. ~(lock # NoOne /\ Stale)
      BY DEF LockTypeOK, LockFresh, Stale, Ticks
    <3>2. QED
      BY <2>3, <3>1 DEF LockTypeOK, LockFresh, Stat
  <2>4. CASE Unlink(p)
    BY <2>4 DEF LockFresh, Unlink
  <2>5. CASE CheckDeadline(p)
    BY <2>5 DEF LockTypeOK, LockFresh, CheckDeadline
  <2>6. CASE Exit(p)
    BY <2>6 DEF LockTypeOK, LockFresh, Exit
  <2>7. CASE Crash(p)
    BY <2>7 DEF Crash
  <2>8. QED
    BY <1>2, <2>1, <2>2, <2>3, <2>4, <2>5, <2>6, <2>7 DEF Attempt
<1>3. CASE Tick
  <2>1. \A p \in Holders : timer[p] < Timeout
    BY <1>3 DEF Tick
  <2>2. lock # NoOne => lock \in Holders
    BY DEF LockTypeOK, LockFresh, Holders
  <2>3. QED
    BY <1>3, <2>1, <2>2 DEF LockTypeOK, LockFresh, Tick, Later, Ticks
<1>4. QED
  BY <1>1, <1>2, <1>3 DEF LockNext

LEMMA LockFreshInit == LockInit => LockFresh
BY DEF LockInit, LockFresh

LEMMA FreshExcludes == LockFresh => MutualExclusion
BY DEF LockFresh, MutualExclusion, Holders

\* While nobody is killed with the lock or holds it longer than the timeout, breaking
\* locks that look stale never lets a second process in.
THEOREM LockExcludes == LockSpec => []MutualExclusion
<1>1. CASE Crashes \/ SlowHolders
  <2>1. MutualExclusion
    BY <1>1 DEF MutualExclusion
  <2>2. QED
    BY <1>1, PTL DEF MutualExclusion
<1>2. CASE ~Crashes /\ ~SlowHolders
  <2>1. LockFresh /\ LockTypeOK /\ [LockNext]_lockVars => LockFresh'
    BY <1>2, LockFreshStep
  <2>2. QED
    BY <2>1, LockTypeCorrect, LockFreshInit, FreshExcludes, PTL DEF LockSpec
<1>3. QED
  BY <1>1, <1>2

-----------------------------------------------------------------------------
(* The state file. *)

USE StateFileAssumption

-----------------------------------------------------------------------------
(* Sequences of lines. *)

Distinct(s) == \A i, j \in DOMAIN s : s[i] \cap s[j] # {} => i = j

LEMMA InContents ==
    ASSUME NEW s, NEW u
    PROVE  u \in Contents(s) <=> \E i \in DOMAIN s : u \in s[i]
BY DEF Contents, Range

\* What an update does to the lines.
LEMMA WithFacts ==
    ASSUME NEW s \in Seq(SUBSET Updates), NEW u \in Updates, NEW n \in 1 .. Len(s) + 1
    PROVE  /\ With(s, n, u) \in Seq(SUBSET Updates)
           /\ Contents(With(s, n, u)) = Contents(s) \union {u}
           /\ Distinct(s) /\ u \notin Contents(s) => Distinct(With(s, n, u))
<1> DEFINE t == With(s, n, u)
<1>1. Len(s) \in Nat /\ DOMAIN s = 1 .. Len(s) /\ \A i \in DOMAIN s : s[i] \in SUBSET Updates
  BY LenProperties, ElementOfSeq
<1>2. CASE n \in DOMAIN s
  <2>1. t = [s EXCEPT ![n] = @ \union {u}]
    BY <1>2 DEF With
  <2>2. t \in Seq(SUBSET Updates)
    BY <1>1, <1>2, <2>1, ExceptSeq
  <2>3. /\ DOMAIN t = DOMAIN s /\ t[n] = s[n] \union {u}
        /\ \A i \in DOMAIN s \ {n} : t[i] = s[i]
    BY <1>1, <1>2, <2>1
  <2>4. Contents(t) = Contents(s) \union {u}
    BY <1>2, <2>3, InContents
  <2>5. ASSUME Distinct(s), u \notin Contents(s)
        PROVE  Distinct(t)
    <3>1. \A i \in DOMAIN s : u \notin s[i]
      BY <2>5, InContents
    <3>2. QED
      BY <1>2, <2>3, <2>5, <3>1 DEF Distinct
  <2>6. QED
    BY <2>2, <2>4, <2>5
<1>3. CASE n \notin DOMAIN s
  <2>1. t = Append(s, {u})
    BY <1>3 DEF With
  <2>2. /\ t \in Seq(SUBSET Updates)
        /\ DOMAIN t = 1 .. Len(s) + 1
        /\ \A i \in 1 .. Len(s) : t[i] = s[i]
        /\ t[Len(s) + 1] = {u}
    BY <1>1, <2>1, AppendProperties, LenProperties
  <2>3. DOMAIN t = DOMAIN s \union {Len(s) + 1} /\ Len(s) + 1 \notin DOMAIN s
    BY <1>1, <2>2
  <2>4. Contents(t) = Contents(s) \union {u}
    BY <1>1, <2>2, <2>3, InContents
  <2>5. ASSUME Distinct(s), u \notin Contents(s)
        PROVE  Distinct(t)
    <3>1. \A i \in DOMAIN s : u \notin s[i]
      BY <2>5, InContents
    <3>2. QED
      BY <1>1, <2>2, <2>3, <2>5, <3>1 DEF Distinct
  <2>6. QED
    BY <2>2, <2>4, <2>5
<1>4. QED
  BY <1>2, <1>3

LEMMA PrefixFacts ==
    ASSUME NEW S, NEW s \in Seq(S), NEW n \in 0 .. Len(s)
    PROVE  /\ SubSeq(s, 1, n) \in Seq(S)
           /\ Len(SubSeq(s, 1, n)) = n
           /\ \A i \in 1 .. n : SubSeq(s, 1, n)[i] = s[i]
           /\ Contents(SubSeq(s, 1, n)) \subseteq Contents(s)
           /\ Distinct(s) => Distinct(SubSeq(s, 1, n))
<1>1. /\ Len(s) \in Nat
      /\ DOMAIN s = 1 .. Len(s)
      /\ \A i \in 1 .. n : s[i] \in S
  BY LenProperties, ElementOfSeq
<1>2. /\ SubSeq(s, 1, n) \in Seq(S)
      /\ Len(SubSeq(s, 1, n)) = n
      /\ \A i \in 1 .. n : SubSeq(s, 1, n)[i] = s[i]
  BY <1>1, SubSeqProperties
<1>3. DOMAIN SubSeq(s, 1, n) = 1 .. n
  BY <1>2, LenProperties
<1>4. Contents(SubSeq(s, 1, n)) \subseteq Contents(s)
  <2>1. ASSUME NEW u \in Contents(SubSeq(s, 1, n))
        PROVE  u \in Contents(s)
    <3>1. PICK i \in DOMAIN SubSeq(s, 1, n) : u \in SubSeq(s, 1, n)[i]
      BY <2>1, InContents
    <3>2. i \in DOMAIN s /\ u \in s[i]
      BY <1>1, <1>2, <1>3, <3>1
    <3>3. QED
      BY <3>2, InContents
  <2>2. QED
    BY <2>1
<1>5. Distinct(s) => Distinct(SubSeq(s, 1, n))
  BY <1>1, <1>2, <1>3 DEF Distinct
<1>6. QED
  BY <1>2, <1>4, <1>5

-----------------------------------------------------------------------------
(* The processes use the lock as FileLock says, and type correctness. *)

LEMMA StateStepIsLockStep ==
    ASSUME [Next]_vars
    PROVE  [LockNext]_lockVars
<1>1. CASE UNCHANGED vars
  BY <1>1 DEF vars
<1>2. ASSUME NEW p \in Procs, Begin(p) \/ TryLock(p) \/ Refuse(p) \/ Leave(p) \/ Killed(p)
      PROVE  LockNext
  BY <1>2 DEF LockNext, Begin, TryLock, Refuse, Leave, Killed
<1>3. ASSUME NEW p \in Procs, Load(p) \/ Truncate(p) \/ WriteSome(p) \/ Write(p)
      PROVE  UNCHANGED lockVars
  BY <1>3 DEF Load, Truncate, WriteSome, Write
<1>4. CASE TimePasses
  BY <1>4 DEF TimePasses, LockNext
<1>5. QED
  BY <1>1, <1>2, <1>3, <1>4 DEF Next

\* What the lock does to the place of a process.
LEMMA PlaceOf ==
    ASSUME LockTypeOK, NEW p \in Procs
    PROVE  /\ Enter(p) => at[p] = "out" /\ at' = [at EXCEPT ![p] = "create"]
           /\ Attempt(p) => /\ at[p] \notin {"in", "out"}
                            /\ at'[p] # at[p]
                            /\ at' = [at EXCEPT ![p] = at'[p]]
           /\ Exit(p) \/ Crash(p) => at[p] # "out" /\ at' = [at EXCEPT ![p] = "out"]
BY DEF LockTypeOK, Enter, Attempt, Create, Stat, Unlink, CheckDeadline, Exit, Crash

\* What a holder reads and writes are lines of updates.
LEMMA WrittenType ==
    ASSUME TypeOK, NEW p \in Procs, op[p] # NoUpdate
    PROVE  /\ New(p) \in Seq(SUBSET Updates)
           /\ Contents(New(p)) = Contents(data[p]) \union {op[p]}
           /\ \A n \in Len(file.lines) .. Len(New(p)) :
                 n \in 0 .. Len(New(p)) /\ SubSeq(New(p), 1, n) \in Seq(SUBSET Updates)
<1>1. /\ data[p] \in Seq(SUBSET Updates) /\ op[p] \in Updates
      /\ file.lines \in Seq(SUBSET Updates) /\ place[p] \in 1 .. Len(data[p]) + 1
  BY DEF TypeOK, File
<1>2. New(p) \in Seq(SUBSET Updates) /\ Contents(New(p)) = Contents(data[p]) \union {op[p]}
  <2> DEFINE s == data[p]  u == op[p]  n == place[p]
  <2>1. s \in Seq(SUBSET Updates) /\ u \in Updates /\ n \in 1 .. Len(s) + 1
    BY <1>1
  <2> HIDE DEF s, u, n
  <2>2. With(s, n, u) \in Seq(SUBSET Updates) /\ Contents(With(s, n, u)) = Contents(s) \union {u}
    BY <2>1, WithFacts
  <2>3. QED
    BY <2>2 DEF New, s, u, n
<1>3. Len(file.lines) \in Nat /\ Len(New(p)) \in Nat
  BY <1>1, <1>2, LenProperties
<1>4. ASSUME NEW n \in Len(file.lines) .. Len(New(p))
      PROVE  n \in 0 .. Len(New(p)) /\ SubSeq(New(p), 1, n) \in Seq(SUBSET Updates)
  <2>1. n \in 0 .. Len(New(p))
    BY <1>3
  <2>2. QED
    BY <1>2, <2>1, PrefixFacts
<1>5. QED
  BY <1>2, <1>4

LEMMA LoadedType == TypeOK => Loaded \in Seq(SUBSET Updates)
BY EmptySeq DEF TypeOK, File, Loaded

LEMMA TypeStep ==
    ASSUME TypeOK, [Next]_vars
    PROVE  TypeOK'
<1>1. LockTypeOK'
  BY StateStepIsLockStep, LockTypeStep DEF TypeOK
<1>2. CASE UNCHANGED vars
  BY <1>1, <1>2 DEF TypeOK, vars, lockVars, fileVars
<1>3. ASSUME NEW p \in Procs, Begin(p)
      PROVE  TypeOK'
  <2>1. at[p] = "out" /\ at' = [at EXCEPT ![p] = "create"]
    BY <1>3, PlaceOf DEF TypeOK, Begin
  <2>2. QED
    BY <1>1, <1>3, <2>1 DEF TypeOK, LockTypeOK, Begin
<1>4. ASSUME NEW p \in Procs, TryLock(p)
      PROVE  TypeOK'
  <2>1. at[p] \notin {"in", "out"} /\ at' = [at EXCEPT ![p] = at'[p]]
    BY <1>4, PlaceOf DEF TypeOK, TryLock
  <2>2. QED
    BY <1>1, <1>4, <2>1 DEF TypeOK, LockTypeOK, TryLock, Steps
<1>5. ASSUME NEW p \in Procs, Load(p)
      PROVE  TypeOK'
  <2>1. Loaded \in Seq(SUBSET Updates) /\ Len(Loaded) \in Nat
    BY LoadedType, LenProperties
  <2>2. PICK i \in 1 .. Len(Loaded) + 1 : place' = [place EXCEPT ![p] = i]
    BY <1>5 DEF Load
  <2>3. place' \in [Procs -> Nat] /\ \A q \in Procs : place'[q] \in 1 .. Len(data'[q]) + 1
    BY <1>5, <2>1, <2>2 DEF TypeOK, Load
  <2>4. QED
    BY <1>1, <1>5, <2>1, <2>3 DEF TypeOK, LockTypeOK, Load, Steps, lockVars
<1>6. ASSUME NEW p \in Procs, Truncate(p)
      PROVE  TypeOK'
  BY <1>1, <1>6, EmptySeq DEF TypeOK, LockTypeOK, Truncate, Steps, lockVars, File
<1>7. ASSUME NEW p \in Procs, WriteSome(p)
      PROVE  TypeOK'
  <2>1. \A n \in Len(file.lines) .. Len(New(p)) : SubSeq(New(p), 1, n) \in Seq(SUBSET Updates)
    BY <1>7, WrittenType DEF TypeOK, WriteSome
  <2>2. file' \in File
    BY <1>7, <2>1 DEF WriteSome, File
  <2>3. QED
    BY <1>1, <1>7, <2>2 DEF TypeOK, LockTypeOK, WriteSome, lockVars
<1>8. ASSUME NEW p \in Procs, Write(p)
      PROVE  TypeOK'
  <2>1. New(p) \in Seq(SUBSET Updates)
    BY <1>8, WrittenType DEF TypeOK, Write
  <2>2. QED
    BY <1>1, <1>8, <2>1 DEF TypeOK, LockTypeOK, Write, Steps, lockVars, File
<1>9. ASSUME NEW p \in Procs, Refuse(p) \/ Leave(p) \/ Killed(p)
      PROVE  TypeOK'
  <2>1. at[p] # "out" /\ at' = [at EXCEPT ![p] = "out"]
    BY <1>9, PlaceOf DEF TypeOK, Refuse, Leave, Killed
  <2>2. <<>> \in Seq(SUBSET Updates) /\ Len(<<>>) = 0
    BY EmptySeq
  <2>3. Idle(p) /\ file' = file /\ begun' = begun /\ acked' \in {acked, acked \union {op[p]}}
    BY <1>9 DEF Refuse, Leave, Killed
  <2>4. acked' \subseteq Updates
    <3>1. CASE Leave(p)
      <4>1. op[p] \in Updates
        BY <2>1 DEF TypeOK
      <4>2. QED
        BY <2>3, <4>1 DEF TypeOK
    <3>2. CASE Refuse(p) \/ Killed(p)
      BY <3>2 DEF TypeOK, Refuse, Killed
    <3>3. QED
      BY <1>9, <3>1, <3>2
  <2>5. place' \in [Procs -> Nat] /\ \A q \in Procs : place'[q] \in 1 .. Len(data'[q]) + 1
    BY <2>2, <2>3 DEF TypeOK, Idle
  <2>6. QED
    BY <1>1, <2>1, <2>2, <2>3, <2>4, <2>5 DEF TypeOK, LockTypeOK, Idle, Steps
<1>10. CASE TimePasses
  <2>1. at' = at
    BY <1>10 DEF TimePasses, Tick
  <2>2. QED
    BY <1>1, <1>10, <2>1 DEF TypeOK, TimePasses, fileVars
<1>11. QED
  BY <1>2, <1>3, <1>4, <1>5, <1>6, <1>7, <1>8, <1>9, <1>10 DEF Next

\* The stores, and the place of each process in the code, keep their shapes: exactly
\* who holds the lock is at work on the file, exactly who makes an update is inside.
THEOREM StateTypeCorrect == Spec => []TypeOK
<1>1. Init => TypeOK
  <2>1. <<>> \in Seq(SUBSET Updates)
    BY EmptySeq
  <2>2. Init => LockTypeOK
    BY LockTypeInit DEF Init
  <2>3. Init => /\ file \in File /\ data \in [Procs -> Seq(SUBSET Updates)]
                /\ place \in [Procs -> Nat]
                /\ \A p \in Procs : place[p] \in 1 .. Len(data[p]) + 1
    BY <2>1, EmptySeq DEF Init, File
  <2>4. QED
    BY <2>2, <2>3 DEF Init, LockInit, TypeOK, Steps
<1>2. TypeOK /\ [Next]_vars => TypeOK'
  BY TypeStep
<1>3. QED
  BY <1>1, <1>2, PTL DEF Spec

-----------------------------------------------------------------------------
(* No update twice, in every case.  An update that is not written yet is in no  *)
(* file - but for the lines that its own holder has already written - and in    *)
(* nobody's memory, so a holder adds something new to whatever it has loaded,   *)
(* however old that is.                                                         *)

Pending(p) == op[p] # NoUpdate /\ step[p] # "leave"
Halfway(p) == Format = "jsonl" /\ step[p] = "write"

UpdatesOK ==
    /\ Distinct(file.lines) /\ Contents(file.lines) \subseteq begun
    /\ \A p \in Procs : Distinct(data[p]) /\ Contents(data[p]) \subseteq begun
    /\ \A p \in Procs : op[p] \in begun \union {NoUpdate}
    /\ \A p, q \in Procs : op[p] = op[q] /\ op[p] # NoUpdate => p = q
    /\ \A p \in Procs : Pending(p) => op[p] \notin Contents(file.lines) \/ Halfway(p)
    /\ \A p, q \in Procs : Pending(p) => op[p] \notin Contents(data[q])

LEMMA EmptyFacts == Contents(<<>>) = {} /\ Distinct(<<>>)
BY DEF Contents, Range, Distinct

\* Who works on the file is alone with it.
LEMMA Alone ==
    ASSUME TypeOK, LockFresh, NEW p \in Procs, step[p] # "none"
    PROVE  \A q \in Procs \ {p} : step[q] = "none"
BY DEF TypeOK, LockFresh

\* What a holder writes, in whole or in part.
LEMMA WrittenFresh ==
    ASSUME TypeOK, UpdatesOK, NEW p \in Procs, at[p] = "in", step[p] = "write"
    PROVE  /\ Distinct(New(p)) /\ Contents(New(p)) = Contents(data[p]) \union {op[p]}
           /\ \A n \in Len(file.lines) .. Len(New(p)) :
                 LET s == SubSeq(New(p), 1, n)
                 IN  Distinct(s) /\ Contents(s) \subseteq Contents(data[p]) \union {op[p]}
<1>1. /\ data[p] \in Seq(SUBSET Updates) /\ op[p] \in Updates /\ op[p] # NoUpdate
      /\ Distinct(data[p]) /\ op[p] \notin Contents(data[p])
      /\ place[p] \in 1 .. Len(data[p]) + 1
  BY DEF TypeOK, UpdatesOK, Pending
<1>2. Distinct(New(p)) /\ Contents(New(p)) = Contents(data[p]) \union {op[p]}
  <2> DEFINE s == data[p]  u == op[p]  n == place[p]
  <2>1. /\ s \in Seq(SUBSET Updates) /\ u \in Updates /\ n \in 1 .. Len(s) + 1
        /\ Distinct(s) /\ u \notin Contents(s)
    BY <1>1
  <2> HIDE DEF s, u, n
  <2>2. Distinct(With(s, n, u)) /\ Contents(With(s, n, u)) = Contents(s) \union {u}
    BY <2>1, WithFacts
  <2>3. QED
    BY <2>2 DEF New, s, u, n
<1>3. ASSUME NEW n \in Len(file.lines) .. Len(New(p))
      PROVE  /\ Distinct(SubSeq(New(p), 1, n))
             /\ Contents(SubSeq(New(p), 1, n)) \subseteq Contents(data[p]) \union {op[p]}
  <2>1. n \in 0 .. Len(New(p)) /\ New(p) \in Seq(SUBSET Updates)
    BY <1>1, WrittenType
  <2>2. QED
    BY <1>2, <2>1, PrefixFacts
<1>4. QED
  BY <1>2, <1>3

LEMMA UpdatesStep ==
    ASSUME TypeOK, UpdatesOK, Format = "jsonl" => LockFresh, [Next]_vars
    PROVE  UpdatesOK'
<1>1. CASE UNCHANGED vars
  BY <1>1 DEF UpdatesOK, Pending, Halfway, vars, fileVars
<1>2. ASSUME NEW p \in Procs, Begin(p)
      PROVE  UpdatesOK'
  <2>1. PICK u \in Updates \ begun : op' = [op EXCEPT ![p] = u] /\ begun' = begun \union {u}
    BY <1>2 DEF Begin
  <2>2. file' = file /\ step' = step /\ data' = data /\ u # NoUpdate
    BY <1>2 DEF Begin
  <2>3. QED
    BY <2>1, <2>2 DEF TypeOK, UpdatesOK, Pending, Halfway
<1>3. ASSUME NEW p \in Procs, TryLock(p)
      PROVE  UpdatesOK'
  <2>1. /\ file' = file /\ data' = data /\ begun' = begun
        /\ \A q \in Procs : op'[q] \in {op[q], NoUpdate}
        /\ \A q \in Procs : step'[q] = step[q] \/ q = p
    BY <1>3 DEF TypeOK, TryLock
  <2>2. step[p] = "none"
    BY <1>3, PlaceOf DEF TypeOK, TryLock
  <2>3. QED
    BY <2>1, <2>2 DEF TypeOK, UpdatesOK, Pending, Halfway
<1>4. ASSUME NEW p \in Procs, Load(p)
      PROVE  UpdatesOK'
  <2>1. Distinct(Loaded) /\ Contents(Loaded) \subseteq Contents(file.lines)
    BY EmptyFacts DEF UpdatesOK, Loaded
  <2>2. /\ file' = file /\ op' = op /\ begun' = begun
        /\ data' = [data EXCEPT ![p] = Loaded] /\ step' = [step EXCEPT ![p] = "truncate"]
        /\ step[p] = "load"
    BY <1>4 DEF Load
  <2>3. \A q \in Procs : ~Halfway(q)
    BY <2>2, Alone DEF Halfway
  <2>4. QED
    BY <2>1, <2>2, <2>3 DEF TypeOK, UpdatesOK, Pending, Halfway
<1>5. ASSUME NEW p \in Procs, Truncate(p)
      PROVE  UpdatesOK'
  BY <1>5, EmptyFacts DEF TypeOK, UpdatesOK, Pending, Truncate
<1>6. ASSUME NEW p \in Procs, WriteSome(p)
      PROVE  UpdatesOK'
  <2>1. PICK n \in Len(file.lines) .. Len(New(p)) :
           file' = [whole |-> FALSE, lines |-> SubSeq(New(p), 1, n)]
    BY <1>6 DEF WriteSome
  <2>2. /\ Distinct(file'.lines)
        /\ Contents(file'.lines) \subseteq Contents(data[p]) \union {op[p]}
    BY <1>6, <2>1, WrittenFresh DEF WriteSome
  <2>3. op[p] # NoUpdate /\ Halfway(p)
    BY <1>6 DEF TypeOK, WriteSome, Halfway
  <2>4. op' = op /\ data' = data /\ begun' = begun /\ step' = step
    BY <1>6 DEF WriteSome
  <2>5. QED
    BY <2>2, <2>3, <2>4 DEF TypeOK, UpdatesOK, Pending, Halfway
<1>7. ASSUME NEW p \in Procs, Write(p)
      PROVE  UpdatesOK'
  <2>1. /\ Distinct(file'.lines)
        /\ Contents(file'.lines) = Contents(data[p]) \union {op[p]}
    BY <1>7, WrittenFresh DEF Write
  <2>2. op[p] # NoUpdate
    BY <1>7 DEF TypeOK, Write
  <2>3. /\ op' = op /\ data' = data /\ begun' = begun
        /\ step' = [step EXCEPT ![p] = "leave"] /\ step[p] = "write"
    BY <1>7 DEF Write
  <2>4. QED
    BY <2>1, <2>2, <2>3 DEF TypeOK, UpdatesOK, Pending, Halfway
<1>8. ASSUME NEW p \in Procs, Refuse(p) \/ Leave(p) \/ Killed(p)
      PROVE  UpdatesOK'
  <2>1. /\ file' = file /\ begun' = begun
        /\ op' = [op EXCEPT ![p] = NoUpdate]
        /\ step' = [step EXCEPT ![p] = "none"]
        /\ data' = [data EXCEPT ![p] = <<>>]
    BY <1>8 DEF Refuse, Leave, Killed, Idle
  <2>2. QED
    BY <2>1, EmptyFacts DEF TypeOK, UpdatesOK, Pending, Halfway
<1>9. CASE TimePasses
  BY <1>9 DEF UpdatesOK, Pending, Halfway, TimePasses, fileVars
<1>10. QED
  BY <1>1, <1>2, <1>3, <1>4, <1>5, <1>6, <1>7, <1>8, <1>9 DEF Next

LEMMA UpdatesInit == Init => UpdatesOK
BY EmptyFacts DEF Init, UpdatesOK, Pending, Halfway

\* The lock excludes others in the model of a JSON-lines file, and for ever.
LEMMA FreshForLines ==
    ASSUME Format = "jsonl", TypeOK, LockFresh, [Next]_vars
    PROVE  LockFresh'
BY StateStepIsLockStep, LockFreshStep DEF TypeOK

\* However processes are killed, and however many believe to hold the lock at once,
\* nobody ever reads an update twice.
THEOREM NothingTwice == Spec => []NeverTwice
<1> DEFINE Inv == UpdatesOK /\ (Format = "jsonl" => LockFresh)
<1>1. Init => Inv
  BY UpdatesInit, LockFreshInit DEF Init
<1>2. TypeOK /\ Inv /\ [Next]_vars => Inv'
  BY UpdatesStep, FreshForLines
<1>3. TypeOK /\ Inv => NeverTwice
  BY EmptyFacts DEF TypeOK, UpdatesOK, NeverTwice, Loaded, Distinct, Rewriting, Pending
<1>4. QED
  BY <1>1, <1>2, <1>3, StateTypeCorrect, PTL DEF Spec

-----------------------------------------------------------------------------
(* Atomicity while nobody is killed or slow.  There is one holder, so what it   *)
(* loaded is what the file stands for until it has written it again.            *)

HolderOK(p) ==
    /\ step[p] = "truncate" => data[p] = file.lines
    /\ step[p] = "write" => ~file.whole /\ IsPrefixOf(file.lines, New(p))
    /\ step[p] = "write" /\ Format = "json" => file.lines = <<>>
    /\ step[p] = "leave" => op[p] \in Contents(file.lines)

SoleHolder ==
    /\ LockFresh
    /\ Rewriting = {} => file.whole
    /\ \A p \in Procs : HolderOK(p)

LEMMA PrefixOfItself ==
    ASSUME NEW S, NEW s \in Seq(S)
    PROVE  IsPrefixOf(s, s) /\ IsPrefixOf(<<>>, s)
<1>1. Len(s) \in Nat /\ Len(s) \in 0 .. Len(s) /\ Len(<<>>) = 0
  BY LenProperties, EmptySeq
<1>2. s = SubSeq(s, 1, Len(s))
  BY <1>1, PrefixFacts, SeqEqual
<1>3. <<>> = SubSeq(s, 1, 0)
  BY SubSeqEmpty
<1>4. QED
  BY <1>1, <1>2, <1>3 DEF IsPrefixOf

\* What the file stands for, with its holder at each place.
LEMMA CommittedIs ==
    ASSUME TypeOK, LockFresh, NEW p \in Procs, step[p] # "none"
    PROVE  /\ step[p] = "write" => Rewriting = {p} /\ Committed = data[p]
           /\ step[p] # "write" => Rewriting = {} /\ Committed = file.lines
<1>1. \A q \in Procs \ {p} : step[q] = "none"
  BY Alone
<1>2. ASSUME step[p] = "write"
      PROVE  Rewriting = {p} /\ Committed = data[p]
  <2>1. Rewriting = {p}
    BY <1>1, <1>2 DEF Rewriting
  <2>2. QED
    BY <2>1 DEF Committed
<1>3. ASSUME step[p] # "write"
      PROVE  Rewriting = {} /\ Committed = file.lines
  BY <1>1, <1>3 DEF Rewriting, Committed
<1>4. QED
  BY <1>2, <1>3

LEMMA SoleHolderStep ==
    ASSUME ~Crashes, ~SlowHolders, TypeOK, SoleHolder, [Next]_vars
    PROVE  SoleHolder'
<1>1. LockFresh'
  BY StateStepIsLockStep, LockFreshStep DEF TypeOK, SoleHolder
<1>2. LockFresh /\ (Rewriting = {} => file.whole) /\ \A q \in Procs : HolderOK(q)
  BY DEF SoleHolder
<1>3. CASE UNCHANGED vars
  BY <1>1, <1>2, <1>3 DEF SoleHolder, HolderOK, New, Rewriting, vars, fileVars
<1>4. ASSUME NEW p \in Procs, Begin(p)
      PROVE  SoleHolder'
  <2>1. \A q \in Procs : step[q] = "leave" => op'[q] = op[q]
    BY <1>4, PlaceOf DEF TypeOK, Begin
  <2>2. file' = file /\ step' = step /\ data' = data /\ place' = place
    BY <1>4 DEF Begin
  <2>3. \A q \in Procs : step[q] = "write" => op'[q] = op[q]
    BY <1>4, PlaceOf DEF TypeOK, Begin
  <2>4. QED
    BY <1>1, <1>2, <2>1, <2>2, <2>3 DEF SoleHolder, HolderOK, New, Rewriting
<1>5. ASSUME NEW p \in Procs, TryLock(p)
      PROVE  SoleHolder'
  <2>1. /\ file' = file /\ data' = data /\ place' = place
        /\ step[p] = "none" /\ step'[p] \in {"load", "none"}
        /\ \A q \in Procs \ {p} : step'[q] = step[q] /\ op'[q] = op[q]
    BY <1>5, PlaceOf DEF TypeOK, TryLock
  <2>2. QED
    BY <1>1, <1>2, <2>1 DEF SoleHolder, HolderOK, New, Rewriting
<1>6. ASSUME NEW p \in Procs, Load(p)
      PROVE  SoleHolder'
  <2>1. \A q \in Procs \ {p} : step[q] = "none"
    BY <1>2, <1>6, Alone DEF Load
  <2>2. file.whole
    BY <1>2, <1>6, <2>1 DEF Load, Rewriting
  <2>3. /\ file' = file /\ step'[p] = "truncate" /\ data'[p] = file.lines
        /\ \A q \in Procs \ {p} : step'[q] = "none"
    BY <1>6, <2>1, <2>2 DEF TypeOK, Load, Loaded
  <2>4. QED
    BY <1>1, <2>2, <2>3 DEF SoleHolder, HolderOK, New, Rewriting
<1>7. ASSUME NEW p \in Procs, Truncate(p)
      PROVE  SoleHolder'
  <2>1. \A q \in Procs \ {p} : step[q] = "none"
    BY <1>2, <1>7, Alone DEF Truncate
  <2>2. /\ file' = [whole |-> FALSE, lines |-> <<>>]
        /\ step'[p] = "write" /\ data' = data
        /\ \A q \in Procs \ {p} : step'[q] = "none"
    BY <1>7, <2>1 DEF TypeOK, Truncate
  <2>3. IsPrefixOf(<<>>, New(p)')
    <3>1. New(p)' = New(p) /\ New(p) \in Seq(SUBSET Updates)
      BY <1>7, WrittenType DEF TypeOK, Truncate, New
    <3>2. QED
      BY <3>1, PrefixOfItself
  <2>4. p \in Rewriting'
    BY <2>2 DEF Rewriting
  <2>5. QED
    BY <1>1, <2>2, <2>3, <2>4 DEF SoleHolder, HolderOK, New
<1>8. ASSUME NEW p \in Procs, WriteSome(p)
      PROVE  SoleHolder'
  <2>1. PICK n \in Len(file.lines) .. Len(New(p)) :
           file' = [whole |-> FALSE, lines |-> SubSeq(New(p), 1, n)]
    BY <1>8 DEF WriteSome
  <2>2. New(p) \in Seq(SUBSET Updates) /\ n \in 0 .. Len(New(p)) /\ Len(New(p)) \in Nat
    BY <1>8, <2>1, WrittenType, LenProperties DEF TypeOK, WriteSome
  <2>3. New(p)' = New(p)
    BY <1>8 DEF WriteSome, New
  <2>4. IsPrefixOf(file'.lines, New(p)')
    BY <2>1, <2>2, <2>3, PrefixFacts DEF IsPrefixOf
  <2>5. \A q \in Procs \ {p} : step[q] = "none"
    BY <1>2, <1>8, Alone DEF WriteSome
  <2>6. step' = step /\ data' = data /\ step[p] = "write" /\ Format # "json" /\ ~file'.whole
    BY <1>8, <2>1 DEF WriteSome
  <2>7. p \in Rewriting'
    BY <2>6 DEF Rewriting
  <2>8. QED
    BY <1>1, <2>4, <2>5, <2>6, <2>7 DEF SoleHolder, HolderOK, New
<1>9. ASSUME NEW p \in Procs, Write(p)
      PROVE  SoleHolder'
  <2>1. \A q \in Procs \ {p} : step[q] = "none"
    BY <1>2, <1>9, Alone DEF Write
  <2>2. file' = [whole |-> TRUE, lines |-> New(p)]
    BY <1>2, <1>9 DEF Write, HolderOK
  <2>3. op[p] \in Contents(New(p))
    BY <1>9, WrittenType DEF TypeOK, Write
  <2>4. /\ step'[p] = "leave" /\ op' = op
        /\ \A q \in Procs \ {p} : step'[q] = "none"
    BY <1>9, <2>1 DEF TypeOK, Write
  <2>5. QED
    BY <1>1, <2>2, <2>3, <2>4 DEF SoleHolder, HolderOK, New
<1>10. ASSUME NEW p \in Procs, Leave(p) \/ Refuse(p)
       PROVE  SoleHolder'
  <2>1. \A q \in Procs \ {p} : step[q] = "none"
    BY <1>2, <1>10, Alone DEF Leave, Refuse
  <2>2. file' = file /\ \A q \in Procs : step'[q] = "none"
    BY <1>10, <2>1 DEF TypeOK, Leave, Refuse, Idle
  <2>3. file.whole
    BY <1>2, <1>10, <2>1 DEF Leave, Refuse, Rewriting
  <2>4. QED
    BY <1>1, <2>2, <2>3 DEF SoleHolder, HolderOK, New
<1>11. ASSUME NEW p \in Procs, Killed(p)
       PROVE  SoleHolder'
  BY <1>11 DEF Killed, Crash
<1>12. CASE TimePasses
  BY <1>1, <1>2, <1>12 DEF SoleHolder, HolderOK, New, Rewriting, TimePasses, fileVars
<1>13. QED
  BY <1>3, <1>4, <1>5, <1>6, <1>7, <1>8, <1>9, <1>10, <1>11, <1>12 DEF Next

LEMMA SoleHolderInit == Init => SoleHolder
<1>1. Init => LockFresh
  BY LockFreshInit DEF Init
<1>2. QED
  BY <1>1 DEF Init, SoleHolder, HolderOK

\* Each step of a process is a step of the log, or none.
LEMMA StepIsLogStep ==
    ASSUME ~Crashes, TypeOK, UpdatesOK, SoleHolder, [Next]_vars
    PROVE  [Log!Next]_<<Committed, acked>>
<1>1. LockFresh /\ \A q \in Procs : HolderOK(q)
  BY DEF SoleHolder
<1>2. CASE UNCHANGED vars
  BY <1>2 DEF Committed, Rewriting, vars, fileVars
<1>3. ASSUME NEW p \in Procs, Begin(p)
      PROVE  UNCHANGED <<Committed, acked>>
  BY <1>3 DEF Begin, Committed, Rewriting
<1>4. ASSUME NEW p \in Procs, TryLock(p)
      PROVE  UNCHANGED <<Committed, acked>>
  <2>1. /\ file' = file /\ data' = data /\ acked' = acked
        /\ step[p] = "none" /\ step'[p] \in {"load", "none"}
        /\ \A q \in Procs \ {p} : step'[q] = step[q]
    BY <1>4, PlaceOf DEF TypeOK, TryLock
  <2>2. Rewriting' = Rewriting
    BY <2>1 DEF Rewriting
  <2>3. QED
    BY <2>1, <2>2 DEF Committed
<1>5. ASSUME NEW p \in Procs, Load(p)
      PROVE  UNCHANGED <<Committed, acked>>
  <2>1. Rewriting = {} /\ Committed = file.lines
    BY <1>1, <1>5, CommittedIs DEF Load
  <2>2. Rewriting' = {} /\ file' = file /\ acked' = acked
    BY <1>5, <2>1 DEF TypeOK, Load, Rewriting
  <2>3. QED
    BY <2>1, <2>2 DEF Committed
<1>6. ASSUME NEW p \in Procs, Truncate(p)
      PROVE  UNCHANGED <<Committed, acked>>
  <2>1. Rewriting = {} /\ Committed = data[p]
    BY <1>1, <1>6, CommittedIs DEF Truncate, HolderOK
  <2>2. Rewriting' = {p} /\ data' = data /\ acked' = acked
    BY <1>6, <2>1 DEF TypeOK, Truncate, Rewriting
  <2>3. QED
    BY <2>1, <2>2 DEF Committed
<1>7. ASSUME NEW p \in Procs, WriteSome(p)
      PROVE  UNCHANGED <<Committed, acked>>
  <2>1. Rewriting = {p} /\ Committed = data[p]
    BY <1>1, <1>7, CommittedIs DEF WriteSome
  <2>2. Rewriting' = {p} /\ data' = data /\ acked' = acked
    BY <1>7, <2>1 DEF WriteSome, Rewriting
  <2>3. QED
    BY <2>1, <2>2 DEF Committed
<1>8. ASSUME NEW p \in Procs, Write(p)
      PROVE  Log!Next
  <2>1. Rewriting = {p} /\ Committed = data[p]
    BY <1>1, <1>8, CommittedIs DEF Write
  <2>2. file' = [whole |-> TRUE, lines |-> New(p)] /\ acked' = acked
    BY <1>1, <1>8 DEF Write, HolderOK
  <2>3. Rewriting' = {}
    BY <1>8, <2>1 DEF TypeOK, Write, Rewriting
  <2>4. /\ Committed' = With(Committed, place[p], op[p])
        /\ place[p] \in 1 .. Len(Committed) + 1
    BY <2>1, <2>2, <2>3 DEF TypeOK, Committed, New
  <2>5. op[p] \in Updates /\ op[p] \notin Contents(Committed)
    BY <1>8, <2>1 DEF TypeOK, UpdatesOK, Pending, Write
  <2>6. QED
    BY <2>2, <2>4, <2>5 DEF Log!Next, Log!Apply, Log!Contents, Log!With, Log!Range, Contents, With, Range
<1>9. ASSUME NEW p \in Procs, Leave(p)
      PROVE  Log!Next
  <2>1. Rewriting = {} /\ Committed = file.lines
    BY <1>1, <1>9, CommittedIs DEF Leave
  <2>2. Rewriting' = {} /\ file' = file /\ acked' = acked \union {op[p]}
    BY <1>9, <2>1 DEF TypeOK, Leave, Idle, Rewriting
  <2>3. op[p] \in Contents(Committed) /\ op[p] \in Updates
    BY <1>1, <1>9, <2>1 DEF TypeOK, Leave, HolderOK
  <2>4. Committed' = Committed
    BY <2>1, <2>2 DEF Committed
  <2>5. QED
    BY <2>2, <2>3, <2>4 DEF Log!Next, Log!Acknowledge, Log!Contents, Log!With, Log!Range, Contents, With, Range
<1>10. ASSUME NEW p \in Procs, Killed(p)
       PROVE  Log!Next
  BY <1>10 DEF Killed, Crash
<1>11. CASE TimePasses
  BY <1>11 DEF TimePasses, fileVars, Committed, Rewriting
<1>12. ASSUME NEW p \in Procs, Refuse(p)
       PROVE  UNCHANGED <<Committed, acked>>
  <2>1. Rewriting = {} /\ Committed = file.lines
    BY <1>1, <1>12, CommittedIs DEF Refuse
  <2>2. Rewriting' = {} /\ file' = file /\ acked' = acked
    BY <1>12, <2>1 DEF TypeOK, Refuse, Idle, Rewriting
  <2>3. QED
    BY <2>1, <2>2 DEF Committed
<1>13. QED
  BY <1>2, <1>3, <1>4, <1>5, <1>6, <1>7, <1>8, <1>9, <1>10, <1>11, <1>12 DEF Next

\* While nobody is killed and nobody holds the lock longer than the timeout, a state
\* file behaves like a log that each call changes, in one of its lines, in one step.
THEOREM Implements ==
    ASSUME ~Crashes, ~SlowHolders
    PROVE  Spec => Atomic
<1>1. Init => Log!Init
  BY DEF Init, Log!Init, Committed, Rewriting
<1>2. Init => UpdatesOK /\ SoleHolder
  BY UpdatesInit, SoleHolderInit
<1>3. TypeOK /\ UpdatesOK /\ SoleHolder /\ [Next]_vars => UpdatesOK' /\ SoleHolder'
  BY UpdatesStep, SoleHolderStep DEF SoleHolder
<1>4. TypeOK /\ UpdatesOK /\ SoleHolder /\ [Next]_vars => [Log!Next]_<<Committed, acked>>
  BY StepIsLogStep
<1>5. QED
  BY <1>1, <1>2, <1>3, <1>4, StateTypeCorrect, PTL DEF Spec, Atomic, Log!Spec

\* Under the same conditions a reader without the lock sees the first lines of the file
\* before the rewrite that is going on, or of the file after it.
THEOREM ReadersSeeBeginnings ==
    ASSUME ~Crashes, ~SlowHolders
    PROVE  Spec => []ReadsAreBeginnings
<1>1. ASSUME TypeOK, SoleHolder
      PROVE  ReadsAreBeginnings
  <2>1. CASE Rewriting = {}
    <3>1. Loaded = Committed /\ Loaded \in Seq(SUBSET Updates)
      BY <1>1, <2>1, LoadedType DEF SoleHolder, Loaded, Committed
    <3>2. QED
      BY <3>1, PrefixOfItself DEF ReadsAreBeginnings
  <2>2. CASE Rewriting # {}
    <3>1. PICK p \in Rewriting : step[p] = "write"
      BY <2>2 DEF Rewriting
    <3>2. New(p) \in Seq(SUBSET Updates)
      BY <1>1, <3>1, WrittenType DEF TypeOK, Rewriting
    <3>3. Loaded \in {file.lines, <<>>}
      BY DEF Loaded
    <3>4. IsPrefixOf(file.lines, New(p)) /\ IsPrefixOf(<<>>, New(p))
      BY <1>1, <3>1, <3>2, PrefixOfItself DEF SoleHolder, HolderOK, Rewriting
    <3>5. QED
      BY <3>3, <3>4 DEF ReadsAreBeginnings
  <2>3. QED
    BY <2>1, <2>2
<1>2. TypeOK /\ SoleHolder /\ [Next]_vars => SoleHolder'
  BY SoleHolderStep
<1>3. QED
  BY <1>1, <1>2, SoleHolderInit, StateTypeCorrect, PTL DEF Spec
=============================================================================
