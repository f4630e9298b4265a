------------------------------ MODULE FileLock ------------------------------
(***************************************************************************)
(* The advisory lock of state.py: a file that O_EXCL creates and that       *)
(* whoever finds it older than the timeout removes.  The file does not say  *)
(* whose it is to anyone: the holder removes whatever file is there when it *)
(* leaves, and a waiter removes whatever file is there after it looked at   *)
(* the age.  `lock` names the creator for the properties and for the        *)
(* surroundings only.                                                       *)
(*                                                                         *)
(* Time passes in ticks, at any moment.  Clocks stop one tick past the      *)
(* timeout, beyond which no comparison tells values apart.                  *)
(***************************************************************************)
EXTENDS Naturals

CONSTANTS
    Procs,        \* processes on one host: hooks, the sagw server, the command line
    Timeout,      \* the one timeout for waiting and for staleness (10 s), in ticks
    Crashes,      \* may a process be killed?
    SlowHolders,  \* may a process hold the lock longer than the timeout?
    NoOne         \* the lock file does not exist

ASSUME LockAssumption ==
    /\ Timeout \in Nat \ {0}
    /\ Crashes \in BOOLEAN
    /\ SlowHolders \in BOOLEAN
    /\ NoOne \notin Procs

VARIABLES
    lock,   \* who created the lock file, or NoOne
    age,    \* ticks since it was created (its mtime)
    at,     \* where each process is in _FileLock
    timer   \* ticks since a process began to wait, or since it took the lock

lockVars == <<lock, age, at, timer>>

Places == {"out", "create", "stat", "unlink", "deadline", "in"}
Ticks == 0 .. Timeout + 1
Later(t) == IF t > Timeout THEN t ELSE t + 1
Holders == {p \in Procs : at[p] = "in"}

LockInit ==
    /\ lock = NoOne
    /\ age = 0
    /\ at = [p \in Procs |-> "out"]
    /\ timer = [p \in Procs |-> 0]

\* __enter__ fixes the deadline.
Enter(p) ==
    /\ at[p] = "out"
    /\ at' = [at EXCEPT ![p] = "create"]
    /\ timer' = [timer EXCEPT ![p] = 0]
    /\ UNCHANGED <<lock, age>>

\* os.open with O_CREAT and O_EXCL.
Create(p) ==
    /\ at[p] = "create"
    /\ IF lock = NoOne
       THEN /\ lock' = p /\ age' = 0
            /\ at' = [at EXCEPT ![p] = "in"]
            /\ timer' = [timer EXCEPT ![p] = 0]
       ELSE at' = [at EXCEPT ![p] = "stat"] /\ UNCHANGED <<lock, age, timer>>

Stale_AtTimeout == age >= Timeout

Stale_Never == FALSE

Stale == age > Timeout

\* A file that is gone meanwhile (OSError) is not stale.
Stat(p) ==
    /\ at[p] = "stat"
    /\ at' = [at EXCEPT ![p] = IF lock # NoOne /\ Stale THEN "unlink" ELSE "deadline"]
    /\ UNCHANGED <<lock, age, timer>>

\* unlink(missing_ok=True), then the next attempt without looking at the deadline.
Unlink(p) ==
    /\ at[p] = "unlink"
    /\ lock' = NoOne
    /\ at' = [at EXCEPT ![p] = "create"]
    /\ UNCHANGED <<age, timer>>

CheckDeadline_Forgotten(p) ==
    /\ at[p] = "deadline"
    /\ at' = [at EXCEPT ![p] = "create"]
    /\ UNCHANGED <<lock, age, timer>>

\* StateError once the deadline has passed, else sleep and try again.
CheckDeadline(p) ==
    /\ at[p] = "deadline"
    /\ at' = [at EXCEPT ![p] = IF timer[p] >= Timeout THEN "out" ELSE "create"]
    /\ UNCHANGED <<lock, age, timer>>

\* __exit__ unlinks the path, not the file this process created.
Exit(p) ==
    /\ at[p] = "in"
    /\ lock' = NoOne
    /\ at' = [at EXCEPT ![p] = "out"]
    /\ UNCHANGED <<age, timer>>

\* A killed process leaves the file behind.
Crash(p) ==
    /\ Crashes
    /\ at[p] # "out"
    /\ at' = [at EXCEPT ![p] = "out"]
    /\ UNCHANGED <<lock, age, timer>>

Tick ==
    /\ SlowHolders \/ \A p \in Holders : timer[p] < Timeout
    /\ age' = Later(age)
    /\ timer' = [p \in Procs |-> Later(timer[p])]
    /\ UNCHANGED <<lock, at>>

Attempt(p) == Create(p) \/ Stat(p) \/ Unlink(p) \/ CheckDeadline(p)

LockNext ==
    \/ \E p \in Procs : Enter(p) \/ Attempt(p) \/ Exit(p) \/ Crash(p)
    \/ Tick

LockSpec == LockInit /\ [][LockNext]_lockVars

\* Time passes; a process that runs goes on, and comes back for the lock again
\* and again; processes may be killed often, but not every time one is about to
\* take a certain step.
LockFairness ==
    /\ WF_lockVars(Tick)
    /\ \A p \in Procs : WF_lockVars(Enter(p))
    /\ \A p \in Procs : WF_lockVars(at[p] = "in" /\ (Exit(p) \/ Crash(p)))
    /\ \A p \in Procs : WF_lockVars(Attempt(p) \/ Crash(p))
    /\ SF_lockVars(\E p \in Procs : Create(p))
    /\ SF_lockVars(\E p \in Procs : Stat(p))
    /\ SF_lockVars(\E p \in Procs : Unlink(p))

FairLockSpec == LockSpec /\ LockFairness

-----------------------------------------------------------------------------

LockTypeOK ==
    /\ lock \in Procs \union {NoOne}
    /\ age \in Ticks
    /\ at \in [Procs -> Places]
    /\ timer \in [Procs -> Ticks]

\* While nobody is killed with the lock and nobody holds it longer than the
\* timeout, the stale-lock rule of __enter__ never lets a second process in.
MutualExclusion ==
    ~Crashes /\ ~SlowHolders => \A p, q \in Holders : p = q

\* "A crashed holder must not wedge the engine forever" (state.py): whoever is
\* killed, and whenever, the lock is again and again free or held by a live process.
NeverWedged == []<>(lock = NoOne \/ at[lock] = "in")

\* The deadline of __enter__: a process that waits gets the lock or an error, however
\* many others come and go - unless it meets stale locks again and again, since
\* breaking one leads to the next attempt without a look at the deadline.
NobodyWaitsForever ==
    \A p \in Procs :
       <>[][~Unlink(p)]_lockVars => (at[p] = "create" ~> at[p] \in {"in", "out"})
=============================================================================
