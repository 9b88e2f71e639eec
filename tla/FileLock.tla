------------------------------ MODULE FileLock ------------------------------
(***************************************************************************)
(* mutate() and acquireLock() of the JSON registries (src/src/run/store.ts;  *)
(* the task store has the same; the reminder, routine, watch and agent       *)
(* stores sleep 25 ms an attempt, and so are less patient): a read-modify-write  *)
(* under a lock directory, which a waiter removes when it is older than      *)
(* LOCK_STALE_MS and every caller removes when it is done.  One step is one  *)
(* call to the file system; calls of different processes interleave at each. *)
(*                                                                         *)
(* Time passes in ticks.  File-system calls take none, so the clock ticks    *)
(* when every caller sleeps in its wait loop or is between calls; a waiter   *)
(* tries again at every tick.                                                *)
(***************************************************************************)
EXTENDS Integers

CONSTANTS
    Procs,          \* callers of mutate(), each in a process of its own
    StaleAfter,     \* LOCK_STALE_MS, in ticks
    Patience,       \* LOCK_ATTEMPTS' sleeps, 10 + attempt ms each, in ticks
    MaxCrashes      \* bound: processes that die inside mutate()

ASSUME FileLockAssumption ==
    /\ StaleAfter \in Nat /\ Patience \in Nat /\ MaxCrashes \in Nat

VARIABLES
    file,       \* the changes the ledger holds; caller p makes change p
    reported,   \* the changes whose mutate() returned
    age,        \* the age of the lock directory, NoLock when there is none
    pc,         \* where each caller has got to
    copy,       \* the ledger each caller read
    waited,     \* how long each caller has slept
    crashes

NoLock == -1
Held == age # NoLock

lockVars == <<file, reported, age, pc, copy, waited, crashes>>

Pcs == {"idle", "mkdir", "stat", "rm", "sleep", "read", "write", "unlock", "thrown", "dead"}

LockTypeOK ==
    /\ file \subseteq Procs /\ reported \subseteq Procs
    /\ age \in NoLock .. StaleAfter + 1
    /\ pc \in [Procs -> Pcs]
    /\ copy \in [Procs -> SUBSET Procs]
    /\ waited \in [Procs -> 0 .. Patience]
    /\ crashes \in 0 .. MaxCrashes

Go(p, s) == pc' = [pc EXCEPT ![p] = s]

-----------------------------------------------------------------------------
LockInit ==
    /\ file = {} /\ reported = {}
    /\ age = NoLock
    /\ pc = [p \in Procs |-> "idle"]
    /\ copy = [p \in Procs |-> {}]
    /\ waited = [p \in Procs |-> 0]
    /\ crashes = 0

Call(p) ==
    /\ pc[p] \in {"idle", "thrown"} /\ Go(p, "mkdir")
    /\ waited' = [waited EXCEPT ![p] = 0]
    /\ UNCHANGED <<file, reported, age, copy, crashes>>

Mkdir(p) ==
    /\ pc[p] = "mkdir"
    /\ IF Held THEN Go(p, "stat") /\ UNCHANGED age
       ELSE Go(p, "read") /\ age' = 0
    /\ UNCHANGED <<file, reported, copy, waited, crashes>>

\* Mutants: any lock is taken for stale; none ever is.
IsStaleAlways == Held
IsStaleNever == FALSE

IsStale == age > StaleAfter

OutOfAttempts(p) == waited[p] = Patience

\* statSync: gone, stale, or another sleep; the last attempt throws.
Stat(p) ==
    /\ pc[p] = "stat"
    /\ Go(p, IF ~Held THEN "mkdir"
             ELSE IF IsStale THEN "rm"
             ELSE IF OutOfAttempts(p) THEN "thrown"
             ELSE "sleep")
    /\ UNCHANGED <<file, reported, age, copy, waited, crashes>>

\* rmSync of the lock seen stale, which need not be the one that is there now.
Rm(p) ==
    /\ pc[p] = "rm" /\ Go(p, "mkdir")
    /\ age' = NoLock
    /\ UNCHANGED <<file, reported, copy, waited, crashes>>

Read(p) ==
    /\ pc[p] = "read" /\ Go(p, "write")
    /\ copy' = [copy EXCEPT ![p] = file]
    /\ UNCHANGED <<file, reported, age, waited, crashes>>

\* change(ledger), then the temporary file renamed over the ledger.
Write(p) ==
    /\ pc[p] = "write" /\ Go(p, "unlock")
    /\ file' = copy[p] \cup {p}
    /\ UNCHANGED <<reported, age, copy, waited, crashes>>

\* The finally's rmSync, whoever's lock is there.
Unlock(p) ==
    /\ pc[p] = "unlock" /\ Go(p, "idle")
    /\ age' = NoLock
    /\ reported' = reported \cup {p}
    /\ UNCHANGED <<file, copy, waited, crashes>>

Away == {"idle", "thrown", "dead"}

\* A process dies in mutate(): its lock stays.
Die(p) ==
    /\ pc[p] \notin Away /\ crashes < MaxCrashes
    /\ Go(p, "dead") /\ crashes' = crashes + 1
    /\ UNCHANGED <<file, reported, age, copy, waited>>

Asleep(p) == pc[p] = "sleep"

ClockTicks ==
    /\ \A p \in Procs : pc[p] \in Away \cup {"sleep"}
    /\ (Held /\ age <= StaleAfter) \/ \E p \in Procs : Asleep(p)
    /\ age' = IF Held /\ age <= StaleAfter THEN age + 1 ELSE age
    /\ pc' = [p \in Procs |-> IF Asleep(p) THEN "mkdir" ELSE pc[p]]
    /\ waited' = [p \in Procs |-> IF Asleep(p) THEN waited[p] + 1 ELSE waited[p]]
    /\ UNCHANGED <<file, reported, copy, crashes>>

Syscall(p) == Mkdir(p) \/ Stat(p) \/ Rm(p) \/ Read(p) \/ Write(p) \/ Unlock(p)

LockNext == ClockTicks \/ \E p \in Procs : Call(p) \/ Syscall(p) \/ Die(p)

LockSpec == LockInit /\ [][LockNext]_lockVars

\* A live process makes its next call to the file system, the daemon calls
\* mutate() again and again, and time passes.
LockProceeds == ClockTicks \/ \E p \in Procs : Syscall(p) \/ Call(p)

-----------------------------------------------------------------------------
(* Properties *)

Ledger == INSTANCE AtomicLedger WITH Changes <- Procs

\* The stores' headers: "so the CLI and the daemon can both mutate it safely":
\* no caller writes over a change it did not read, and mutate() returns only
\* what is in the file.
ImplementsLedger == Ledger!Spec

\* LOCK_STALE_MS: the lock of a process that died does not stay; a live caller
\* gets past it in time.
LockFreed == Held ~> ~Held

\* patchRun's catch: the only patch that is skipped is one for a run that "is no
\* longer in the ledger"; no run is ever removed, so none is skipped.  TLC refutes
\* it (README).
NoneSkipped == \A p \in Procs : pc[p] # "thrown"
=============================================================================
