------------------------------ MODULE ScopeLock -----------------------------
(***************************************************************************)
(* ScopeIndexGuard of atelia-core/src/artifacts.rs: the lock on the index  *)
(* of one scope of the artifact store, in its three builds.  On Unix the   *)
(* file ".index.lock" is opened and locked with flock, which waits; on     *)
(* Windows it is locked with LockFileEx, and elsewhere created anew, and   *)
(* both try a number of times before they give up.  Kernel locks belong to *)
(* the file that was opened, whatever its name leads to later.             *)
(***************************************************************************)
EXTENDS Naturals

CONSTANTS
  Process,      \* threads, of any process, that use the store
  Attempts,     \* LOCK_RETRY_ATTEMPTS
  MaxInodes,    \* bound: lock files ever made
  MaxFaults,    \* bound: crashes and failed calls
  None

VARIABLES
  platform, \* which build it is
  entry,    \* the file that ".index.lock" leads to, 0 for none
  made,     \* lock files made so far
  locked,   \* who has locked each file, or None
  fd,       \* the file that each thread has open, 0 for none
  attempt,  \* tries of each thread that have failed
  where,    \* where each thread is
  failures  \* crashes and failed calls so far

files == <<entry, made>>

vars == <<platform, files, locked, fd, attempt, where, failures>>

KernelLocks == platform \in {"unix", "windows"}

TypeOK ==
  /\ platform \in {"unix", "windows", "other"}
  /\ entry \in 0 .. MaxInodes /\ made \in 0 .. MaxInodes
  /\ locked \in [1 .. MaxInodes -> Process \cup {None}]
  /\ fd \in [Process -> 0 .. MaxInodes]
  /\ attempt \in [Process -> 0 .. Attempts]
  /\ where \in [Process -> {"idle", "trying", "holding"}]
  /\ failures \in 0 .. MaxFaults

Init ==
  /\ platform \in {"unix", "windows", "other"}
  /\ entry = 0 /\ made = 0 /\ failures = 0
  /\ locked = [i \in 1 .. MaxInodes |-> None]
  /\ fd = [p \in Process |-> 0]
  /\ attempt = [p \in Process |-> 0]
  /\ where = [p \in Process |-> "idle"]

-----------------------------------------------------------------------------
\* The file is opened, and made when it is not there.
Open(p) ==
  /\ KernelLocks
  /\ where[p] = "idle"
  /\ IF entry # 0
       THEN fd' = [fd EXCEPT ![p] = entry] /\ UNCHANGED files
       ELSE /\ made < MaxInodes
            /\ made' = made + 1 /\ entry' = made + 1
            /\ fd' = [fd EXCEPT ![p] = made + 1]
  /\ where' = [where EXCEPT ![p] = "trying"]
  /\ attempt' = [attempt EXCEPT ![p] = 0]
  /\ UNCHANGED <<platform, locked, failures>>

\* flock, and LockFileEx when the file is free.
LockFile(p) ==
  /\ KernelLocks
  /\ where[p] = "trying" /\ locked[fd[p]] = None
  /\ locked' = [locked EXCEPT ![fd[p]] = p]
  /\ where' = [where EXCEPT ![p] = "holding"]
  /\ UNCHANGED <<platform, files, fd, attempt, failures>>

Begin(p) ==
  /\ ~KernelLocks
  /\ where[p] = "idle"
  /\ where' = [where EXCEPT ![p] = "trying"]
  /\ attempt' = [attempt EXCEPT ![p] = 0]
  /\ UNCHANGED <<platform, files, locked, fd, failures>>

\* create_new: the file that is there is somebody's.  Its number says nothing here.
CreateNew(p) ==
  /\ ~KernelLocks
  /\ where[p] = "trying" /\ entry = 0
  /\ entry' = 1
  /\ where' = [where EXCEPT ![p] = "holding"]
  /\ UNCHANGED <<platform, made, locked, fd, attempt, failures>>

Taken(p) == IF KernelLocks THEN locked[fd[p]] # None ELSE entry # 0

\* A try that finds the lock taken sleeps and is repeated; the last one gives up.
Retry(p) ==
  /\ platform # "unix"
  /\ where[p] = "trying" /\ Taken(p)
  /\ attempt' = [attempt EXCEPT ![p] = @ + 1]
  /\ IF attempt[p] + 1 < Attempts
       THEN UNCHANGED <<fd, where>>
       ELSE fd' = [fd EXCEPT ![p] = 0] /\ where' = [where EXCEPT ![p] = "idle"]
  /\ UNCHANGED <<platform, files, locked, failures>>

\* flock is interrupted, or the call fails for another reason.
TryFails(p) ==
  /\ failures < MaxFaults /\ failures' = failures + 1
  /\ where[p] = "trying"
  /\ fd' = [fd EXCEPT ![p] = 0]
  /\ where' = [where EXCEPT ![p] = "idle"]
  /\ UNCHANGED <<platform, files, locked, attempt>>

\* Mutant: the lock file is removed on every platform.
DropRemoves(p) ==
  /\ where[p] = "holding"
  /\ entry' = 0
  /\ locked' = [i \in 1 .. MaxInodes |-> IF i = fd[p] THEN None ELSE locked[i]]
  /\ fd' = [fd EXCEPT ![p] = 0]
  /\ where' = [where EXCEPT ![p] = "idle"]
  /\ UNCHANGED <<platform, made, attempt, failures>>

\* The guard goes: the file is closed, and removed where its being there is the lock.
Drop(p) ==
  /\ where[p] = "holding"
  /\ entry' = IF KernelLocks THEN entry ELSE 0
  /\ locked' = [i \in 1 .. MaxInodes |-> IF i = fd[p] THEN None ELSE locked[i]]
  /\ fd' = [fd EXCEPT ![p] = 0]
  /\ where' = [where EXCEPT ![p] = "idle"]
  /\ UNCHANGED <<platform, made, attempt, failures>>

\* Mutant: the kernel keeps the lock of a process that has ended.
CrashKeepsLock(p) ==
  /\ failures < MaxFaults /\ failures' = failures + 1
  /\ where[p] # "idle"
  /\ fd' = [fd EXCEPT ![p] = 0]
  /\ where' = [where EXCEPT ![p] = "idle"]
  /\ UNCHANGED <<platform, files, locked, attempt>>

\* The process ends: its files are closed, and nothing is removed.
Crash(p) ==
  /\ failures < MaxFaults /\ failures' = failures + 1
  /\ where[p] # "idle"
  /\ locked' = [i \in 1 .. MaxInodes |->
                  IF i = fd[p] /\ locked[i] = p THEN None ELSE locked[i]]
  /\ fd' = [fd EXCEPT ![p] = 0]
  /\ where' = [where EXCEPT ![p] = "idle"]
  /\ UNCHANGED <<platform, files, attempt>>

Next ==
  \E p \in Process :
    \/ Open(p) \/ LockFile(p) \/ Begin(p) \/ CreateNew(p)
    \/ Retry(p) \/ TryFails(p) \/ Drop(p) \/ Crash(p)

Spec == Init /\ [][Next]_vars

\* A thread that tries comes to its next try, which locks or finds the lock taken;
\* a section ends.
Fairness ==
  \A p \in Process :
    WF_vars(LockFile(p) \/ CreateNew(p) \/ Retry(p)) /\ WF_vars(Drop(p))

FairSpec == Spec /\ Fairness

-----------------------------------------------------------------------------
\* Two threads never have the guard of one scope at a time, although the file may be
\* made by any of them, opened before and locked after others, and left by a crash.
MutualExclusion ==
  \A p, q \in Process : where[p] = "holding" /\ where[q] = "holding" => p = q

Holders == {p \in Process : where[p] = "holding"}

HeldBy == IF Holders = {} THEN None ELSE CHOOSE p \in Holders : TRUE

owner == [k \in {"index"} |-> HeldBy]

Guard == INSTANCE KeyMutex WITH Proc <- Process, Key <- {"index"}

\* The store may take the lock for a mutex on the scope's index: it is taken when nobody
\* has it, and given back by who has it, in the end or in a crash.
ImplementsGuard == Guard!Spec

\* Where tries are counted, every one of them comes to an end, whatever holds the lock.
TriesEnd ==
  \A p \in Process : platform # "unix" /\ where[p] = "trying" ~> where[p] # "trying"

\* Where the kernel keeps the lock, a crash with the guard does not keep the others out
\* for ever: while threads try, the lock is had again.
LockIsRecovered ==
  KernelLocks /\ (\E p \in Process : where[p] = "trying")
    ~> Holders # {} \/ \A p \in Process : where[p] # "trying"
=============================================================================
