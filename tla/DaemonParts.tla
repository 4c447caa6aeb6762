---------------------------- MODULE DaemonParts -----------------------------
(***************************************************************************)
(* What daemons and their request threads share: the session token made at *)
(* the start (Startup), the key locks of submit_job (KeyLocks) and the     *)
(* lock of an artifact index (ScopeLock).  They share no state with each   *)
(* other; what they promise is stated here side by side.                   *)
(***************************************************************************)
EXTENDS Naturals

CONSTANTS
  Proc, Key, Lock, None,                              \* KeyLocks
  Daemon, Configs, MaxAttempts, MaxStarts, MaxFaults, \* Startup
  Process, Attempts, MaxInodes                        \* ScopeLock

ASSUME NoneAssumption ==
  None \notin Proc /\ None \notin Key /\ None \notin Lock /\ None \notin Process

ASSUME BoundsAssumption ==
  Attempts \in Nat \ {0} /\ MaxInodes \in Nat \ {0} /\ MaxFaults \in Nat

VARIABLES
  locks, holder, arc, key, pc,                                       \* KeyLocks
  file, daemon, ports, starts, faults, epoch,                        \* Startup
  platform, entry, made, locked, fd, attempt, where, failures        \* ScopeLock

Keys == INSTANCE KeyLocks

Start == INSTANCE Startup

Index == INSTANCE ScopeLock

-----------------------------------------------------------------------------
\* A mutex stays in the map only for a submission that will come to clean it up: the map
\* does not grow with the keys that clients have used (submit_job).
MapIsCollected == Keys!MapIsCollected

\* The lock map implements one mutex per key (submit_job).
IsKeyMutex == Keys!IsKeyMutex

\* Daemons that start together, crash while they write the token file or find half of it
\* agree with each other and with the file (write_or_reuse_session_token).
SessionIsShared == Start!SessionIsShared

\* The store may take the lock for a mutex on the scope's index: it is taken when nobody
\* has it, and given back by who has it, in the end or in a crash (ScopeIndexGuard).
ImplementsGuard == Index!ImplementsGuard
=============================================================================
