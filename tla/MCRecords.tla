----------------------------- MODULE MCRecords ------------------------------
(* The store beyond the trail of a run: migrations and their lock, and the    *)
(* records of the whole store interface, in three sets of bounds: events that *)
(* name records of two repositories, locks at all kinds of times, and jobs    *)
(* with receipts.  A behaviour follows one of the four, its part.             *)
EXTENDS MigrationLock, TLC

CONSTANTS p1, p2, blank,
          Repository, Job, Decision, Lock, Invocation   \* two of each

VARIABLES part, inner

Interchangeable ==
  Permutations(Repository) \cup Permutations(Job) \cup Permutations(Decision)
    \cup Permutations(Lock) \cup Permutations(Invocation)

-----------------------------------------------------------------------------
MCLeader == {p1, p2}

MigrationLockOf(status, leader, at, timeout, released) ==
  [status |-> status, leader_id |-> leader, locked_at |-> at, timeout_millis |-> timeout,
   released_at |-> released]

Migration(name, created, updated, leader, lock) ==
  [name |-> name, created_at |-> created, updated_at |-> updated, leader_id |-> leader,
   lock |-> lock]

\* Migrations of a leader, of no one, and locks written as plain records:
\* well formed, ending after they were created, and ones that are refused.
MCNewRecords ==
  {Migration("migration", 1, 1, l, NoLock) : l \in {{p1}, {}}}
  \cup {Migration("migration_lock", 0, 2, {p1}, MigrationLockOf("Held", p1, 0, 1, {})),
        Migration("migration_lock", 1, 2, {p2}, MigrationLockOf("Released", p2, 1, 1, {2})),
        Migration("migration_lock", 1, 2, {p2}, MigrationLockOf("Released", p2, 1, 1, {0})),
        Migration("migration_lock", 1, 2, {p2}, MigrationLockOf("Held", p1, 1, 1, {})),
        Migration("migration", 1, 2, {p1}, MigrationLockOf("Held", p1, 1, 1, {})),
        Migration("migration", 2, 1, {p1}, NoLock),
        Migration("migration", 1, 1, {blank}, NoLock)}

-----------------------------------------------------------------------------
\* A lock of each status, and what one wrong time makes of it.
LockAt(status, released_at, reclaimed_at) ==
  [status |-> status, locked_at |-> 1, expires_at |-> 2, created_at |-> 1, updated_at |-> 2,
   released_at |-> released_at, reclaimed_at |-> reclaimed_at]

AllTimes ==
  LET sound == {LockAt("Held", {}, {}), LockAt("Expired", {}, {}),
                LockAt("Released", {1}, {}), LockAt("Reclaimed", {}, {2})}
  IN sound \cup UNION {{[t EXCEPT !.expires_at = 1],
                        [t EXCEPT !.created_at = 2], [t EXCEPT !.updated_at = 0],
                        [t EXCEPT !.updated_at = 1], [t EXCEPT !.released_at = {}],
                        [t EXCEPT !.released_at = {0}], [t EXCEPT !.reclaimed_at = {}],
                        [t EXCEPT !.reclaimed_at = {1}]} : t \in sound}

Trails == INSTANCE Records WITH
  RepositoryId <- Repository, JobId <- Job, PolicyDecisionId <- Decision,
  LockDecisionId <- {}, ToolInvocationId <- Invocation, ToolResultId <- {"x"},
  AuditRecordId <- {"a"}, ToolId <- {"t"}, Scope <- {"s"}, LockTimes <- {}, Keys <- {},
  MaxEvents <- 3, MaxAppends <- 1, MaxRefs <- 2

Locks == INSTANCE Records WITH
  RepositoryId <- Repository, JobId <- {"j"}, PolicyDecisionId <- Decision,
  LockDecisionId <- Lock, ToolInvocationId <- {}, ToolResultId <- {}, AuditRecordId <- {},
  ToolId <- {}, Scope <- {"s"}, LockTimes <- AllTimes, Keys <- {},
  MaxEvents <- 2, MaxAppends <- 1, MaxRefs <- 1

Receipts == INSTANCE Records WITH
  RepositoryId <- {"r"}, JobId <- Job, PolicyDecisionId <- {"d"}, LockDecisionId <- {},
  ToolInvocationId <- {"i"}, ToolResultId <- {"x"}, AuditRecordId <- {"a"}, ToolId <- {"t"},
  Scope <- {"s"}, LockTimes <- {}, Keys <- {"k"}, MaxEvents <- 5, MaxAppends <- 1, MaxRefs <- 1

-----------------------------------------------------------------------------
MCInit ==
  /\ part \in {"migrations", "trails", "locks", "receipts"}
  /\ Init
  /\ IF part = "receipts" THEN Receipts!Init ELSE Trails!Init

MCNext ==
  /\ \/ part = "migrations" /\ Next /\ UNCHANGED inner
     \/ part = "trails" /\ Trails!Next /\ UNCHANGED vars
     \/ part = "locks" /\ Locks!Next /\ UNCHANGED vars
     \/ part = "receipts" /\ Receipts!Next /\ UNCHANGED vars
  /\ UNCHANGED part

MCSpec == MCInit /\ [][MCNext]_<<part, vars, inner>>

-----------------------------------------------------------------------------
\* Whatever an event names, and whatever that leads to, is of one repository; its references
\* lead to one job at most, but for the owner of a lock, and to one decision at most
\* (validate_event_subject and the checks of references in store.rs).
TrailsAreCoherent == Trails!TrailsAreCoherent

\* What the store's operations accept, the next start accepts, but for a receipt that a later
\* event of its job has outrun: with one in the snapshot the start is refused
\* (validate_loaded_store).
RecordsLoad ==
  CASE part = "locks" -> Locks!RecordsLoad
    [] part = "receipts" -> Receipts!RecordsLoad
    [] OTHER -> Trails!RecordsLoad
=============================================================================
