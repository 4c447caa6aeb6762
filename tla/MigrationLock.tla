---------------------------- MODULE MigrationLock ----------------------------
(***************************************************************************)
(* The schema migrations of the ledger and the migration lock among them   *)
(* (atelia-core/src/store.rs).  Daemons acquire, ask for and release the   *)
(* lock, and record migrations under it.  Every call carries the time of   *)
(* its caller's own clock: clocks differ, step back and tie.               *)
(***************************************************************************)
EXTENDS Integers, FiniteSets

CONSTANTS Leader,      \* names of daemons
          Blank,       \* a leader_id that trims to nothing
          Id,          \* SchemaMigrationId: random, ordered
          MaxTime,     \* i64::MAX
          Timeouts,    \* timeout_millis
          NewRecords   \* records a caller hands to create_schema_migration

Times == 0..MaxTime

\* Option<MigrationLockRecord>: None is a status of its own.
NoLock == [status |-> "None"]

\* released_at is an Option: the empty set or one time.
MigrationLockRecord ==
  [status : {"Held", "Released", "Expired"}, leader_id : Leader \cup {Blank}, locked_at : Times,
   timeout_millis : Nat, released_at : SUBSET Times]

SchemaMigrationRecord ==
  [name : {"migration_lock", "migration", "blank"}, created_at : Times, updated_at : Times,
   leader_id : SUBSET (Leader \cup {Blank}), lock : MigrationLockRecord \cup {NoLock}]

ASSUME MigrationAssumption ==
  /\ MaxTime \in Nat
  /\ Timeouts \subseteq Nat
  /\ Id \subseteq Nat
  /\ NewRecords \subseteq SchemaMigrationRecord

VARIABLES records, reply

vars == <<records, reply>>

Status(r) == r.lock.status

Held(r) == Status(r) = "Held"

Init ==
  /\ records = [i \in {} |-> NoLock]
  /\ reply = [op |-> "none"]

----------------------------------------------------------------------------
(* MigrationLockRecord and SchemaMigrationRecord (domain.rs).              *)

\* Saturates at i64::MAX.
expires_at(lock) ==
  LET t == lock.locked_at + lock.timeout_millis IN IF t > MaxTime THEN MaxTime ELSE t

is_active(lock, at) == lock.status = "Held" /\ expires_at(lock) > at

is_expired(lock, at) == expires_at(lock) <= at

new_migration_lock(leader, at, timeout) ==
  [name |-> "migration_lock", created_at |-> at, updated_at |-> at, leader_id |-> {leader},
   lock |-> [status |-> "Held", leader_id |-> leader, locked_at |-> at,
             timeout_millis |-> timeout, released_at |-> {}]]

is_schema_migration_lock(r) == r.name = "migration_lock" /\ Status(r) # "None"

\* Nothing but the lock's own record carries lock metadata.
validate_schema_migration_record(r) ==
  /\ r.name # "blank"
  /\ Blank \notin r.leader_id
  /\ r.updated_at >= r.created_at
  /\ IF r.name # "migration_lock" THEN Status(r) = "None"
     ELSE /\ Status(r) # "None"
          /\ r.leader_id = {r.lock.leader_id}
          /\ r.lock.timeout_millis # 0
          /\ r.created_at = r.lock.locked_at
          /\ IF Held(r) THEN r.lock.released_at = {}
             ELSE /\ r.lock.released_at # {}
                  /\ \A t \in r.lock.released_at : r.created_at <= t /\ t <= r.updated_at

----------------------------------------------------------------------------
(* The lock records of the collection.                                     *)

schema_migration_lock_records(rs) == {i \in DOMAIN rs : is_schema_migration_lock(rs[i])}

\* max_by created_at, then by id
Newest(rs, ids) ==
  {i \in ids : \A j \in ids : \/ rs[j].created_at < rs[i].created_at
                              \/ rs[j].created_at = rs[i].created_at /\ j <= i}

most_recent_schema_migration_lock_record(rs) == Newest(rs, schema_migration_lock_records(rs))

active_migration_lock(rs, at) ==
  Newest(rs, {i \in schema_migration_lock_records(rs) : is_active(rs[i].lock, at)})

Expire(r, now) ==
  LET terminal_at == IF now > r.updated_at THEN now ELSE r.updated_at
  IN  IF Held(r) /\ is_expired(r.lock, now)
      THEN [r EXCEPT !.updated_at = terminal_at,
                     !.lock.status = "Expired", !.lock.released_at = {terminal_at}]
      ELSE r

expire_schema_migration_locks(rs, now) == [i \in DOMAIN rs |-> Expire(rs[i], now)]

\* insert_record under a new random id
Insert(rs, i, r) == [j \in DOMAIN rs \cup {i} |-> IF j = i THEN r ELSE rs[j]]

----------------------------------------------------------------------------
(* The calls.  `mutate` works on a draft: a call that fails, and one whose *)
(* snapshot cannot be written, leaves the records as they were.            *)

Fail(op, error) ==
  /\ reply' = [op |-> op, error |-> error]
  /\ UNCHANGED records

Done(op, rs, shown) ==
  /\ records' = rs
  /\ reply' = [op |-> op, error |-> "None", shown |-> shown]

\* Mutant: a lock whose time is up is not counted as expired first.
AcquireUnexpired(leader, timeout, at, i) ==
  IF leader = Blank \/ timeout = 0 THEN Fail("acquire", "InvalidRecord")
  ELSE IF active_migration_lock(records, at) # {} THEN Fail("acquire", "Conflict")
       ELSE Done("acquire", Insert(records, i, new_migration_lock(leader, at, timeout)), {i})

acquire_schema_migration_lock(leader, timeout, at, i) ==
  IF leader = Blank \/ timeout = 0 THEN Fail("acquire", "InvalidRecord")
  ELSE LET rs == expire_schema_migration_locks(records, at)
       IN  IF active_migration_lock(rs, at) # {} THEN Fail("acquire", "Conflict")
           ELSE Done("acquire", Insert(rs, i, new_migration_lock(leader, at, timeout)), {i})

\* A migration is written by the leader that holds the lock, or by anyone when
\* none does; a lock is written only when none does.
write_at(r) == IF Status(r) # "None" THEN r.lock.locked_at ELSE r.updated_at

\* Mutant: only a second lock is refused.
MayWriteUnfenced(rs, r) ==
  \A a \in active_migration_lock(rs, write_at(r)) : ~is_schema_migration_lock(r)

MayWrite(rs, r) ==
  \A a \in active_migration_lock(rs, write_at(r)) :
    ~is_schema_migration_lock(r) /\ r.leader_id = {rs[a].lock.leader_id}

create_schema_migration(r, i) ==
  IF ~validate_schema_migration_record(r) THEN Fail("create", "InvalidRecord")
  ELSE LET rs == expire_schema_migration_locks(records, write_at(r))
       IN  IF MayWrite(rs, r) THEN Done("create", Insert(rs, i, r), {i})
           ELSE Fail("create", "Conflict")

get_schema_migration_lock(now) ==
  LET rs == expire_schema_migration_locks(records, now)
  IN  Done("get", rs, most_recent_schema_migration_lock_record(rs))

Released(r, at) ==
  [r EXCEPT !.updated_at = IF at > r.updated_at THEN at ELSE r.updated_at,
            !.lock.status = "Released", !.lock.released_at = {at}]

\* What a release answers: a released lock is answered again, an expired one is not.
ReleaseError(r, leader, at) ==
  CASE ~is_schema_migration_lock(r) -> "InvalidRecord"
    [] is_schema_migration_lock(r) /\ r.lock.leader_id # leader -> "Conflict"
    [] is_schema_migration_lock(r) /\ r.lock.leader_id = leader ->
         IF Status(r) = "Expired" THEN "Conflict"
         ELSE IF Held(r) /\ at < r.lock.locked_at THEN "InvalidRecord" ELSE "None"

release_schema_migration_lock(i, leader, at) ==
  LET rs == expire_schema_migration_locks(records, at)
  IN  IF i \notin DOMAIN rs THEN Fail("release", "NotFound")
      ELSE LET error == ReleaseError(rs[i], leader, at)
           IN  IF error # "None" THEN Fail("release", error)
               ELSE Done("release",
                         IF Held(rs[i]) THEN [rs EXCEPT ![i] = Released(rs[i], at)] ELSE rs, {i})

Acquire ==
  \E leader \in Leader \cup {Blank}, timeout \in Timeouts, at \in Times, i \in Id \ DOMAIN records :
    acquire_schema_migration_lock(leader, timeout, at, i)

Create ==
  \E r \in NewRecords, i \in Id \ DOMAIN records : create_schema_migration(r, i)

Get == \E now \in Times : get_schema_migration_lock(now)

Release ==
  \E i \in Id, leader \in Leader, at \in Times : release_schema_migration_lock(i, leader, at)

Next == Acquire \/ Create \/ Get \/ Release

Spec == Init /\ [][Next]_vars

----------------------------------------------------------------------------
(* Properties.                                                             *)

\* At most one lock is held, whatever the clocks of the callers say: a lock is
\* written only after the ones it could overlap are expired or found active.
OneHolder ==
  \A i, j \in DOMAIN records : Held(records[i]) /\ Held(records[j]) => i = j

\* Startup validates every record of the snapshot and refuses the ledger for one
\* bad record: whatever expiries and releases write, the ledger loads again.
LocksLoad ==
  \A i \in DOMAIN records : validate_schema_migration_record(records[i])

\* While a leader holds the lock after a write, the migration just written is
\* that leader's own (create_schema_migration).
MigrationsAreFenced ==
  [][\A i \in DOMAIN records' \ DOMAIN records, j \in DOMAIN records' :
       Held(records'[j]) => records'[i].leader_id = records'[j].leader_id]_vars

\* A lock that was released or expired is never held again, none is ended by
\* another daemon before its time is up, and no record's updated_at goes back.
LocksEndOnce ==
  [][\A i \in DOMAIN records :
       /\ i \in DOMAIN records'
       /\ records'[i].updated_at >= records[i].updated_at
       /\ ~Held(records[i]) => records'[i] = records[i]
       /\ Status(records[i]) # Status(records'[i]) /\ Status(records'[i]) = "Expired" =>
            \A t \in records'[i].lock.released_at : t >= expires_at(records[i].lock)]_vars

=============================================================================
