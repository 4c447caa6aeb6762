----------------------------- MODULE LockProofs -----------------------------
(***************************************************************************)
(* The three locks.  KeyLocks, for any number of request threads and keys: *)
(* the lock map gives each key one mutex, is collected, and implements     *)
(* KeyMutex.  MigrationLock, for any number of daemons, records and clock  *)
(* values: at most one lock is held, the records load again, a migration   *)
(* is fenced by the lock, and a lock ends once.  ScopeLock, for any number *)
(* of threads, tries and crashes: it implements KeyMutex for an artifact   *)
(* index.                                                                  *)
(***************************************************************************)
EXTENDS MigrationLock, DaemonParts, TLAPS

-----------------------------------------------------------------------------
(* The locks of submit_job.                                                *)

\* What a process holds follows from where it is.
PcCorrelation ==
  \A p \in Proc :
    /\ key[p] = None <=> pc[p] = "idle"
    /\ arc[p] # None <=> pc[p] \in {"waiting", "inside", "unlocked"}

\* The process inside has locked its clone, and nobody else has locked it.
HolderCorrelation ==
  /\ \A p \in Proc : pc[p] = "inside" => holder[arc[p]] = p
  /\ \A l \in Lock, p \in Proc : holder[l] = p => pc[p] = "inside" /\ arc[p] = l

\* No two keys share a mutex.
MapInjective == \A k1, k2 \in Key : locks[k1] = locks[k2] /\ locks[k1] # None => k1 = k2

\* The inductive invariant: ClonesAreCurrent needs PcCorrelation for the
\* processes that have no clone, MutualExclusion needs HolderCorrelation, and
\* MapIsCollected needs MapInjective for the clone that keeps an entry alive.
KeysInv ==
  /\ Keys!TypeOK
  /\ PcCorrelation
  /\ HolderCorrelation
  /\ MapInjective
  /\ Keys!ClonesAreCurrent
  /\ Keys!MapIsCollected

-----------------------------------------------------------------------------
\* The empty lock map of a new service satisfies the invariant.
LEMMA InitIInv == Keys!Init => KeysInv
  BY NoneAssumption
  DEF Keys!Init, KeysInv, Keys!TypeOK, PcCorrelation, HolderCorrelation, MapInjective,
      Keys!ClonesAreCurrent, Keys!MapIsCollected

\* entry(key).or_insert_with(..).clone() preserves the invariant.
LEMMA FetchLockIInv ==
  ASSUME NEW p \in Proc, NEW k \in Key, KeysInv, Keys!FetchLock(p, k)
  PROVE  KeysInv'
<1> USE NoneAssumption
<1>1. PICK l \in Lock :
        /\ IF locks[k] = None THEN Keys!Free(l) ELSE l = locks[k]
        /\ locks' = [locks EXCEPT ![k] = l]
        /\ arc' = [arc EXCEPT ![p] = l]
  BY Zenon DEF Keys!FetchLock
<1>2. /\ pc[p] = "idle" /\ key' = [key EXCEPT ![p] = k]
      /\ pc' = [pc EXCEPT ![p] = "waiting"] /\ holder' = holder
      /\ Keys!TypeOK
  BY DEF Keys!FetchLock, KeysInv
<1>3. arc[p] = None /\ l # None /\ k # None
  BY <1>2 DEF KeysInv, PcCorrelation, Keys!TypeOK
<1>4. Keys!TypeOK'
  BY <1>1, <1>2 DEF Keys!TypeOK
<1>5. PcCorrelation'
  BY <1>1, <1>2, <1>3 DEF KeysInv, PcCorrelation, Keys!TypeOK
<1>6. HolderCorrelation'
  BY <1>1, <1>2, <1>3 DEF KeysInv, HolderCorrelation, Keys!TypeOK
<1>7. MapInjective'
  BY <1>1, <1>2 DEF KeysInv, MapInjective, Keys!TypeOK, Keys!Free
<1>8. Keys!ClonesAreCurrent'
  BY <1>1, <1>2, <1>3 DEF KeysInv, Keys!ClonesAreCurrent, PcCorrelation, Keys!TypeOK
<1>9. Keys!MapIsCollected'
  BY <1>1, <1>2, <1>3 DEF KeysInv, Keys!MapIsCollected, PcCorrelation, Keys!TypeOK
<1> QED BY <1>4, <1>5, <1>6, <1>7, <1>8, <1>9 DEF KeysInv

\* Locking a key's mutex preserves the invariant.
LEMMA LockKeyIInv ==
  ASSUME NEW p \in Proc, KeysInv, Keys!LockKey(p)
  PROVE  KeysInv'
<1> USE NoneAssumption DEF Keys!LockKey
<1>1. arc[p] \in Lock
  BY DEF KeysInv, Keys!TypeOK, PcCorrelation
<1>2. Keys!TypeOK' /\ PcCorrelation'
  BY <1>1 DEF KeysInv, Keys!TypeOK, PcCorrelation
<1>3. HolderCorrelation'
  BY <1>1 DEF KeysInv, Keys!TypeOK, PcCorrelation, HolderCorrelation
<1>4. MapInjective' /\ Keys!ClonesAreCurrent' /\ Keys!MapIsCollected'
  BY DEF KeysInv, MapInjective, Keys!ClonesAreCurrent, Keys!MapIsCollected
<1> QED BY <1>2, <1>3, <1>4 DEF KeysInv

\* Dropping the guard preserves the invariant.
LEMMA UnlockKeyIInv ==
  ASSUME NEW p \in Proc, KeysInv, Keys!UnlockKey(p)
  PROVE  KeysInv'
<1> USE NoneAssumption DEF Keys!UnlockKey
<1>1. arc[p] \in Lock
  BY DEF KeysInv, Keys!TypeOK, PcCorrelation
<1>2. Keys!TypeOK' /\ PcCorrelation'
  BY <1>1 DEF KeysInv, Keys!TypeOK, PcCorrelation
<1>3. HolderCorrelation'
  BY <1>1 DEF KeysInv, Keys!TypeOK, PcCorrelation, HolderCorrelation
<1>4. MapInjective' /\ Keys!ClonesAreCurrent' /\ Keys!MapIsCollected'
  BY DEF KeysInv, MapInjective, Keys!ClonesAreCurrent, Keys!MapIsCollected
<1> QED BY <1>2, <1>3, <1>4 DEF KeysInv

\* Dropping the clone preserves the invariant.
LEMMA DropLockIInv ==
  ASSUME NEW p \in Proc, KeysInv, Keys!DropLock(p)
  PROVE  KeysInv'
<1> USE NoneAssumption DEF Keys!DropLock
<1>1. Keys!TypeOK' /\ PcCorrelation'
  BY DEF KeysInv, Keys!TypeOK, PcCorrelation
<1>2. HolderCorrelation'
  BY DEF KeysInv, Keys!TypeOK, PcCorrelation, HolderCorrelation
<1>3. MapInjective' /\ Keys!ClonesAreCurrent' /\ Keys!MapIsCollected'
  BY DEF KeysInv, Keys!TypeOK, MapInjective, Keys!ClonesAreCurrent, Keys!MapIsCollected
<1> QED BY <1>1, <1>2, <1>3 DEF KeysInv

\* The clean-up of the map preserves the invariant: an entry that stays has a
\* clone, whose process will come to clean it up.
LEMMA CleanUpIInv ==
  ASSUME NEW p \in Proc, KeysInv, Keys!CleanUp(p)
  PROVE  KeysInv'
<1> USE NoneAssumption DEF Keys!CleanUp
<1>1. key[p] \in Key /\ arc[p] = None
  BY DEF KeysInv, Keys!TypeOK, PcCorrelation
<1>2. Keys!TypeOK' /\ PcCorrelation'
  BY <1>1 DEF KeysInv, Keys!TypeOK, PcCorrelation
<1>3. HolderCorrelation'
  BY DEF KeysInv, Keys!TypeOK, HolderCorrelation
<1>4. MapInjective'
  BY <1>1 DEF KeysInv, Keys!TypeOK, MapInjective
<1>5. Keys!ClonesAreCurrent'
  <2> SUFFICES ASSUME NEW q \in Proc, arc'[q] # None
               PROVE  locks'[key'[q]] = arc'[q]
    BY DEF Keys!ClonesAreCurrent
  <2>1. q # p /\ arc[q] # None /\ key'[q] = key[q] /\ key[q] \in Key
        /\ locks[key[q]] = arc[q]
    BY <1>1 DEF KeysInv, Keys!TypeOK, PcCorrelation, Keys!ClonesAreCurrent
  <2>2. CASE key[q] = key[p]
    BY <1>1, <2>1, <2>2 DEF KeysInv, Keys!TypeOK, Keys!OnlyInMap
  <2>3. CASE key[q] # key[p]
    BY <1>1, <2>1, <2>3 DEF KeysInv, Keys!TypeOK
  <2> QED BY <2>2, <2>3
<1>6. Keys!MapIsCollected'
  <2> SUFFICES ASSUME NEW k \in Key, locks'[k] # None
               PROVE  \E q \in Proc : key'[q] = k
    BY DEF Keys!MapIsCollected
  <2>1. locks[k] # None /\ locks[k] = locks'[k]
    BY <1>1 DEF KeysInv, Keys!TypeOK
  <2>2. CASE k = key[p]
    <3>1. PICK q \in Proc : arc[q] = locks[k]
      BY <1>1, <2>1, <2>2 DEF KeysInv, Keys!TypeOK, Keys!OnlyInMap
    <3>2. key[q] \in Key /\ locks[key[q]] = locks[k]
      BY <2>1, <3>1 DEF KeysInv, Keys!TypeOK, PcCorrelation, Keys!ClonesAreCurrent
    <3>3. key[q] = k /\ q # p
      BY <1>1, <2>1, <3>1, <3>2 DEF KeysInv, MapInjective
    <3> QED BY <3>3 DEF KeysInv, Keys!TypeOK
  <2>3. CASE k # key[p]
    BY <1>1, <2>1, <2>3 DEF KeysInv, Keys!TypeOK, Keys!MapIsCollected
  <2> QED BY <2>2, <2>3
<1> QED BY <1>2, <1>3, <1>4, <1>5, <1>6 DEF KeysInv

\* Every step of every submission preserves the invariant.
LEMMA NextIInv == KeysInv /\ [Keys!Next]_(Keys!vars) => KeysInv'
<1> SUFFICES ASSUME KeysInv, [Keys!Next]_(Keys!vars) PROVE KeysInv'
  OBVIOUS
<1>1. CASE UNCHANGED Keys!vars
  BY <1>1 DEF Keys!vars, KeysInv, Keys!TypeOK, PcCorrelation, HolderCorrelation,
              MapInjective, Keys!ClonesAreCurrent, Keys!MapIsCollected
<1>2. CASE Keys!Next
  <2>1. PICK p \in Proc : \/ \E k \in Key : Keys!FetchLock(p, k)
                          \/ Keys!LockKey(p) \/ Keys!UnlockKey(p) \/ Keys!DropLock(p) \/ Keys!CleanUp(p)
    BY <1>2 DEF Keys!Next
  <2> QED
    BY <2>1, FetchLockIInv, LockKeyIInv, UnlockKeyIInv, DropLockIInv, CleanUpIInv
<1> QED BY <1>1, <1>2

\* The invariant holds in every reachable state of the lock map.
THEOREM KeysInvariance == Keys!Spec => []KeysInv
  BY InitIInv, NextIInv, PTL DEF Keys!Spec

-----------------------------------------------------------------------------
\* Two processes inside with one key have locked one mutex, so they are one.
LEMMA IInvExcludes == KeysInv => Keys!MutualExclusion
  BY NoneAssumption
  DEF KeysInv, Keys!TypeOK, PcCorrelation, HolderCorrelation, Keys!ClonesAreCurrent, Keys!MutualExclusion

\* Two submissions with one key are never both between the lookup and the
\* caching of receipts (submit_job), for any number of threads and keys.
THEOREM MutualExclusionHolds == Keys!Spec => []Keys!MutualExclusion
  BY KeysInvariance, IInvExcludes, PTL

\* Whoever holds a clone holds the mutex that the map hands out.
THEOREM ClonesAreCurrentHolds == Keys!Spec => []Keys!ClonesAreCurrent
<1>1. KeysInv => Keys!ClonesAreCurrent
  BY DEF KeysInv
<1> QED BY KeysInvariance, <1>1, PTL

\* The map does not keep a mutex that no submission will clean up.
THEOREM MapIsCollectedHolds == Keys!Spec => []MapIsCollected
<1>1. KeysInv => MapIsCollected
  BY DEF KeysInv, MapIsCollected
<1> QED BY KeysInvariance, <1>1, PTL

-----------------------------------------------------------------------------
\* The owner of a key under the refinement mapping is the process inside.
OwnerIsInside ==
  \A k \in Key :
    /\ Keys!owner[k] \in Proc \cup {None}
    /\ \A p \in Proc : Keys!owner[k] = p <=> pc[p] = "inside" /\ key[p] = k

\* The owner of a key, as the refinement mapping defines it, is the submission
\* that is inside with that key.
LEMMA IInvOwner == KeysInv => OwnerIsInside
<1> SUFFICES ASSUME KeysInv, NEW k \in Key
             PROVE  /\ Keys!owner[k] \in Proc \cup {None}
                    /\ \A p \in Proc : Keys!owner[k] = p <=> pc[p] = "inside" /\ key[p] = k
  BY DEF OwnerIsInside
<1> USE NoneAssumption
<1>1. Keys!MutualExclusion
  BY IInvExcludes
<1>2. CASE Keys!Holders(k) = {}
  BY <1>2 DEF Keys!owner, Keys!Holders
<1>3. CASE Keys!Holders(k) # {}
  <2>1. Keys!owner[k] = CHOOSE p \in Proc : p \in Keys!Holders(k)
    BY <1>3 DEF Keys!owner
  <2>2. Keys!owner[k] \in Proc /\ Keys!owner[k] \in Keys!Holders(k)
    BY <1>3, <2>1 DEF Keys!Holders
  <2> QED BY <1>1, <2>2 DEF Keys!Holders, Keys!MutualExclusion
<1> QED BY <1>2, <1>3

\* Every step of the lock map is a step of one mutex per key, or changes no
\* owner: LockKey acquires, UnlockKey releases.
LEMMA StepRefines == KeysInv /\ KeysInv' /\ [Keys!Next]_(Keys!vars) => [Keys!Mutex!Next]_(Keys!owner)
<1> SUFFICES ASSUME KeysInv, KeysInv', [Keys!Next]_(Keys!vars) PROVE [Keys!Mutex!Next]_(Keys!owner)
  OBVIOUS
<1> USE NoneAssumption
<1>1. OwnerIsInside /\ OwnerIsInside'
  <2>1. KeysInv' => OwnerIsInside'
    BY IInvOwner, PTL
  <2> QED BY <2>1, IInvOwner
<1>2. /\ Keys!owner = [k \in Key |-> Keys!owner[k]] /\ Keys!owner' = [k \in Key |-> Keys!owner'[k]]
  BY DEF Keys!owner
<1>3. ASSUME NEW p \in Proc, Keys!LockKey(p) PROVE Keys!Mutex!Next
  <2>1. key[p] \in Key /\ arc[p] = locks[key[p]] /\ arc[p] \in Lock
    BY <1>3 DEF Keys!LockKey, KeysInv, Keys!TypeOK, PcCorrelation, Keys!ClonesAreCurrent
  <2>2. Keys!owner[key[p]] = None
    <3> SUFFICES ASSUME NEW q \in Proc, Keys!owner[key[p]] = q PROVE FALSE
      BY <1>1, <2>1 DEF OwnerIsInside
    <3>1. pc[q] = "inside" /\ key[q] = key[p]
      BY <1>1, <2>1 DEF OwnerIsInside
    <3>2. holder[arc[q]] = q /\ arc[q] = locks[key[p]]
      BY <3>1 DEF KeysInv, PcCorrelation, HolderCorrelation, Keys!ClonesAreCurrent
    <3> QED BY <1>3, <2>1, <3>2 DEF Keys!LockKey
  <2>3. \A k \in Key : Keys!owner'[k] = IF k = key[p] THEN p ELSE Keys!owner[k]
    BY <1>1, <1>3, <2>1, <2>2 DEF OwnerIsInside, Keys!LockKey, KeysInv, Keys!TypeOK
  <2>4. Keys!owner' = [Keys!owner EXCEPT ![key[p]] = p]
    BY <1>2, <2>3
  <2> QED BY <2>1, <2>2, <2>4, Zenon DEF Keys!Mutex!Next, Keys!Mutex!Acquire
<1>4. ASSUME NEW p \in Proc, Keys!UnlockKey(p) PROVE Keys!Mutex!Next
  <2>1. key[p] \in Key /\ Keys!owner[key[p]] = p
    BY <1>1, <1>4 DEF Keys!UnlockKey, KeysInv, Keys!TypeOK, PcCorrelation, OwnerIsInside
  <2>3. \A k \in Key : Keys!owner'[k] = IF k = key[p] THEN None ELSE Keys!owner[k]
    BY <1>1, <1>4, <2>1 DEF OwnerIsInside, Keys!UnlockKey, KeysInv, Keys!TypeOK
  <2>4. Keys!owner' = [Keys!owner EXCEPT ![key[p]] = None]
    BY <1>2, <2>3
  <2> QED BY <2>1, <2>4, Zenon DEF Keys!Mutex!Next, Keys!Mutex!Release
<1>5. ASSUME \A p \in Proc, k \in Key :
               (pc[p] = "inside" /\ key[p] = k) <=> (pc'[p] = "inside" /\ key'[p] = k)
      PROVE  Keys!owner' = Keys!owner
  <2>1. \A k \in Key : Keys!owner'[k] = Keys!owner[k]
    BY <1>1, <1>5 DEF OwnerIsInside
  <2> QED BY <1>2, <2>1
<1>6. CASE UNCHANGED Keys!vars
  BY <1>5, <1>6 DEF Keys!vars
<1>7. ASSUME NEW p \in Proc, NEW k \in Key, Keys!FetchLock(p, k) PROVE Keys!owner' = Keys!owner
  BY <1>5, <1>7 DEF Keys!FetchLock, KeysInv, Keys!TypeOK
<1>8. ASSUME NEW p \in Proc, Keys!DropLock(p) \/ Keys!CleanUp(p) PROVE Keys!owner' = Keys!owner
  BY <1>5, <1>8 DEF Keys!DropLock, Keys!CleanUp, KeysInv, Keys!TypeOK
<1> QED BY <1>3, <1>4, <1>6, <1>7, <1>8 DEF Keys!Next

\* The lock map of submit_job implements one mutex per key.
THEOREM Refinement == Keys!Spec => IsKeyMutex
<1>1. Keys!Init => Keys!Mutex!Init
  BY DEF Keys!Init, Keys!Mutex!Init, Keys!owner, Keys!Holders
<1>2. KeysInv /\ KeysInv' /\ [Keys!Next]_(Keys!vars) => [Keys!Mutex!Next]_(Keys!owner)
  BY StepRefines
<1> QED BY KeysInvariance, <1>1, <1>2, PTL DEF Keys!Spec, IsKeyMutex, Keys!IsKeyMutex, Keys!Mutex!Spec

-----------------------------------------------------------------------------
(* The lock of the schema migrations.  An operation first expires what its *)
(* time makes it expire, so a lock still held is active at that time, and  *)
(* being the only one it is the one found.                                 *)

\* Every record is one the store accepts and loads.
WellFormed(rs) ==
  /\ rs = [i \in DOMAIN rs |-> rs[i]]
  /\ DOMAIN rs \subseteq Id
  /\ \A i \in DOMAIN rs : rs[i] \in SchemaMigrationRecord /\ validate_schema_migration_record(rs[i])

One(rs) == \A i, j \in DOMAIN rs : Held(rs[i]) /\ Held(rs[j]) => i = j

Sound(rs) == WellFormed(rs) /\ One(rs)

\* What an operation may do to one record.
Ends(r, e) ==
  /\ e.updated_at >= r.updated_at
  /\ ~Held(r) => e = r
  /\ Held(e) => e = r
  /\ Status(r) # Status(e) /\ Status(e) = "Expired" =>
       \A t \in e.lock.released_at : t >= expires_at(r.lock)

-----------------------------------------------------------------------------
\* The lock metadata of a record that the store accepts, when there is any.
LEMMA LockShape ==
  ASSUME NEW r \in SchemaMigrationRecord, validate_schema_migration_record(r), Status(r) # "None"
  PROVE  /\ r.lock \in MigrationLockRecord
         /\ is_schema_migration_lock(r)
         /\ r.leader_id = {r.lock.leader_id}
         /\ expires_at(r.lock) \in Int
<1>1. r.lock \in MigrationLockRecord
  BY DEF SchemaMigrationRecord, MigrationLockRecord, NoLock, Status
<1>2. r.name = "migration_lock" /\ r.leader_id = {r.lock.leader_id}
  BY DEF validate_schema_migration_record
<1>3. expires_at(r.lock) \in Int
  BY <1>1, MigrationAssumption DEF MigrationLockRecord, expires_at, Times
<1> QED
  BY <1>1, <1>2, <1>3 DEF is_schema_migration_lock

\* Expiring a record (expire_schema_migration_locks) gives a record that loads,
\* ends it at most once and not before its time.
LEMMA ExpireRecord ==
  ASSUME NEW r \in SchemaMigrationRecord, validate_schema_migration_record(r), NEW now \in Times
  PROVE  LET e == Expire(r, now)
         IN  /\ e \in SchemaMigrationRecord
             /\ validate_schema_migration_record(e)
             /\ Ends(r, e)
             /\ Held(e) => is_active(e.lock, now)
<1>0. /\ r.updated_at \in Times /\ r.created_at \in Times
      /\ r.updated_at \in Int /\ r.created_at \in Int /\ now \in Int
  BY MigrationAssumption DEF SchemaMigrationRecord, Times
<1>1. CASE ~(Held(r) /\ is_expired(r.lock, now))
  <2>1. Expire(r, now) = r
    BY <1>1 DEF Expire
  <2>2. Held(r) => is_active(r.lock, now)
    <3> SUFFICES ASSUME Held(r) PROVE is_active(r.lock, now)
      OBVIOUS
    <3>1. expires_at(r.lock) \in Int
      BY LockShape DEF Held, Status
    <3> QED
      BY <1>0, <1>1, <3>1 DEF is_active, is_expired, Held, Status
  <2> QED
    BY <1>0, <2>1, <2>2 DEF Ends
<1>2. CASE Held(r) /\ is_expired(r.lock, now)
  <2> DEFINE at == IF now > r.updated_at THEN now ELSE r.updated_at
             e == Expire(r, now)
  <2>1. /\ r.lock \in MigrationLockRecord
        /\ is_schema_migration_lock(r)
        /\ expires_at(r.lock) \in Int
    BY <1>2, LockShape DEF Held, Status
  <2>2. at \in Times /\ at \in Int /\ at >= r.updated_at /\ at >= now
    BY <1>0
  <2>3. e = [r EXCEPT !.updated_at = at, !.lock.status = "Expired", !.lock.released_at = {at}]
    BY <1>2 DEF Expire
  <2> HIDE DEF at, e
  <2>4. e.lock = [r.lock EXCEPT !.status = "Expired", !.released_at = {at}]
    BY <2>3 DEF SchemaMigrationRecord
  <2>5. /\ e.name = r.name /\ e.created_at = r.created_at /\ e.leader_id = r.leader_id
        /\ e.updated_at = at
    BY SMTT(30), <2>3 DEF SchemaMigrationRecord
  <2>6. /\ e.lock \in MigrationLockRecord
        /\ e.lock.status = "Expired" /\ e.lock.released_at = {at}
        /\ e.lock.leader_id = r.lock.leader_id /\ e.lock.locked_at = r.lock.locked_at
        /\ e.lock.timeout_millis = r.lock.timeout_millis
    <3>1. {at} \in SUBSET Times
      BY <2>2
    <3>2. e.lock = [status |-> "Expired", leader_id |-> r.lock.leader_id,
                    locked_at |-> r.lock.locked_at, timeout_millis |-> r.lock.timeout_millis,
                    released_at |-> {at}]
      BY <2>1, <2>4, Zenon DEF MigrationLockRecord
    <3> QED
      BY <2>1, <3>1, <3>2 DEF MigrationLockRecord
  <2>7. e \in SchemaMigrationRecord
    BY <2>2, <2>3, <2>4, <2>6, Zenon DEF SchemaMigrationRecord
  <2>8. validate_schema_migration_record(e)
    BY <1>0, <1>2, <2>1, <2>2, <2>5, <2>6
    DEF validate_schema_migration_record, is_schema_migration_lock, Held, Status
  <2>9. expires_at(r.lock) <= at
    BY <1>0, <1>2, <2>1, <2>2 DEF is_expired
  <2> QED
    BY <1>2, <2>2, <2>5, <2>6, <2>7, <2>8, <2>9 DEF Ends, Held, Status, e
<1> QED
  BY <1>1, <1>2

\* After the expiries a call makes first, a lock still held is active at its time.
LEMMA ExpireAll ==
  ASSUME NEW rs, Sound(rs), NEW now \in Times
  PROVE  LET es == expire_schema_migration_locks(rs, now)
         IN  /\ Sound(es) /\ DOMAIN es = DOMAIN rs
             /\ \A i \in DOMAIN rs : Ends(rs[i], es[i])
             /\ \A i \in DOMAIN es : Held(es[i]) => is_active(es[i].lock, now)
<1> DEFINE es == expire_schema_migration_locks(rs, now)
<1>1. DOMAIN es = DOMAIN rs /\ es = [i \in DOMAIN es |-> es[i]]
  BY DEF expire_schema_migration_locks
<1>2. \A i \in DOMAIN rs : es[i] = Expire(rs[i], now)
  BY DEF expire_schema_migration_locks
<1>3. \A i \in DOMAIN rs : rs[i] \in SchemaMigrationRecord /\ validate_schema_migration_record(rs[i])
  BY DEF Sound, WellFormed
<1> HIDE DEF es
<1>4. \A i \in DOMAIN rs : /\ es[i] \in SchemaMigrationRecord
                           /\ validate_schema_migration_record(es[i])
                           /\ Ends(rs[i], es[i])
                           /\ Held(es[i]) => is_active(es[i].lock, now)
  BY <1>2, <1>3, ExpireRecord, Zenon
<1>5. WellFormed(es)
  BY <1>1, <1>4 DEF Sound, WellFormed
<1>6. \A i \in DOMAIN rs : Held(es[i]) => Held(rs[i])
  BY <1>4 DEF Ends
<1>7. One(es)
  BY <1>1, <1>6 DEF Sound, One
<1> QED
  BY <1>1, <1>4, <1>5, <1>7 DEF Sound, es

\* The only held lock, when it is active, is the one active_migration_lock finds.
LEMMA HeldIsFound ==
  ASSUME NEW rs, Sound(rs), NEW at, NEW i \in DOMAIN rs, Held(rs[i]), is_active(rs[i].lock, at)
  PROVE  active_migration_lock(rs, at) = {i}
<1> DEFINE found == {j \in schema_migration_lock_records(rs) : is_active(rs[j].lock, at)}
<1>1. rs[i] \in SchemaMigrationRecord /\ validate_schema_migration_record(rs[i])
  BY DEF Sound, WellFormed
<1>2. i \in found
  BY <1>1, LockShape DEF Held, Status, schema_migration_lock_records
<1>3. \A j \in found : j = i
  BY DEF Sound, One, schema_migration_lock_records, is_active, Held, Status
<1>4. rs[i].created_at = rs[i].created_at /\ i <= i
  BY MigrationAssumption DEF Sound, WellFormed
<1>5. found = {i}
  BY <1>2, <1>3
<1>6. active_migration_lock(rs, at) = Newest(rs, found)
  BY DEF active_migration_lock
<1> HIDE DEF found
<1> QED
  BY <1>4, <1>5, <1>6 DEF Newest

\* Inserting an accepted record keeps the records sound when it is no held lock
\* beside another one.
LEMMA InsertKeeps ==
  ASSUME NEW rs, Sound(rs), NEW i \in Id \ DOMAIN rs, NEW r \in SchemaMigrationRecord,
         validate_schema_migration_record(r),
         Held(r) => \A j \in DOMAIN rs : ~Held(rs[j])
  PROVE  /\ Sound(Insert(rs, i, r))
         /\ DOMAIN Insert(rs, i, r) = DOMAIN rs \cup {i}
         /\ Insert(rs, i, r)[i] = r
         /\ \A j \in DOMAIN rs : Insert(rs, i, r)[j] = rs[j]
<1> DEFINE ns == Insert(rs, i, r)
<1>1. DOMAIN ns = DOMAIN rs \cup {i} /\ ns = [j \in DOMAIN ns |-> ns[j]]
  BY DEF Insert
<1>2. ns[i] = r /\ \A j \in DOMAIN rs : ns[j] = rs[j]
  BY DEF Insert
<1> HIDE DEF ns
<1>3. WellFormed(ns)
  BY <1>1, <1>2 DEF Sound, WellFormed
<1>4. One(ns)
  BY <1>1, <1>2 DEF Sound, One
<1> QED
  BY <1>1, <1>2, <1>3, <1>4 DEF Sound, ns

-----------------------------------------------------------------------------
(* The calls.  One step does to the records what StepOK says.              *)

\* The records stay sound, every record ends at most once, and a record written
\* while a lock is held has the leader of that lock.
StepOK(rs, ns) ==
  /\ Sound(ns)
  /\ \A i \in DOMAIN rs : i \in DOMAIN ns /\ Ends(rs[i], ns[i])
  /\ \A i \in DOMAIN ns \ DOMAIN rs, j \in DOMAIN ns :
       Held(ns[j]) => ns[i].leader_id = ns[j].leader_id

\* A call that fails, and a lock that is answered again, change nothing.
LEMMA Unchanged ==
  ASSUME NEW rs, Sound(rs)
  PROVE  StepOK(rs, rs)
<1>1. \A i \in DOMAIN rs : rs[i].updated_at \in Int
  BY MigrationAssumption DEF Sound, WellFormed, SchemaMigrationRecord, Times
<1> QED
  BY <1>1 DEF StepOK, Ends

\* The expiries every call makes first.
LEMMA ExpireStep ==
  ASSUME NEW rs, Sound(rs), NEW now \in Times
  PROVE  StepOK(rs, expire_schema_migration_locks(rs, now))
BY ExpireAll DEF StepOK

\* Expiring, then inserting a record that no held lock forbids.
LEMMA InsertStep ==
  ASSUME NEW rs, Sound(rs), NEW now \in Times, NEW i \in Id \ DOMAIN rs,
         NEW r \in SchemaMigrationRecord, validate_schema_migration_record(r),
         LET es == expire_schema_migration_locks(rs, now)
         IN  \A j \in DOMAIN es : Held(es[j]) => ~Held(r) /\ r.leader_id = es[j].leader_id
  PROVE  StepOK(rs, Insert(expire_schema_migration_locks(rs, now), i, r))
<1> DEFINE es == expire_schema_migration_locks(rs, now)
           ns == Insert(es, i, r)
<1>1. /\ Sound(es) /\ DOMAIN es = DOMAIN rs
      /\ \A j \in DOMAIN rs : Ends(rs[j], es[j])
  BY ExpireAll
<1>2. \A j \in DOMAIN es : Held(es[j]) => ~Held(r) /\ r.leader_id = es[j].leader_id
  OBVIOUS
<1> HIDE DEF es
<1>3. /\ Sound(ns) /\ DOMAIN ns = DOMAIN es \cup {i} /\ ns[i] = r
      /\ \A j \in DOMAIN es : ns[j] = es[j]
  <2>1. i \in Id \ DOMAIN es /\ (Held(r) => \A j \in DOMAIN es : ~Held(es[j]))
    BY <1>1, <1>2, Zenon
  <2> QED
    BY <1>1, <2>1, InsertKeeps, SMTT(30)
<1> HIDE DEF ns
<1>4. StepOK(rs, ns)
  BY <1>1, <1>2, <1>3, Zenon DEF StepOK
<1> QED
  BY <1>4 DEF ns, es

\* Releasing a held lock at a time no earlier than it was taken.
LEMMA ReleaseStep ==
  ASSUME NEW rs, Sound(rs), NEW at \in Times, NEW i \in DOMAIN rs,
         Held(expire_schema_migration_locks(rs, at)[i]),
         ~(at < expire_schema_migration_locks(rs, at)[i].lock.locked_at)
  PROVE  LET es == expire_schema_migration_locks(rs, at)
         IN  StepOK(rs, [es EXCEPT ![i] = Released(es[i], at)])
<1> DEFINE es == expire_schema_migration_locks(rs, at)
           ns == [es EXCEPT ![i] = Released(es[i], at)]
<1>1. /\ Sound(es) /\ DOMAIN es = DOMAIN rs
      /\ \A j \in DOMAIN rs : Ends(rs[j], es[j])
      /\ Held(es[i]) /\ ~(at < es[i].lock.locked_at)
  BY ExpireAll
<1> HIDE DEF es
<1>2. es[i] = rs[i] /\ es[i] \in SchemaMigrationRecord /\ validate_schema_migration_record(es[i])
  BY <1>1 DEF Ends, Sound, WellFormed
<1> DEFINE r == es[i]
           e == Released(r, at)
           up == IF at > r.updated_at THEN at ELSE r.updated_at
<1>3. r.lock \in MigrationLockRecord /\ is_schema_migration_lock(r)
  BY <1>1, <1>2, LockShape DEF Held, Status
<1>4. /\ r.updated_at \in Times /\ r.updated_at \in Int /\ r.created_at \in Int /\ at \in Int
      /\ r.lock.locked_at \in Int
  BY <1>2, <1>3, MigrationAssumption DEF SchemaMigrationRecord, MigrationLockRecord, Times
<1>5. up \in Times /\ up \in Int /\ up >= r.updated_at /\ up >= at
  BY <1>4
<1>6. e = [r EXCEPT !.updated_at = up, !.lock.status = "Released", !.lock.released_at = {at}]
  BY DEF Released
<1>7. DOMAIN ns = DOMAIN es /\ ns[i] = e /\ ns = [j \in DOMAIN ns |-> ns[j]]
      /\ \A j \in DOMAIN es : j # i => ns[j] = es[j]
  BY <1>1, Zenon
<1> HIDE DEF ns, e, up
<1>8. e.lock = [r.lock EXCEPT !.status = "Released", !.released_at = {at}]
  BY <1>2, <1>6 DEF SchemaMigrationRecord
<1>9. /\ e.name = r.name /\ e.created_at = r.created_at /\ e.leader_id = r.leader_id
      /\ e.updated_at = up
  BY <1>2, <1>6 DEF SchemaMigrationRecord
<1>10. e.lock = [status |-> "Released", leader_id |-> r.lock.leader_id,
                 locked_at |-> r.lock.locked_at, timeout_millis |-> r.lock.timeout_millis,
                 released_at |-> {at}]
  BY <1>3, <1>8, Zenon DEF MigrationLockRecord
<1>11. e.lock \in MigrationLockRecord
  <2>1. {at} \in SUBSET Times
    OBVIOUS
  <2> QED
    BY <1>3, <1>10, <2>1 DEF MigrationLockRecord
<1>12. e \in SchemaMigrationRecord
  BY <1>2, <1>5, <1>6, <1>8, <1>11, Zenon DEF SchemaMigrationRecord
<1>13. validate_schema_migration_record(e)
  <2>1. r.created_at = r.lock.locked_at
    BY <1>2, <1>3 DEF validate_schema_migration_record, is_schema_migration_lock
  <2>2. r.created_at <= at /\ at <= up
    BY <1>1, <1>4, <1>5, <2>1
  <2> QED
    BY SMTT(30), <1>2, <1>3, <1>4, <1>5, <1>9, <1>10, <2>2
    DEF validate_schema_migration_record, is_schema_migration_lock, Held, Status
<1>14. ~Held(e) /\ Status(e) = "Released"
  BY <1>10 DEF Held, Status
<1>15. WellFormed(ns)
  BY <1>1, <1>7, <1>12, <1>13 DEF Sound, WellFormed
<1>16. One(ns)
  BY <1>1, <1>7, <1>14 DEF Sound, One
<1>17. Ends(rs[i], ns[i])
  BY <1>1, <1>2, <1>5, <1>7, <1>9, <1>14 DEF Ends
<1>18. StepOK(rs, ns)
  BY <1>1, <1>7, <1>15, <1>16, <1>17 DEF StepOK, Sound
<1> QED
  BY <1>18 DEF ns, e, es

\* acquire_schema_migration_lock writes a lock only when none is held.
LEMMA AcquireStep ==
  ASSUME Sound(records), NEW leader \in Leader \cup {Blank}, NEW timeout \in Timeouts,
         NEW at \in Times, NEW i \in Id \ DOMAIN records,
         acquire_schema_migration_lock(leader, timeout, at, i)
  PROVE  StepOK(records, records')
<1> DEFINE es == expire_schema_migration_locks(records, at)
           r == new_migration_lock(leader, at, timeout)
<1>1. CASE records' = records
  BY <1>1, Unchanged
<1>2. CASE /\ leader # Blank /\ timeout # 0
           /\ active_migration_lock(es, at) = {}
           /\ records' = Insert(es, i, r)
  <2>1. r.lock \in MigrationLockRecord /\ r \in SchemaMigrationRecord
    BY MigrationAssumption, Zenon DEF new_migration_lock, MigrationLockRecord, SchemaMigrationRecord
  <2>2. validate_schema_migration_record(r)
    <3>1. at >= at
      BY MigrationAssumption DEF Times
    <3> QED
      BY <1>2, <3>1, Zenon DEF validate_schema_migration_record, new_migration_lock, Held, Status
  <2>3. /\ Sound(es)
        /\ \A j \in DOMAIN es : Held(es[j]) => is_active(es[j].lock, at)
    BY ExpireAll
  <2> HIDE DEF es, r
  <2>4. \A j \in DOMAIN es : ~Held(es[j])
    BY <1>2, <2>3, HeldIsFound
  <2>5. StepOK(records, Insert(es, i, r))
    BY <2>1, <2>2, <2>4, InsertStep DEF es
  <2> QED
    BY <1>2, <2>5
<1> QED
  BY <1>1, <1>2, Zenon DEF acquire_schema_migration_lock, Fail, Done

\* create_schema_migration writes under a held lock only for its leader.
LEMMA CreateStep ==
  ASSUME Sound(records), NEW r \in NewRecords, NEW i \in Id \ DOMAIN records,
         create_schema_migration(r, i)
  PROVE  StepOK(records, records')
<1> DEFINE es == expire_schema_migration_locks(records, write_at(r))
<1>1. CASE records' = records
  BY <1>1, Unchanged
<1>2. CASE /\ validate_schema_migration_record(r)
           /\ MayWrite(es, r)
           /\ records' = Insert(es, i, r)
  <2>1. r \in SchemaMigrationRecord
    BY MigrationAssumption
  <2>2. write_at(r) \in Times
    <3>1. CASE Status(r) = "None"
      BY <2>1, <3>1 DEF write_at, SchemaMigrationRecord
    <3>2. CASE Status(r) # "None"
      <4>1. r.lock \in MigrationLockRecord
        BY <1>2, <2>1, <3>2, LockShape, Zenon
      <4> QED
        BY <3>2, <4>1 DEF write_at, MigrationLockRecord
    <3> QED
      BY <3>1, <3>2
  <2>3. /\ Sound(es)
        /\ \A j \in DOMAIN es : Held(es[j]) => is_active(es[j].lock, write_at(r))
    BY <2>2, ExpireAll
  <2> HIDE DEF es
  <2>4. ASSUME NEW j \in DOMAIN es, Held(es[j])
        PROVE  ~Held(r) /\ r.leader_id = es[j].leader_id
    <3>1. active_migration_lock(es, write_at(r)) = {j}
      BY <2>3, <2>4, HeldIsFound
    <3>2. ~is_schema_migration_lock(r) /\ r.leader_id = {es[j].lock.leader_id}
      BY <1>2, <3>1, Zenon DEF MayWrite
    <3>3. es[j].leader_id = {es[j].lock.leader_id}
      <4>1. es[j] \in SchemaMigrationRecord /\ validate_schema_migration_record(es[j])
        BY <2>3 DEF Sound, WellFormed
      <4>2. Status(es[j]) # "None"
        BY <2>4 DEF Held
      <4> QED
        BY <4>1, <4>2, LockShape, Zenon
    <3>4. ~Held(r)
      BY <1>2, <2>1, <3>2, LockShape, Zenon DEF Held
    <3> QED
      BY <3>2, <3>3, <3>4
  <2>5. StepOK(records, Insert(es, i, r))
    BY <1>2, <2>1, <2>2, <2>4, InsertStep DEF es
  <2> QED
    BY <1>2, <2>5
<1> QED
  BY <1>1, <1>2, Zenon DEF create_schema_migration, Fail, Done

\* release_schema_migration_lock ends the caller's own lock.
LEMMA ReleaseCallStep ==
  ASSUME Sound(records), NEW i \in Id, NEW leader \in Leader, NEW at \in Times,
         release_schema_migration_lock(i, leader, at)
  PROVE  StepOK(records, records')
<1> DEFINE es == expire_schema_migration_locks(records, at)
<1>1. CASE records' = records
  BY <1>1, Unchanged
<1>2. CASE records' = es
  BY <1>2, ExpireStep
<1>3. CASE /\ i \in DOMAIN es /\ ReleaseError(es[i], leader, at) = "None" /\ Held(es[i])
           /\ records' = [es EXCEPT ![i] = Released(es[i], at)]
  <2>1. i \in DOMAIN records
    BY <1>3, ExpireAll
  <2>2. ~(at < es[i].lock.locked_at)
    BY <1>3, Zenon DEF ReleaseError
  <2> QED
    BY <1>3, <2>1, <2>2, ReleaseStep, Zenon
<1> QED
  BY <1>1, <1>2, <1>3, Zenon DEF release_schema_migration_lock, Fail, Done

\* Every step of the store does to the records what StepOK allows.
LEMMA NextStep == Sound(records) /\ [Next]_vars => StepOK(records, records')
<1> SUFFICES ASSUME Sound(records), [Next]_vars PROVE StepOK(records, records')
  OBVIOUS
<1>1. CASE Acquire
  BY <1>1, AcquireStep DEF Acquire
<1>2. CASE Create
  BY <1>2, CreateStep DEF Create
<1>3. CASE Get
  <2>1. PICK now \in Times : get_schema_migration_lock(now)
    BY <1>3 DEF Get
  <2> QED
    BY <2>1, ExpireStep DEF get_schema_migration_lock, Done
<1>4. CASE Release
  BY <1>4, ReleaseCallStep DEF Release
<1>5. CASE UNCHANGED vars
  BY <1>5, Unchanged DEF vars
<1> QED
  BY <1>1, <1>2, <1>3, <1>4, <1>5 DEF Next

\* The inductive invariant: acquire, create, get and release of the store keep the
\* records well formed and one lock held at most.
THEOREM SoundAlways == Spec => []Sound(records)
<1>1. Init => Sound(records)
  BY DEF Init, Sound, WellFormed, One
<1>2. Sound(records) /\ [Next]_vars => Sound(records)'
  BY NextStep DEF StepOK
<1> QED
  BY <1>1, <1>2, PTL DEF Spec

\* Whatever times the callers bring, acquire_schema_migration_lock never leaves two
\* locks held, and the records the store writes pass the validation of a startup.
THEOREM OneHolderAlways == Spec => [](OneHolder /\ LocksLoad)
<1>1. Sound(records) => OneHolder /\ LocksLoad
  BY DEF Sound, One, WellFormed, OneHolder, LocksLoad
<1> QED
  BY <1>1, SoundAlways, PTL

\* create_schema_migration under a held lock is its leader's.
THEOREM FencedAlways == Spec => MigrationsAreFenced
<1> DEFINE A == \A i \in DOMAIN records' \ DOMAIN records, j \in DOMAIN records' :
                  Held(records'[j]) => records'[i].leader_id = records'[j].leader_id
<1>1. Sound(records) /\ [Next]_vars => [A]_vars
  BY NextStep DEF StepOK
<1> QED
  BY <1>1, SoundAlways, PTL DEF Spec, MigrationsAreFenced

\* A lock that release or expire_schema_migration_locks ended stays ended, and none
\* expires before its time.
THEOREM EndOnceAlways == Spec => LocksEndOnce
<1> DEFINE A == \A i \in DOMAIN records :
                  /\ i \in DOMAIN records'
                  /\ records'[i].updated_at >= records[i].updated_at
                  /\ ~Held(records[i]) => records'[i] = records[i]
                  /\ Status(records[i]) # Status(records'[i]) /\ Status(records'[i]) = "Expired" =>
                       \A t \in records'[i].lock.released_at : t >= expires_at(records[i].lock)
<1>1. Sound(records) /\ [Next]_vars => [A]_vars
  BY NextStep, Zenon DEF StepOK, Ends
<1> QED
  BY <1>1, SoundAlways, PTL DEF Spec, LocksEndOnce

-----------------------------------------------------------------------------
(* The lock of an artifact index: in each of its three builds              *)
(* ScopeIndexGuard is a mutex.                                             *)

\* A kernel lock works because the file is never removed: all who have it open have the
\* one that ".index.lock" leads to, and the thread inside has locked that one.
OneFile ==
  \A p \in Process :
    /\ where[p] # "idle" => fd[p] = entry /\ entry # 0
    /\ where[p] = "holding" => locked[entry] = p

\* Elsewhere the file is there while a thread is inside.
FileIsLock == \A p \in Process : where[p] = "holding" => entry # 0

TriesLeft == \A p \in Process : where[p] = "trying" => attempt[p] < Attempts

\* The inductive invariant: exclusion follows from OneFile where the kernel locks, and is
\* carried along with FileIsLock where the file is the lock.
IndexInv ==
  /\ Index!TypeOK
  /\ TriesLeft
  /\ Index!MutualExclusion
  /\ Index!KernelLocks => OneFile
  /\ ~Index!KernelLocks => FileIsLock

-----------------------------------------------------------------------------
\* A scope whose index nobody has locked yet satisfies the invariant.
LEMMA InitIndex == Index!Init => IndexInv
  BY NoneAssumption, BoundsAssumption
  DEF Index!Init, IndexInv, Index!TypeOK, TriesLeft, Index!MutualExclusion, OneFile, FileIsLock, Index!KernelLocks

\* One more fault, while there are fewer than MaxFaults, keeps to the bound.
LEMMA FaultIsCounted ==
  ASSUME NEW n \in 0 .. MaxFaults, n < MaxFaults
  PROVE  n + 1 \in 0 .. MaxFaults
  BY BoundsAssumption

\* Opening ".index.lock" preserves the invariant: it is made only when nobody has it open.
LEMMA OpenInv ==
  ASSUME NEW p \in Process, IndexInv, Index!Open(p)
  PROVE  IndexInv'
<1> USE NoneAssumption, BoundsAssumption DEF Index!Open, Index!KernelLocks
<1>1. Index!TypeOK'
  <2>1. entry' \in 0 .. MaxInodes /\ made' \in 0 .. MaxInodes
    <3>1. CASE entry # 0
      BY <3>1 DEF IndexInv, Index!TypeOK, Index!files
    <3>2. CASE entry = 0
      <4>1. made \in 0 .. MaxInodes /\ made < MaxInodes /\ made' = made + 1 /\ entry' = made + 1
        BY <3>2 DEF IndexInv, Index!TypeOK
      <4> HIDE DEF Index!Open
      <4> QED BY <4>1
    <3> QED BY <3>1, <3>2
  <2>2. fd' \in [Process -> 0 .. MaxInodes]
    <3>1. fd' = [fd EXCEPT ![p] = entry']
      BY DEF Index!files
    <3>2. fd \in [Process -> 0 .. MaxInodes]
      BY DEF IndexInv, Index!TypeOK
    <3> HIDE DEF Index!Open
    <3> QED BY <2>1, <3>1, <3>2
  <2>3. attempt' \in [Process -> 0 .. Attempts]
    BY DEF IndexInv, Index!TypeOK
  <2>4. where' \in [Process -> {"idle", "trying", "holding"}]
    BY DEF IndexInv, Index!TypeOK
  <2> QED BY <2>1, <2>2, <2>3, <2>4 DEF IndexInv, Index!TypeOK
<1>2. TriesLeft' /\ Index!MutualExclusion'
  BY DEF IndexInv, Index!TypeOK, TriesLeft, Index!MutualExclusion
<1>3. OneFile'
  <2>1. CASE entry # 0
    BY <2>1 DEF IndexInv, Index!TypeOK, OneFile, Index!files
  <2>2. CASE entry = 0
    <3>1. \A q \in Process : where[q] = "idle"
      BY <2>2 DEF IndexInv, OneFile
    <3>2. entry' = made + 1 /\ entry' # 0
      BY <2>2 DEF IndexInv, Index!TypeOK
    <3> QED BY <2>2, <3>1, <3>2 DEF IndexInv, Index!TypeOK, OneFile
  <2> QED BY <2>1, <2>2
<1> QED BY <1>1, <1>2, <1>3 DEF IndexInv

\* flock and LockFileEx preserve the invariant: the free file is the one file.
LEMMA LockFileInv ==
  ASSUME NEW p \in Process, IndexInv, Index!LockFile(p)
  PROVE  IndexInv'
<1> USE NoneAssumption, BoundsAssumption DEF Index!LockFile, Index!KernelLocks, Index!files
<1>1. fd[p] = entry /\ entry \in 1 .. MaxInodes
  BY DEF IndexInv, Index!TypeOK, OneFile
<1>2. \A q \in Process : where[q] # "holding"
  BY <1>1 DEF IndexInv, Index!TypeOK, OneFile
<1>3. Index!TypeOK' /\ TriesLeft'
  BY <1>1 DEF IndexInv, Index!TypeOK, TriesLeft
<1>4. Index!MutualExclusion' /\ OneFile'
  BY <1>1, <1>2 DEF IndexInv, Index!TypeOK, Index!MutualExclusion, OneFile
<1> QED BY <1>3, <1>4 DEF IndexInv

\* The first try of a build without kernel locks, and create_new, preserve the invariant.
LEMMA CreateIndexInv ==
  ASSUME NEW p \in Process, IndexInv, Index!Begin(p) \/ Index!CreateNew(p)
  PROVE  IndexInv'
<1>1. /\ ~Index!KernelLocks /\ Index!TypeOK /\ TriesLeft /\ Index!MutualExclusion /\ FileIsLock
      /\ where \in [Process -> {"idle", "trying", "holding"}]
  BY Zenon DEF IndexInv, Index!TypeOK, Index!Begin, Index!CreateNew
<1>2. UNCHANGED <<platform, made, locked, fd, failures>>
  BY Zenon DEF Index!Begin, Index!CreateNew, Index!files
<1>3. ~Index!KernelLocks'
  BY <1>1, <1>2, Zenon DEF Index!KernelLocks
<1>4. CASE Index!Begin(p)
  <2>1. /\ entry' = entry /\ attempt' = [attempt EXCEPT ![p] = 0]
        /\ where' = [where EXCEPT ![p] = "trying"]
    BY <1>4, Zenon DEF Index!Begin, Index!files
  <2>2. Index!TypeOK'
    BY <1>1, <1>2, <2>1, BoundsAssumption DEF Index!TypeOK
  <2>3. TriesLeft'
    BY <1>1, <2>1, BoundsAssumption DEF Index!TypeOK, TriesLeft
  <2>4. \A q \in Process : where'[q] = "holding" => where[q] = "holding"
    BY <1>1, <2>1
  <2>5. Index!MutualExclusion' /\ FileIsLock'
    BY <1>1, <2>1, <2>4, Zenon DEF Index!MutualExclusion, FileIsLock
  <2> QED BY <1>3, <2>2, <2>3, <2>5, Zenon DEF IndexInv
<1>5. CASE Index!CreateNew(p)
  <2>1. /\ entry = 0 /\ entry' = 1 /\ attempt' = attempt
        /\ where' = [where EXCEPT ![p] = "holding"]
    BY <1>5, Zenon DEF Index!CreateNew
  <2>2. Index!TypeOK'
    BY <1>1, <1>2, <2>1, BoundsAssumption DEF Index!TypeOK
  <2>3. TriesLeft'
    BY <1>1, <2>1 DEF Index!TypeOK, TriesLeft
  <2>4. \A q \in Process : where'[q] = "holding" => q = p
    BY <1>1, <2>1 DEF FileIsLock
  <2>5. entry' # 0
    BY <2>1
  <2>6. Index!MutualExclusion' /\ FileIsLock'
    BY <2>4, <2>5, Zenon DEF Index!MutualExclusion, FileIsLock
  <2> QED BY <1>3, <2>2, <2>3, <2>6, Zenon DEF IndexInv
<1> QED BY <1>4, <1>5

\* A try that finds the lock taken, or fails, preserves the invariant.
LEMMA RetryInv ==
  ASSUME NEW p \in Process, IndexInv, Index!Retry(p) \/ Index!TryFails(p)
  PROVE  IndexInv'
<1>1. /\ Index!TypeOK /\ TriesLeft /\ Index!MutualExclusion
      /\ Index!KernelLocks => OneFile
      /\ ~Index!KernelLocks => FileIsLock
  BY Zenon DEF IndexInv
<1>2. UNCHANGED <<platform, entry, made, locked>> /\ where[p] = "trying"
  BY Zenon DEF Index!Retry, Index!TryFails, Index!files
<1>3. \/ attempt' = attempt
      \/ attempt' = [attempt EXCEPT ![p] = @ + 1]
  BY Zenon DEF Index!Retry, Index!TryFails
<1>4. \/ fd' = fd /\ where' = where /\ (attempt' = attempt \/ attempt[p] + 1 < Attempts)
      \/ fd' = [fd EXCEPT ![p] = 0] /\ where' = [where EXCEPT ![p] = "idle"]
  BY Zenon DEF Index!Retry, Index!TryFails
<1>5. failures' = failures \/ (failures < MaxFaults /\ failures' = failures + 1)
  BY Zenon DEF Index!Retry, Index!TryFails
<1>6. Index!TypeOK'
  <2>1. attempt' \in [Process -> 0 .. Attempts]
    <3>1. attempt \in [Process -> 0 .. Attempts] /\ attempt[p] < Attempts
      BY <1>1, <1>2, Zenon DEF Index!TypeOK, TriesLeft
    <3>2. attempt[p] + 1 \in 0 .. Attempts
      BY <3>1, BoundsAssumption
    <3> QED BY <1>3, <3>1, <3>2
  <2>2. fd' \in [Process -> 0 .. MaxInodes]
    <3>1. fd \in [Process -> 0 .. MaxInodes]
      BY <1>1, Zenon DEF Index!TypeOK
    <3>2. fd' = fd \/ fd' = [fd EXCEPT ![p] = 0]
      BY <1>4, Zenon
    <3> QED BY <3>1, <3>2, BoundsAssumption
  <2>3. where' \in [Process -> {"idle", "trying", "holding"}]
    <3>1. where \in [Process -> {"idle", "trying", "holding"}]
      BY <1>1, Zenon DEF Index!TypeOK
    <3>2. where' = where \/ where' = [where EXCEPT ![p] = "idle"]
      BY <1>4, Zenon
    <3> QED BY <3>1, <3>2
  <2>4. failures' \in 0 .. MaxFaults
    BY <1>1, <1>5, FaultIsCounted DEF Index!TypeOK
  <2> QED BY <1>1, <1>2, <2>1, <2>2, <2>3, <2>4, Zenon DEF Index!TypeOK
<1>7. TriesLeft'
  <2>1. ASSUME NEW q \in Process, where'[q] = "trying" PROVE attempt'[q] < Attempts
    <3>1. where[q] = "trying"
      BY <1>1, <1>4, <2>1 DEF Index!TypeOK
    <3>2. attempt[q] < Attempts
      BY <1>1, <3>1 DEF TriesLeft
    <3>3. CASE q = p
      BY <1>1, <1>3, <1>4, <2>1, <3>2, <3>3 DEF Index!TypeOK
    <3>4. CASE q # p
      BY <1>1, <1>3, <3>2, <3>4 DEF Index!TypeOK
    <3> QED BY <3>3, <3>4
  <2> QED BY <2>1, Zenon DEF TriesLeft
<1>8. \A q \in Process : /\ where'[q] = "holding" => where[q] = "holding"
                         /\ where'[q] # "idle" => where[q] # "idle" /\ fd'[q] = fd[q]
  BY <1>1, <1>4 DEF Index!TypeOK
<1>9. Index!MutualExclusion' /\ (OneFile => OneFile') /\ (FileIsLock => FileIsLock')
  BY <1>1, <1>2, <1>8, Zenon DEF Index!MutualExclusion, OneFile, FileIsLock
<1>10. Index!KernelLocks' <=> Index!KernelLocks
  BY <1>2, Zenon DEF Index!KernelLocks
<1> QED BY <1>1, <1>6, <1>7, <1>9, <1>10, Zenon DEF IndexInv

\* The end of the guard, by its drop or by a crash, preserves the invariant: nobody else
\* is inside, and a file that others may have open is not removed.
LEMMA EndInv ==
  ASSUME NEW p \in Process, IndexInv, Index!Drop(p) \/ Index!Crash(p)
  PROVE  IndexInv'
<1>1. /\ Index!TypeOK /\ TriesLeft /\ Index!MutualExclusion
      /\ Index!KernelLocks => OneFile
      /\ ~Index!KernelLocks => FileIsLock
  BY Zenon DEF IndexInv
<1>2. /\ UNCHANGED <<platform, made, attempt>> /\ where[p] # "idle"
      /\ fd' = [fd EXCEPT ![p] = 0]
      /\ where' = [where EXCEPT ![p] = "idle"]
  BY DEF Index!Drop, Index!Crash, Index!files
<1>3. \/ entry' = entry
      \/ ~Index!KernelLocks /\ entry' = 0 /\ where[p] = "holding"
  BY Zenon DEF Index!Drop, Index!Crash, Index!files
<1>4. failures' = failures \/ (failures < MaxFaults /\ failures' = failures + 1)
  BY Zenon DEF Index!Drop, Index!Crash
<1>5. /\ locked' \in [1 .. MaxInodes -> Process \cup {None}]
      /\ \A i \in 1 .. MaxInodes :
           \/ locked'[i] = locked[i]
           \/ i = fd[p] /\ (where[p] = "holding" \/ locked[i] = p)
  <2>1. locked \in [1 .. MaxInodes -> Process \cup {None}]
    BY <1>1, Zenon DEF Index!TypeOK
  <2>2. CASE Index!Drop(p)
    <3>1. /\ where[p] = "holding"
          /\ locked' = [i \in 1 .. MaxInodes |-> IF i = fd[p] THEN None ELSE locked[i]]
      BY <2>2, Zenon DEF Index!Drop
    <3> QED BY <2>1, <3>1, Zenon
  <2>3. CASE Index!Crash(p)
    <3>1. locked' = [i \in 1 .. MaxInodes |->
                       IF i = fd[p] /\ locked[i] = p THEN None ELSE locked[i]]
      BY <2>3, Zenon DEF Index!Crash
    <3> QED BY <2>1, <3>1
  <2> QED BY <2>2, <2>3
<1>6. Index!KernelLocks' <=> Index!KernelLocks
  BY <1>2, Zenon DEF Index!KernelLocks
<1>7. Index!TypeOK'
  <2>1. 0 \in 0 .. MaxInodes
    BY BoundsAssumption
  <2>2. entry' \in 0 .. MaxInodes
    BY <1>1, <1>3, <2>1, Zenon DEF Index!TypeOK
  <2>3. failures' \in 0 .. MaxFaults
    BY <1>1, <1>4, FaultIsCounted DEF Index!TypeOK
  <2>4. fd' \in [Process -> 0 .. MaxInodes]
    BY <1>1, <1>2, <2>1 DEF Index!TypeOK
  <2>5. where' \in [Process -> {"idle", "trying", "holding"}]
    BY <1>1, <1>2 DEF Index!TypeOK
  <2> QED BY <1>1, <1>2, <1>5, <2>2, <2>3, <2>4, <2>5, Zenon DEF Index!TypeOK
<1>8. /\ where'[p] = "idle"
      /\ \A q \in Process : q # p => where'[q] = where[q] /\ fd'[q] = fd[q]
  BY <1>1, <1>2 DEF Index!TypeOK
<1>9. TriesLeft' /\ Index!MutualExclusion'
  BY <1>1, <1>2, <1>8 DEF TriesLeft, Index!MutualExclusion
<1>10. ASSUME Index!KernelLocks PROVE OneFile'
  <2>1. OneFile /\ entry' = entry
    BY <1>1, <1>3, <1>10, Zenon
  <2>2. ASSUME NEW q \in Process, where'[q] # "idle" PROVE q # p /\ fd'[q] = entry /\ entry # 0
    BY <1>8, <2>1, <2>2 DEF OneFile
  <2>3. ASSUME NEW q \in Process, where'[q] = "holding" PROVE locked'[entry] = q
    <3>1. q # p /\ where[q] = "holding" /\ locked[entry] = q
      BY <1>8, <2>1, <2>3, Zenon DEF OneFile
    <3>2. where[p] # "holding"
      BY <1>1, <3>1 DEF Index!MutualExclusion
    <3>3. entry \in 1 .. MaxInodes
      BY <1>1, <2>1, <3>1 DEF OneFile, Index!TypeOK
    <3> QED BY <1>5, <3>1, <3>2, <3>3, Zenon
  <2> QED BY <2>1, <2>2, <2>3, Zenon DEF OneFile
<1>11. ASSUME ~Index!KernelLocks PROVE FileIsLock'
  <2>1. ASSUME NEW q \in Process, where'[q] = "holding" PROVE entry' # 0
    <3>1. q # p /\ where[q] = "holding"
      BY <1>8, <2>1
    <3>2. where[p] # "holding"
      BY <1>1, <3>1 DEF Index!MutualExclusion
    <3>3. entry # 0
      BY <1>1, <1>11, <3>1 DEF FileIsLock
    <3> QED BY <1>3, <3>2, <3>3
  <2> QED BY <2>1, Zenon DEF FileIsLock
<1> QED BY <1>6, <1>7, <1>9, <1>10, <1>11, Zenon DEF IndexInv

\* Every step of every thread preserves the invariant.
LEMMA NextIndex == IndexInv /\ [Index!Next]_(Index!vars) => IndexInv'
<1> SUFFICES ASSUME IndexInv, [Index!Next]_(Index!vars) PROVE IndexInv'
  OBVIOUS
<1>1. CASE UNCHANGED Index!vars
  BY <1>1, Zenon DEF Index!vars, Index!files, IndexInv, Index!TypeOK, TriesLeft, Index!MutualExclusion, OneFile,
              FileIsLock, Index!KernelLocks
<1>2. CASE Index!Next
  BY <1>2, OpenInv, LockFileInv, CreateIndexInv, RetryInv, EndInv DEF Index!Next
<1> QED BY <1>1, <1>2

\* The invariant holds in every reachable state of the lock.
THEOREM IndexInvariance == Index!Spec => []IndexInv
  BY InitIndex, NextIndex, PTL DEF Index!Spec

\* Two threads of any processes never read and rewrite the index of one scope at a time.
THEOREM IndexExclusionHolds == Index!Spec => []Index!MutualExclusion
<1>1. IndexInv => Index!MutualExclusion
  BY DEF IndexInv
<1> QED BY IndexInvariance, <1>1, PTL

-----------------------------------------------------------------------------
\* The owner under the refinement mapping is the thread inside.
LEMMA OwnerIsHolder ==
  ASSUME Index!MutualExclusion
  PROVE  /\ Index!HeldBy \in Process \cup {None}
         /\ \A p \in Process : Index!HeldBy = p <=> where[p] = "holding"
<1>1. CASE Index!Holders = {}
  BY <1>1, NoneAssumption DEF Index!HeldBy, Index!Holders
<1>2. CASE Index!Holders # {}
  <2>1. Index!HeldBy \in Index!Holders
    BY <1>2 DEF Index!HeldBy
  <2> QED BY <2>1 DEF Index!Holders, Index!MutualExclusion
<1> QED BY <1>1, <1>2

\* Every step takes or gives back the mutex, or leaves it with who has it.
LEMMA IndexStepRefines == IndexInv /\ IndexInv' /\ [Index!Next]_(Index!vars) => [Index!Guard!Next]_(Index!owner)
<1> SUFFICES ASSUME IndexInv, IndexInv', [Index!Next]_(Index!vars) PROVE [Index!Guard!Next]_(Index!owner)
  OBVIOUS
<1> USE NoneAssumption
<1>1. /\ Index!HeldBy \in Process \cup {None}
      /\ \A p \in Process : Index!HeldBy = p <=> where[p] = "holding"
  BY OwnerIsHolder DEF IndexInv
<1>2. /\ Index!HeldBy' \in Process \cup {None}
      /\ \A p \in Process : Index!HeldBy' = p <=> where'[p] = "holding"
  <2>1. (Index!MutualExclusion => /\ Index!HeldBy \in Process \cup {None}
                            /\ \A p \in Process : Index!HeldBy = p <=> where[p] = "holding")'
    BY OwnerIsHolder, PTL
  <2> QED BY <2>1 DEF IndexInv
<1>3. ASSUME NEW p \in Process, Index!LockFile(p) \/ Index!CreateNew(p) PROVE Index!Guard!Next
  <2>1. \A q \in Process : where[q] # "holding"
    BY <1>3, Zenon DEF Index!LockFile, Index!CreateNew, IndexInv, Index!TypeOK, OneFile, FileIsLock, Index!KernelLocks
  <2>2. Index!HeldBy = None
    BY <1>1, <2>1
  <2>3. Index!HeldBy' = p
    BY <1>2, <1>3 DEF Index!LockFile, Index!CreateNew, IndexInv, Index!TypeOK
  <2>4. Index!owner["index"] = None /\ Index!owner' = [Index!owner EXCEPT !["index"] = p]
    BY <2>2, <2>3 DEF Index!owner
  <2> QED BY <2>4, Zenon DEF Index!Guard!Next, Index!Guard!Acquire
<1>4. ASSUME NEW p \in Process, Index!Drop(p) \/ Index!Crash(p), where[p] = "holding" PROVE Index!Guard!Next
  <2>1. Index!HeldBy = p
    BY SMTT(30), <1>1, <1>4
  <2>2. Index!HeldBy' = None
    BY <1>2, <1>4, SMTT(30) DEF Index!Drop, Index!Crash, IndexInv, Index!TypeOK, Index!MutualExclusion
  <2>3. Index!owner["index"] = p /\ Index!owner' = [Index!owner EXCEPT !["index"] = None]
    BY <2>1, <2>2 DEF Index!owner
  <2> QED BY <2>3 DEF Index!Guard!Next, Index!Guard!Release
<1>5. ASSUME \A p \in Process : where[p] = "holding" <=> where'[p] = "holding"
      PROVE  Index!owner' = Index!owner
  <2>1. Index!HeldBy' = Index!HeldBy
    BY <1>1, <1>2, <1>5
  <2> QED BY <2>1 DEF Index!owner
<1>6. CASE UNCHANGED Index!vars
  BY <1>5, <1>6 DEF Index!vars
<1>7. ASSUME NEW p \in Process, Index!Open(p) \/ Index!Begin(p) \/ Index!Retry(p) \/ Index!TryFails(p)
      PROVE  Index!owner' = Index!owner
  BY <1>5, <1>7, Zenon DEF Index!Open, Index!Begin, Index!Retry, Index!TryFails, IndexInv, Index!TypeOK
<1>8. ASSUME NEW p \in Process, Index!Crash(p), where[p] # "holding" PROVE Index!owner' = Index!owner
  BY <1>5, <1>8 DEF Index!Crash, IndexInv, Index!TypeOK
<1>9. ASSUME NEW p \in Process, Index!Drop(p) PROVE where[p] = "holding"
  BY <1>9 DEF Index!Drop
<1> QED BY <1>3, <1>4, <1>6, <1>7, <1>8, <1>9 DEF Index!Next

\* In every build, ScopeIndexGuard implements a mutex on the index of its scope.
THEOREM IndexRefinement == Index!Spec => ImplementsGuard
<1>1. Index!Init => Index!Guard!Init
  BY DEF Index!Init, Index!Guard!Init, Index!owner, Index!HeldBy, Index!Holders
<1> QED BY IndexInvariance, <1>1, IndexStepRefines, PTL DEF Index!Spec, ImplementsGuard, Index!ImplementsGuard, Index!Guard!Spec
=============================================================================
