------------------------------ MODULE KeyLocks ------------------------------
(***************************************************************************)
(* The per-key locks of SecretaryService::submit_job: a map from keys to   *)
(* reference-counted mutexes, made on first use and removed by the last    *)
(* user.  The map has a mutex of its own, which makes each of the two      *)
(* steps that touch the map atomic; a key's mutex is locked and unlocked,  *)
(* and the reference to it dropped, outside of it.                         *)
(*                                                                         *)
(* A process is a request thread: it serves one submission after another.  *)
(***************************************************************************)
EXTENDS Naturals, FiniteSets

CONSTANTS
  Proc,    \* request threads
  Key,     \* idempotency keys
  Lock,    \* Arc<Mutex<()>> allocations
  None

VARIABLES
  locks,   \* idempotent_submission_locks: the allocation for a key, or None
  holder,  \* the process that has locked each mutex, or None
  arc,     \* the clone of the Arc that each process holds, or None
  key,     \* the key of the submission each process serves
  pc       \* where each process is

vars == <<locks, holder, arc, key, pc>>

TypeOK ==
  /\ locks \in [Key -> Lock \cup {None}]
  /\ holder \in [Lock -> Proc \cup {None}]
  /\ arc \in [Proc -> Lock \cup {None}]
  /\ key \in [Proc -> Key \cup {None}]
  /\ pc \in [Proc -> {"idle", "waiting", "inside", "unlocked", "dropped"}]

Init ==
  /\ locks = [k \in Key |-> None]
  /\ holder = [l \in Lock |-> None]
  /\ arc = [p \in Proc |-> None]
  /\ key = [p \in Proc |-> None]
  /\ pc = [p \in Proc |-> "idle"]

\* An allocation that neither the map nor a process refers to.
Free(l) == (\A k \in Key : locks[k] # l) /\ (\A p \in Proc : arc[p] # l)

\* Arc::strong_count of an allocation that the map holds once is 1 exactly when
\* no process holds a clone.
OnlyInMap(l) == \A p \in Proc : arc[p] # l

\* entry(key).or_insert_with(..).clone() under the map's mutex.
FetchLock(p, k) ==
  /\ pc[p] = "idle"
  /\ \E l \in Lock :
       /\ IF locks[k] = None THEN Free(l) ELSE l = locks[k]
       /\ locks' = [locks EXCEPT ![k] = l]
       /\ arc' = [arc EXCEPT ![p] = l]
  /\ key' = [key EXCEPT ![p] = k]
  /\ pc' = [pc EXCEPT ![p] = "waiting"]
  /\ UNCHANGED holder

\* key_lock.lock()
LockKey(p) ==
  /\ pc[p] = "waiting"
  /\ holder[arc[p]] = None
  /\ holder' = [holder EXCEPT ![arc[p]] = p]
  /\ pc' = [pc EXCEPT ![p] = "inside"]
  /\ UNCHANGED <<locks, arc, key>>

\* drop(_key_guard)
UnlockKey(p) ==
  /\ pc[p] = "inside"
  /\ holder' = [holder EXCEPT ![arc[p]] = None]
  /\ pc' = [pc EXCEPT ![p] = "unlocked"]
  /\ UNCHANGED <<locks, arc, key>>

\* Mutant: the clone lives until the handler returns.
KeepClone(p) ==
  /\ pc[p] = "unlocked"
  /\ pc' = [pc EXCEPT ![p] = "dropped"]
  /\ UNCHANGED <<locks, holder, arc, key>>

\* drop(key_lock)
DropLock(p) ==
  /\ pc[p] = "unlocked"
  /\ arc' = [arc EXCEPT ![p] = None]
  /\ pc' = [pc EXCEPT ![p] = "dropped"]
  /\ UNCHANGED <<locks, holder, key>>

\* Mutant: the mutex is removed whoever else waits for it.
RemoveAlways(p) ==
  /\ pc[p] = "dropped"
  /\ locks' = [locks EXCEPT ![key[p]] = None]
  /\ key' = [key EXCEPT ![p] = None]
  /\ pc' = [pc EXCEPT ![p] = "idle"]
  /\ UNCHANGED <<holder, arc>>

\* The map forgets a mutex that only it refers to.
CleanUp(p) ==
  /\ pc[p] = "dropped"
  /\ locks' = [locks EXCEPT ![key[p]] =
                 IF @ # None /\ OnlyInMap(@) THEN None ELSE @]
  /\ key' = [key EXCEPT ![p] = None]
  /\ pc' = [pc EXCEPT ![p] = "idle"]
  /\ UNCHANGED <<holder, arc>>

Next ==
  \E p \in Proc :
    \/ \E k \in Key : FetchLock(p, k)
    \/ LockKey(p) \/ UnlockKey(p) \/ DropLock(p) \/ CleanUp(p)

Spec == Init /\ [][Next]_vars

-----------------------------------------------------------------------------
\* Two submissions with one key are never both between the lookup and the
\* caching of receipts, although the map may have made several mutexes for that
\* key over time.
MutualExclusion ==
  \A p, q \in Proc :
    pc[p] = "inside" /\ pc[q] = "inside" /\ key[p] = key[q] => p = q

\* A mutex stays in the map only for a submission that will come to clean it up:
\* the map does not grow with the keys that clients have used.
MapIsCollected ==
  \A k \in Key : locks[k] # None => \E p \in Proc : key[p] = k

\* Whoever waits for or holds a key's mutex has the one that the map hands out.
ClonesAreCurrent == \A p \in Proc : arc[p] # None => locks[key[p]] = arc[p]

Holders(k) == {p \in Proc : pc[p] = "inside" /\ key[p] = k}

\* The process that is inside with a key owns the key.
owner == [k \in Key |-> IF Holders(k) = {} THEN None
                        ELSE CHOOSE p \in Proc : p \in Holders(k)]

\* The lock map implements one mutex per key.
Mutex == INSTANCE KeyMutex

IsKeyMutex == Mutex!Spec
=============================================================================
