-------------------------- MODULE SubmissionProofs --------------------------
(***************************************************************************)
(* Proofs about Submission for any number of jobs, keys and events: types, *)
(* the agreement of records and log, atomicity of the multi-event commits, *)
(* what a restart may rely on, and what the cache may say.                 *)
(***************************************************************************)
EXTENDS Submission, JobRuntimeProofs

CacheEntry == [key : Key, id : Job, sig : Sig]

\* A cache within its limit that holds a key at most once.
IsCache(c) ==
  /\ c \in Seq(CacheEntry)
  /\ Len(c) <= CacheLimit
  /\ \A m, n \in 1 .. Len(c) : c[m].key = c[n].key => m = n

\* Concatenating two sequences.
LEMMA ConcatFacts ==
  ASSUME NEW S, NEW a \in Seq(S), NEW b \in Seq(S)
  PROVE  /\ a \o b \in Seq(S)
         /\ Len(a \o b) = Len(a) + Len(b)
         /\ \A i \in 1 .. Len(a) + Len(b) : (a \o b)[i] = IF i <= Len(a) THEN a[i] ELSE b[i - Len(a)]
<1>1. a \o b \in Seq(S)
  OBVIOUS
<1>2. Len(a \o b) = Len(a) + Len(b)
  OBVIOUS
<1>3. \A i \in 1 .. Len(a) + Len(b) : (a \o b)[i] = IF i <= Len(a) THEN a[i] ELSE b[i - Len(a)]
  OBVIOUS
<1> QED BY <1>1, <1>2, <1>3

\* What remains of a cache when an entry is removed from it.
LEMMA WithoutAtFacts ==
  ASSUME NEW c \in Seq(CacheEntry), NEW n \in 1 .. Len(c)
  PROVE  /\ WithoutAt(c, n) \in Seq(CacheEntry)
         /\ Len(WithoutAt(c, n)) = Len(c) - 1
         /\ \A i \in 1 .. Len(c) - 1 :
              WithoutAt(c, n)[i] = IF i < n THEN c[i] ELSE c[i + 1]
<1> DEFINE a == SubSeq(c, 1, n - 1)
           b == SubSeq(c, n + 1, Len(c))
<1>0. Len(c) \in Nat /\ n \in Nat /\ n - 1 \in Nat /\ n <= Len(c)
  OBVIOUS
<1>1. a \in Seq(CacheEntry) /\ Len(a) = n - 1 /\ \A i \in 1 .. n - 1 : a[i] = c[i]
  BY <1>0
<1>2. b \in Seq(CacheEntry) /\ Len(b) = Len(c) - n
  BY <1>0
<1>3. \A i \in 1 .. Len(c) - n : b[i] = c[n + i]
  BY <1>0
<1> HIDE DEF a, b
<1>4. /\ a \o b \in Seq(CacheEntry) /\ Len(a \o b) = Len(c) - 1
      /\ \A i \in 1 .. Len(c) - 1 : (a \o b)[i] = IF i <= n - 1 THEN a[i] ELSE b[i - (n - 1)]
  <2>1. /\ a \o b \in Seq(CacheEntry) /\ Len(a \o b) = Len(a) + Len(b)
        /\ \A i \in 1 .. Len(a) + Len(b) :
             (a \o b)[i] = IF i <= Len(a) THEN a[i] ELSE b[i - Len(a)]
    <3>1. a \in Seq(CacheEntry) /\ b \in Seq(CacheEntry)
      BY <1>1, <1>2
    <3> HIDE DEF CacheEntry
    <3> QED BY <3>1, ConcatFacts, Zenon
  <2>3. Len(a) + Len(b) = Len(c) - 1
    BY <1>0, <1>1, <1>2
  <2> QED BY <1>1, <2>1, <2>3
<1>5. \A i \in 1 .. Len(c) - 1 : (a \o b)[i] = IF i < n THEN c[i] ELSE c[i + 1]
  <2> TAKE i \in 1 .. Len(c) - 1
  <2>1. CASE i < n
    BY <1>0, <1>1, <1>4, <2>1
  <2>2. CASE ~(i < n)
    <3>1. i - (n - 1) \in 1 .. Len(c) - n /\ n + (i - (n - 1)) = i + 1 /\ ~(i <= n - 1)
      BY <1>0, <2>2
    <3>2. (a \o b)[i] = b[i - (n - 1)]
      BY <1>4, <3>1
    <3>3. b[i - (n - 1)] = c[n + (i - (n - 1))]
      BY <1>3, <3>1
    <3> QED BY <2>2, <3>1, <3>2, <3>3
  <2> QED BY <2>1, <2>2, Zenon
<1> QED BY <1>4, <1>5, Zenon DEF WithoutAt, a, b

\* cache_idempotent_submission keeps the cache a cache and adds only its entry.
LEMMA CacheUpdate ==
  ASSUME IsCache(cache), NEW k \in Key, NEW id \in Job, NEW sig \in Sig
  PROVE  LET new == cache_idempotent_submission(k, id, sig)
         IN /\ IsCache(new)
            /\ \A i \in 1 .. Len(new) :
                 \/ new[i] = [key |-> k, id |-> id, sig |-> sig]
                 \/ \E n \in 1 .. Len(cache) : new[i] = cache[n]
<1> DEFINE n == Oldest(Cached(k))
           e == [key |-> k, id |-> id, sig |-> sig]
           others == IF Cached(k) = {} THEN cache ELSE WithoutAt(cache, n)
           kept == IF Len(others) >= CacheLimit THEN Tail(others) ELSE others
           Part(c) == \A i \in 1 .. Len(c) : \E x \in 1 .. Len(cache) : c[i] = cache[x]
           Without(c) == \A i \in 1 .. Len(c) : c[i].key # k
<1>1. cache \in Seq(CacheEntry) /\ Len(cache) \in Nat /\ DOMAIN cache = 1 .. Len(cache)
  BY DEF IsCache
<1>2. IsCache(others) /\ Part(others) /\ Without(others)
  <2>1. CASE Cached(k) = {}
    BY <1>1, <2>1 DEF Cached
  <2>2. CASE Cached(k) # {}
    <3>1. PICK x \in 1 .. Len(cache) : cache[x].key = k
      BY <1>1, <2>2 DEF Cached
    <3>2. \A y \in 1 .. Len(cache) : cache[y].key = k => y = x
      BY <3>1 DEF IsCache
    <3>3. Cached(k) = {x}
      BY <1>1, <3>1, <3>2 DEF Cached
    <3>4. x =< x
      BY <3>1
    <3>5. n = x
      BY <3>3, <3>4 DEF Oldest
    <3> DEFINE c == WithoutAt(cache, x)
    <3>6. /\ c \in Seq(CacheEntry) /\ Len(c) = Len(cache) - 1
          /\ \A i \in 1 .. Len(cache) - 1 : c[i] = IF i < x THEN cache[i] ELSE cache[i + 1]
      BY <1>1, <3>1, WithoutAtFacts, Zenon
    <3> HIDE DEF c
    <3> DEFINE At(i) == IF i < x THEN i ELSE i + 1
    <3>7. \A i \in 1 .. Len(c) : At(i) \in 1 .. Len(cache) /\ At(i) # x /\ c[i] = cache[At(i)]
      BY <1>1, <3>1, <3>6
    <3>8. \A i, m \in 1 .. Len(c) : At(i) = At(m) => i = m
      BY <1>1, <3>1, <3>6
    <3> HIDE DEF At
    <3>9. IsCache(c)
      <4>1. Len(c) <= CacheLimit
        BY <1>1, <3>6, CacheLimitAssumption DEF IsCache
      <4>2. \A i, m \in 1 .. Len(c) : c[i].key = c[m].key => i = m
        BY <3>7, <3>8, SMTT(30) DEF IsCache
      <4> QED BY <3>6, <4>1, <4>2 DEF IsCache
    <3>10. Part(c) /\ Without(c)
      BY <3>2, <3>7
    <3> QED BY <2>2, <3>5, <3>9, <3>10 DEF c
  <2> QED BY <2>1, <2>2
<1> HIDE DEF others
<1>3. IsCache(kept) /\ Part(kept) /\ Without(kept) /\ Len(kept) < CacheLimit
  <2>1. CASE Len(others) >= CacheLimit
    <3>1. others \in Seq(CacheEntry) /\ others # << >> /\ Len(others) = CacheLimit
      BY <1>2, <2>1, CacheLimitAssumption DEF IsCache
    <3> DEFINE c == Tail(others)
    <3>2. /\ c \in Seq(CacheEntry) /\ Len(c) = Len(others) - 1
          /\ \A i \in 1 .. Len(c) : c[i] = others[i + 1]
      BY <3>1
    <3> HIDE DEF c
    <3>3. \A i \in 1 .. Len(c) : i + 1 \in 1 .. Len(others)
      BY <3>1, <3>2
    <3>4. IsCache(c)
      <4>1. ASSUME NEW i \in 1 .. Len(c), NEW m \in 1 .. Len(c), c[i].key = c[m].key
            PROVE  i + 1 = m + 1
        <5>1. others[i + 1].key = others[m + 1].key
          BY <3>2, <4>1, Zenon
        <5>2. i + 1 \in 1 .. Len(others) /\ m + 1 \in 1 .. Len(others)
          BY <3>3
        <5>3. \A x, y \in 1 .. Len(others) : others[x].key = others[y].key => x = y
          BY <1>2 DEF IsCache
        <5> QED BY <5>1, <5>2, <5>3
      <4>2. \A i, m \in 1 .. Len(c) : c[i].key = c[m].key => i = m
        BY <3>1, <3>2, <4>1
      <4> QED BY <3>1, <3>2, <4>2, CacheLimitAssumption DEF IsCache
    <3>5. Part(c) /\ Without(c)
      BY <1>2, <3>2, <3>3, ZenonT(40)
    <3>6. Len(c) < CacheLimit
      BY <3>1, <3>2, CacheLimitAssumption
    <3> QED BY <2>1, <3>4, <3>5, <3>6 DEF c
  <2>2. CASE ~(Len(others) >= CacheLimit)
    BY <1>2, <2>2, CacheLimitAssumption DEF IsCache
  <2> QED BY <2>1, <2>2, Zenon
<1> HIDE DEF kept
<1>4. e \in CacheEntry /\ e.key = k
  BY DEF CacheEntry
<1> DEFINE new == Append(kept, e)
<1>5. /\ new \in Seq(CacheEntry) /\ Len(new) = Len(kept) + 1 /\ Len(kept) \in Nat
      /\ \A i \in 1 .. Len(kept) : new[i] = kept[i]
      /\ new[Len(kept) + 1] = e
  BY <1>3, <1>4 DEF IsCache
<1> HIDE DEF new, e
<1>6. \A i \in 1 .. Len(new) : i \in 1 .. Len(kept) \/ i = Len(kept) + 1
  BY <1>5
<1>7. IsCache(new)
  <2>1. \A i, m \in 1 .. Len(new) : new[i].key = new[m].key => i = m
    BY <1>3, <1>4, <1>5, <1>6, Zenon DEF IsCache
  <2> QED BY <1>3, <1>5, <2>1, CacheLimitAssumption DEF IsCache
<1>8. \A i \in 1 .. Len(new) : new[i] = e \/ \E x \in 1 .. Len(cache) : new[i] = cache[x]
  BY <1>3, <1>5, <1>6, ZenonT(40)
<1>9. new = cache_idempotent_submission(k, id, sig)
  BY DEF cache_idempotent_submission, new, kept, others, e
<1> QED BY <1>7, <1>8, <1>9 DEF e

-----------------------------------------------------------------------------
(* The inductive invariant.                                                *)

FrontInv ==
  /\ call \in [Job -> Call]
  /\ owner \in [Key -> Job \cup {None}]
  /\ IsCache(cache)
  /\ reply \in [Job -> Reply]

IInv ==
  /\ LedgerInv /\ RunInv /\ CancelInv /\ FrontInv
  /\ executed \subseteq Job /\ up \in BOOLEAN

\* The initial state: an empty store, no runs, nothing cached.
LEMMA InitInv == Init => IInv
<1> SUFFICES ASSUME Init PROVE IInv
  OBVIOUS
<1>1. LedgerInv
  <2>1. mem = EmptyStore /\ disk = EmptyStore /\ seen = {}
    BY DEF Init, LedgerInit
  <2>2. EmptyStore \in Store
    BY EmptyStoreSound DEF Sound, Good
  <2> QED BY <2>1, <2>2, EmptyStoreSound, ExtendsReflexive DEF LedgerInv, SeenIsLogged
<1>2. RunInv /\ CancelInv
  <2>1. run = [j \in Job |-> IdleRun] /\ cancels = {}
    BY DEF Init, RuntimeInit
  <2>2. NewJobRecord \in JobRecord
    BY MaxSequenceAssumption DEF NewJobRecord, JobRecord, JobStatus
  <2>3. RunOK(IdleRun) /\ IdleRun \in Run
    BY <2>2 DEF RunOK, Run, IdleRun, Pc
  <2> QED BY <2>1, <2>3 DEF RunInv, CancelInv
<1>3. call \in [Job -> Call]
  <2>1. PICK req \in [Job -> Requests] :
          call = [j \in Job |-> [at |-> "idle", key |-> req[j].key, sig |-> req[j].sig]]
    BY DEF Init
  <2>2. \A j \in Job : req[j].key \in Key \cup {None} /\ req[j].sig \in Sig
    BY <2>1, RequestsAssumption
  <2> QED BY <2>1, <2>2 DEF Call, Stage
<1>4. owner \in [Key -> Job \cup {None}] /\ reply \in [Job -> Reply]
  BY DEF Init, Locks!Init, Reply
<1>5. IsCache(cache)
  BY CacheLimitAssumption DEF Init, IsCache
<1> QED BY <1>1, <1>2, <1>3, <1>4, <1>5 DEF IInv, FrontInv, Init, RuntimeInit

\* Moving a submission and answering it keep the types.
LEMMA AnswerType ==
  ASSUME FrontInv, NEW j \in Job
  PROVE  /\ \A at \in Stage : GoToStage(j, at) => call' \in [Job -> Call]
         /\ \A r \in Reply : Answer(j, r) => call' \in [Job -> Call] /\ reply' \in [Job -> Reply]
<1>1. \A at \in Stage : GoToStage(j, at) => call' \in [Job -> Call]
  BY SMTT(30) DEF FrontInv, GoToStage, Call
<1>2. \A r \in Reply : Answer(j, r) => call' \in [Job -> Call] /\ reply' \in [Job -> Reply]
  <2> SUFFICES ASSUME NEW r \in Reply, Answer(j, r)
               PROVE  call' \in [Job -> Call] /\ reply' \in [Job -> Reply]
    OBVIOUS
  <2>1. GoToStage(j, "done") \/ GoToStage(j, "release")
    BY DEF Answer
  <2>2. reply' \in [Job -> Reply]
    BY DEF Answer, FrontInv
  <2> QED BY <1>1, <2>1, <2>2 DEF Stage
<1> QED BY <1>1, <1>2

\* A request that is refused, or starts its run.
LEMMA EnterInv ==
  ASSUME IInv, NEW j \in Job, Refuse(j) \/ StartJobRun(j), UNCHANGED <<owner, cache>>
  PROVE  IInv' /\ StoreStep
<1> USE DEF IInv
<1>1. CASE Refuse(j)
  <2>1. Answer(j, "error") /\ UNCHANGED <<ledgerVars, runtimeVars>>
    BY <1>1 DEF Refuse
  <2>2. FrontInv'
    BY <2>1, AnswerType DEF FrontInv, Reply
  <2>3. StoreStep /\ LedgerInv'
    BY <2>1, StoreStepInv DEF ledgerVars, StoreStep
  <2> QED BY <2>1, <2>2, <2>3 DEF runtimeVars, RunInv, CancelInv
<1>2. CASE StartJobRun(j)
  <2> DEFINE key == call[j].key
             sig == IF key = None THEN None ELSE call[j].sig
  <2>1. StartRun(j, key, sig) /\ GoToStage(j, "running") /\ UNCHANGED reply
    BY <1>2 DEF StartJobRun
  <2>2. /\ key \in Key \cup {None} /\ sig \in Sig \cup {None}
        /\ key # None => sig \in Sig
    BY DEF FrontInv, Call
  <2> HIDE DEF key, sig
  <2>3. RunInv'
    BY <2>1, <2>2, StartRunInv
  <2>4. UNCHANGED <<ledgerVars, executed, cancels, up>>
    BY <2>1 DEF StartRun
  <2>5. FrontInv'
    BY <2>1, AnswerType DEF FrontInv, Stage
  <2>6. StoreStep /\ LedgerInv'
    BY <2>4, StoreStepInv DEF ledgerVars, StoreStep
  <2> QED BY <2>3, <2>4, <2>5, <2>6 DEF CancelInv
<1> QED BY <1>1, <1>2

\* A step of the service that leaves the runtime alone.
LEMMA ServiceStepInv ==
  ASSUME IInv, UNCHANGED <<ledgerVars, runtimeVars>>, FrontInv'
  PROVE  IInv' /\ StoreStep
<1>1. StoreStep
  BY DEF ledgerVars, StoreStep
<1>2. LedgerInv'
  BY <1>1, StoreStepInv DEF IInv
<1> QED BY <1>1, <1>2 DEF IInv, runtimeVars, RunInv, CancelInv

\* The steps of a submission.
LEMMA ServeJobInv ==
  ASSUME IInv, NEW j \in Job, SubmitJob(j) \/ ServeJob(j)
  PROVE  IInv' /\ StoreStep
<1>0. FrontInv /\ call[j] \in Call
  BY DEF IInv, FrontInv
<1>1. CASE SubmitPlain(j)
  BY <1>1, EnterInv DEF SubmitPlain
<1>2. CASE SubmitKeyed(j)
  <2>1. call' \in [Job -> Call]
    BY <1>0, <1>2, AnswerType DEF SubmitKeyed, Stage
  <2>2. reply' \in [Job -> Reply]
    BY <1>0, <1>2 DEF SubmitKeyed, FrontInv, Reply
  <2>3. FrontInv'
    BY <1>0, <1>2, <2>1, <2>2 DEF SubmitKeyed, FrontInv
  <2> QED BY <1>2, <2>3, ServiceStepInv DEF SubmitKeyed
<1>3. CASE AcquireKey(j)
  <2>1. owner' \in [Key -> Job \cup {None}]
    BY <1>0, <1>3, Zenon DEF AcquireKey, Locks!Acquire, FrontInv
  <2>2. FrontInv'
    BY <1>0, <1>3, <2>1, AnswerType DEF AcquireKey, FrontInv, Stage
  <2> QED BY <1>3, <2>2, ServiceStepInv DEF AcquireKey
<1>4. CASE ReplayCached(j)
  <2> DEFINE n == Newest(Cached(call[j].key))
             r == IF cache[n].sig = call[j].sig THEN cache[n].id ELSE "conflict"
  <2>1. Answer(j, r) /\ Cached(call[j].key) # {}
    BY <1>4 DEF ReplayCached
  <2>2. n \in 1 .. Len(cache)
    <3>1. cache \in Seq(CacheEntry) /\ DOMAIN cache = 1 .. Len(cache)
      BY <1>0 DEF FrontInv, IsCache
    <3>2. PICK x \in 1 .. Len(cache) : cache[x].key = call[j].key
      BY <2>1, <3>1 DEF Cached
    <3>3. \A y \in 1 .. Len(cache) : cache[y].key = call[j].key => y = x
      BY <1>0, <3>2 DEF FrontInv, IsCache
    <3>4. Cached(call[j].key) = {x}
      BY <3>1, <3>2, <3>3 DEF Cached
    <3>5. x >= x
      BY <3>2
    <3>6. n = x
      BY <3>4, <3>5 DEF Newest
    <3> QED BY <3>6
  <2> HIDE DEF n
  <2>3. r \in Reply
    <3>1. cache \in Seq(CacheEntry)
      BY <1>0 DEF FrontInv, IsCache
    <3>2. cache[n] \in CacheEntry
      BY <2>2, <3>1
    <3>3. cache[n].id \in Job
      BY <3>2 DEF CacheEntry
    <3> QED BY <3>3 DEF Reply
  <2> HIDE DEF r
  <2>4. FrontInv'
    BY <1>0, <1>4, <2>1, <2>3, AnswerType, Zenon DEF ReplayCached, FrontInv
  <2> QED BY SMTT(30), <1>4, <2>4, ServiceStepInv DEF ReplayCached
<1>5. CASE ReplayStored(j)
  <2>1. PICK r \in Stored(call[j].key) :
          IF r.sig = call[j].sig
            THEN /\ Answer(j, r.id)
                 /\ cache' = cache_idempotent_submission(r.key, r.id, r.sig)
            ELSE Answer(j, "conflict") /\ UNCHANGED cache
    BY <1>5 DEF ReplayStored
  <2>2. r.key \in Key /\ r.id \in Job /\ r.sig \in Sig
    BY <2>1, Zenon DEF Stored, IInv, LedgerInv, Sound, Good, Store, Receipt
  <2>3. IsCache(cache')
    <3>1. IsCache(cache_idempotent_submission(r.key, r.id, r.sig))
      BY <1>0, <2>2, CacheUpdate, Zenon DEF FrontInv
    <3>2. cache' = cache_idempotent_submission(r.key, r.id, r.sig) \/ cache' = cache
      BY <2>1
    <3> QED BY <1>0, <3>1, <3>2 DEF FrontInv
  <2>4. call' \in [Job -> Call] /\ reply' \in [Job -> Reply]
    BY <1>0, <2>1, <2>2, AnswerType DEF Reply
  <2>5. FrontInv'
    BY <1>0, <1>5, <2>3, <2>4 DEF ReplayStored, FrontInv
  <2> QED BY <1>5, <2>5, ServiceStepInv DEF ReplayStored
<1>6. CASE BeginRun(j)
  BY <1>6, EnterInv DEF BeginRun
<1>7. CASE ReturnReceipt(j)
  <2>1. call[j].key \in Key \cup {None} /\ call[j].sig \in Sig
    BY <1>0 DEF Call
  <2>2. IsCache(cache')
    BY <1>0, <1>7, <2>1, CacheUpdate, Zenon DEF ReturnReceipt, FrontInv
  <2>3. call' \in [Job -> Call] /\ reply' \in [Job -> Reply]
    BY <1>0, <1>7, AnswerType DEF ReturnReceipt, Reply
  <2>4. FrontInv'
    BY <1>0, <1>7, <2>2, <2>3 DEF ReturnReceipt, FrontInv
  <2> QED BY <1>7, <2>4, ServiceStepInv DEF ReturnReceipt
<1>8. CASE ReturnError(j)
  <2>1. FrontInv'
    BY SMTT(30), <1>0, <1>8, AnswerType DEF ReturnError, FrontInv, Reply
  <2> QED BY SMTT(30), <1>8, <2>1, ServiceStepInv DEF ReturnError
<1>9. CASE ReleaseKey(j)
  <2>1. owner' \in [Key -> Job \cup {None}]
    BY <1>0, <1>9, Zenon DEF ReleaseKey, Locks!Release, FrontInv
  <2>2. FrontInv'
    BY <1>0, <1>9, <2>1, AnswerType DEF ReleaseKey, FrontInv, Stage
  <2> QED BY <1>9, <2>2, ServiceStepInv DEF ReleaseKey
<1> QED
  BY SMTT(30), <1>1, <1>2, <1>3, <1>4, <1>5, <1>6, <1>7, <1>8, <1>9 DEF SubmitJob, ServeJob

\* A crash loses memory and keeps the store and its snapshot.
LEMMA CrashDaemonInv ==
  ASSUME IInv, CrashDaemon
  PROVE  IInv' /\ StoreStep
<1>1. Crash /\ UNCHANGED <<mem, disk, seen, executed>> /\ cancels' = {} /\ up' = FALSE
  BY DEF CrashDaemon, Crash, ledgerVars
<1>2. StoreStep
  BY <1>1 DEF StoreStep
<1>3. LedgerInv' /\ RunInv'
  BY <1>1, <1>2, StoreStepInv, CrashInv DEF IInv
<1>4. call' \in [Job -> Call]
  BY SMTT(30) DEF CrashDaemon, IInv, FrontInv, Call, Stage
<1>5. IsCache(cache')
  BY CacheLimitAssumption DEF CrashDaemon, IsCache
<1>6. FrontInv'
  BY <1>4, <1>5 DEF CrashDaemon, IInv, FrontInv
<1> QED BY <1>1, <1>2, <1>3, <1>6, Zenon DEF IInv, CancelInv

\* Every step keeps the invariant and is a step of the store.
LEMMA NextInv ==
  ASSUME IInv, [Next]_vars
  PROVE  IInv' /\ StoreStep
<1>1. ASSUME NEW j \in Job, SubmitJob(j) \/ ServeJob(j)
      PROVE  IInv' /\ StoreStep
  BY <1>1, ServeJobInv
<1>2. ASSUME NEW j \in Job, RunStep(j), UNCHANGED submissionVars
      PROVE  IInv' /\ StoreStep
  <2>1. StoreStep /\ RunInv'
    BY <1>2, RunStepInv DEF IInv
  <2>2. LedgerInv'
    BY <2>1, StoreStepInv DEF IInv
  <2>3. cancels' = cancels /\ up' = up /\ executed' \subseteq Job
    BY <1>2, Zenon DEF IInv, RunStep, CreateJob, DecidePolicy, RecordPolicy, BlockJob, StartJob,
                CreateInvocation, RecordInvocation, ExecuteTool, FinishJob, FailJob,
                TransitionStep, AppendStep
  <2>4. FrontInv'
    BY <1>2 DEF IInv, FrontInv, submissionVars
  <2> QED BY <2>1, <2>2, <2>3, <2>4 DEF IInv, CancelInv
<1>3. ASSUME CancelStep, UNCHANGED submissionVars
      PROVE  IInv' /\ StoreStep
  <2>1. StoreStep /\ CancelInv'
    BY <1>3, CancelStepInv DEF IInv
  <2>2. LedgerInv'
    BY <2>1, StoreStepInv DEF IInv
  <2>3. UNCHANGED <<run, executed, up>>
    BY <1>3, Zenon DEF CancelStep, CancelRead, CancelWrite
  <2>4. FrontInv'
    BY <1>3 DEF IInv, FrontInv, submissionVars
  <2> QED BY <2>1, <2>2, <2>3, <2>4 DEF IInv, RunInv
<1>4. ASSUME Restart, UNCHANGED submissionVars
      PROVE  IInv' /\ StoreStep
  <2>1. StoreStep
    BY <1>4 DEF Restart, StoreStep
  <2>2. LedgerInv'
    BY <2>1, StoreStepInv DEF IInv
  <2>3. FrontInv'
    BY <1>4 DEF IInv, FrontInv, submissionVars
  <2> QED BY <1>4, <2>1, <2>2, <2>3 DEF IInv, RunInv, CancelInv, Restart
<1>5. ASSUME UNCHANGED vars
      PROVE  IInv' /\ StoreStep
  <2>1. UNCHANGED <<ledgerVars, runtimeVars>> /\ FrontInv'
    BY <1>5 DEF vars, submissionVars, IInv, FrontInv
  <2> QED BY <2>1, ServiceStepInv
<1> QED BY <1>1, <1>2, <1>3, <1>4, <1>5, CrashDaemonInv DEF Next

-----------------------------------------------------------------------------
(* What submissions have been answered.                                    *)

\* A submission that waits for its run gave the run its key and signature.
RunIsOurs(j) ==
  call[j].at = "running" =>
    /\ run[j].key = call[j].key
    /\ call[j].key # None => run[j].sig = call[j].sig

\* The job of an answer has ended, and if it succeeded for a key then the key's
\* receipt names that job and that request.
AnswerHolds(s, c, r) ==
  r \in Job =>
    /\ is_terminal(s.jobs[r].status)
    /\ c.key # None /\ s.jobs[r].status = "Succeeded" => Backed(s, c.key, r, c.sig)

CacheHolds(s, c) == \A n \in 1 .. Len(c) : Backed(s, c[n].key, c[n].id, c[n].sig)

AnswerInv ==
  /\ OneReceiptPerKey(mem) /\ OneReceiptPerKey(disk)
  /\ \A j \in Job : RunIsOurs(j) /\ AnswerHolds(mem, call[j], reply[j])
  /\ CacheHolds(mem, cache)

FullInv == IInv /\ PathInv /\ AnswerInv

\* A receipt is only stored for a job that succeeded.
LEMMA BackedSucceeded ==
  ASSUME NEW s, Sound(s), NEW key, NEW id, NEW sig, Backed(s, key, id, sig)
  PROVE  s.jobs[id].status = "Succeeded"
  BY Zenon DEF Backed, Sound, Good, validate_loaded_store, validate_submit_job_idempotency_record

\* An answer that held still holds when the store has gone on.
LEMMA AnswerStays ==
  ASSUME NEW s, NEW d, Extends(s, d), NEW c, NEW r, AnswerHolds(s, c, r)
  PROVE  AnswerHolds(d, c, r)
  BY BackedStays, Zenon DEF AnswerHolds, Extends

\* A cache backed by the stored receipts stays so when the ledger grows.
LEMMA CacheStays ==
  ASSUME NEW s, NEW d, Extends(s, d), NEW c, CacheHolds(s, c)
  PROVE  CacheHolds(d, c)
  BY BackedStays DEF CacheHolds

\* Entering a stored receipt keeps the cache within what is stored.
LEMMA CacheUpdateHolds ==
  ASSUME IsCache(cache), CacheHolds(mem, cache), NEW k \in Key, NEW id \in Job, NEW sig \in Sig,
         Backed(mem, k, id, sig)
  PROVE  CacheHolds(mem, cache_idempotent_submission(k, id, sig))
<1> DEFINE new == cache_idempotent_submission(k, id, sig)
<1>1. \A i \in 1 .. Len(new) : \/ new[i] = [key |-> k, id |-> id, sig |-> sig]
                               \/ \E n \in 1 .. Len(cache) : new[i] = cache[n]
  BY CacheUpdate
<1> HIDE DEF new
<1>2. ASSUME NEW i \in 1 .. Len(new) PROVE Backed(mem, new[i].key, new[i].id, new[i].sig)
  <2>1. CASE new[i] = [key |-> k, id |-> id, sig |-> sig]
    BY <2>1
  <2>2. CASE \E n \in 1 .. Len(cache) : new[i] = cache[n]
    BY <2>2 DEF CacheHolds
  <2> QED BY <1>1, <2>1, <2>2
<1>3. CacheHolds(mem, new)
  BY <1>2 DEF CacheHolds
<1> QED BY <1>3 DEF new

\* One receipt per key, through every step of the store.
LEMMA ReceiptInv ==
  ASSUME LedgerInv, StoreStep, OneReceiptPerKey(mem), OneReceiptPerKey(disk)
  PROVE  OneReceiptPerKey(mem') /\ OneReceiptPerKey(disk')
<1>1. mem \in Store
  BY DEF LedgerInv, Sound, Good
<1> QED BY <1>1, ReceiptsStayUnique DEF StoreStep

\* Where a step only answers one submission, the others' answers stand.
LEMMA OneAnswer ==
  ASSUME FrontInv, LedgerInv, AnswerInv, NEW j \in Job, NEW r \in Reply, Answer(j, r),
         UNCHANGED <<ledgerVars, runtimeVars>>,
         AnswerHolds(mem, call[j], r), CacheHolds(mem, cache')
  PROVE  AnswerInv'
<1>1. mem' = mem /\ disk' = disk /\ run' = run
  BY DEF ledgerVars, runtimeVars
<1>2. PICK at \in {"done", "release"} : call' = [call EXCEPT ![j].at = at]
  BY Zenon DEF Answer, GoToStage
<1>3. reply' = [reply EXCEPT ![j] = r]
  BY DEF Answer
<1>4. ASSUME NEW i \in Job
      PROVE  /\ call'[i].key = call[i].key /\ call'[i].sig = call[i].sig
             /\ call'[i].at = "running" => call[i].at = "running"
             /\ reply'[i] = IF i = j THEN r ELSE reply[i]
  BY <1>2, <1>3 DEF FrontInv, Call
<1>5. ASSUME NEW i \in Job PROVE RunIsOurs(i)'
  BY <1>1, <1>4, Zenon DEF RunIsOurs, AnswerInv
<1>6. ASSUME NEW i \in Job PROVE AnswerHolds(mem, call'[i], reply'[i])
  BY <1>4, Zenon DEF AnswerHolds, AnswerInv
<1> QED BY <1>1, <1>5, <1>6 DEF AnswerInv

\* Where a step answers nothing and leaves the cache alone, or empties it, all
\* stands that stood.
LEMMA NoAnswer ==
  ASSUME IInv, AnswerInv, StoreStep, \/ cache' = cache \/ cache' = << >>,
         \A j \in Job : /\ call'[j].key = call[j].key /\ call'[j].sig = call[j].sig
                        /\ reply'[j] = reply[j] \/ reply'[j] = "error"
                        /\ RunIsOurs(j)'
  PROVE  AnswerInv'
<1>1. Extends(mem, mem') /\ LedgerInv
  BY StoreStepInv DEF IInv
<1>2. ASSUME NEW j \in Job PROVE AnswerHolds(mem', call'[j], reply'[j])
  <2>1. AnswerHolds(mem', call[j], reply[j])
    BY <1>1, AnswerStays, Zenon DEF AnswerInv
  <2> QED BY <2>1, JobAssumption, Zenon DEF AnswerHolds
<1>3. CacheHolds(mem', cache')
  BY <1>1, CacheStays DEF AnswerInv, CacheHolds
<1> QED BY <1>1, <1>2, <1>3, ReceiptInv, Zenon DEF AnswerInv

\* A refused request, or the start of a run.
LEMMA EnterAnswers ==
  ASSUME IInv, AnswerInv, NEW j \in Job, Refuse(j) \/ StartJobRun(j), cache' = cache
  PROVE  AnswerInv'
<1>0. FrontInv /\ LedgerInv /\ CacheHolds(mem, cache)
  BY DEF IInv, AnswerInv
<1>1. CASE Refuse(j)
  <2>1. AnswerHolds(mem, call[j], "error")
    BY JobAssumption DEF AnswerHolds
  <2> QED BY <1>0, <1>1, <2>1, OneAnswer DEF Refuse, Reply
<1>2. CASE StartJobRun(j)
  <2>1. /\ call' = [call EXCEPT ![j].at = "running"] /\ reply' = reply
        /\ run' = [run EXCEPT ![j] = [IdleRun EXCEPT !.pc = "create", !.key = call[j].key,
                     !.sig = IF call[j].key = None THEN None ELSE call[j].sig]]
        /\ UNCHANGED <<mem, disk, seen>>
    BY <1>2 DEF StartJobRun, StartRun, GoToStage, ledgerVars
  <2>2. /\ run \in [Job -> Run] /\ call \in [Job -> Call]
    BY DEF IInv, RunInv, FrontInv
  <2>3. \A i \in Job : call'[i].key = call[i].key /\ call'[i].sig = call[i].sig
    BY <2>1, <2>2 DEF Call
  <2>4. ASSUME NEW i \in Job PROVE RunIsOurs(i)'
    <3>1. CASE i = j
      <4>1. /\ run'[j].key = call[j].key
            /\ call[j].key # None => run'[j].sig = call[j].sig
        BY <2>1, <2>2 DEF IdleRun
      <4> QED BY <2>3, <3>1, <4>1 DEF RunIsOurs
    <3>2. CASE i # j
      BY <2>1, <2>2, <3>2 DEF RunIsOurs, AnswerInv
    <3> QED BY <3>1, <3>2
  <2>5. StoreStep
    BY <2>1 DEF StoreStep
  <2> QED BY <2>1, <2>3, <2>4, <2>5, NoAnswer
<1> QED BY <1>1, <1>2

\* A submission that only moves, with its run or not at all.
LEMMA MoveAnswers ==
  ASSUME IInv, AnswerInv, NEW j \in Job, NEW at \in Stage \ {"running"}, GoToStage(j, at),
         \/ reply' = reply \/ reply' = [reply EXCEPT ![j] = "error"],
         UNCHANGED <<ledgerVars, runtimeVars, cache>>
  PROVE  AnswerInv'
<1>1. /\ call' = [call EXCEPT ![j].at = at] /\ call \in [Job -> Call]
      /\ reply \in [Job -> Reply] /\ run' = run /\ UNCHANGED <<mem, disk, seen>>
  BY DEF GoToStage, IInv, FrontInv, ledgerVars, runtimeVars
<1>2. \A i \in Job : /\ call'[i].key = call[i].key /\ call'[i].sig = call[i].sig
                     /\ call'[i].at = "running" => call[i].at = "running"
                     /\ reply'[i] = reply[i] \/ reply'[i] = "error"
  BY <1>1 DEF Call
<1>3. ASSUME NEW i \in Job PROVE RunIsOurs(i)'
  BY <1>1, <1>2 DEF RunIsOurs, AnswerInv
<1>4. StoreStep
  BY <1>1 DEF StoreStep
<1> QED BY <1>2, <1>3, <1>4, NoAnswer

\* What the cache holds for a key is one entry, of that key.
LEMMA CachedEntry ==
  ASSUME IsCache(cache), NEW k, Cached(k) # {}
  PROVE  Newest(Cached(k)) \in 1 .. Len(cache) /\ cache[Newest(Cached(k))].key = k
<1>1. cache \in Seq(CacheEntry) /\ DOMAIN cache = 1 .. Len(cache)
  BY DEF IsCache
<1>2. PICK x \in 1 .. Len(cache) : cache[x].key = k
  BY <1>1 DEF Cached
<1>3. \A y \in 1 .. Len(cache) : cache[y].key = k => y = x
  BY <1>2 DEF IsCache
<1>4. Cached(k) = {x}
  BY <1>1, <1>2, <1>3 DEF Cached
<1>5. x >= x
  BY <1>2
<1>6. Newest(Cached(k)) = x
  BY <1>4, <1>5 DEF Newest
<1> QED BY <1>2, <1>6

\* Every answer to a submission is backed by the store when it is given.
LEMMA ServeAnswers ==
  ASSUME FullInv, NEW j \in Job, SubmitJob(j) \/ ServeJob(j)
  PROVE  AnswerInv'
<1>0. /\ IInv /\ AnswerInv /\ PathInv /\ FrontInv /\ LedgerInv /\ Sound(mem)
      /\ call[j] \in Call /\ IsCache(cache) /\ CacheHolds(mem, cache)
  BY DEF FullInv, IInv, FrontInv, LedgerInv, AnswerInv
<1>1. CASE SubmitPlain(j) \/ BeginRun(j)
  BY <1>0, <1>1, EnterAnswers, Zenon DEF SubmitPlain, BeginRun
<1>2. CASE SubmitKeyed(j)
  BY <1>0, <1>2, MoveAnswers DEF SubmitKeyed, Stage
<1>3. CASE AcquireKey(j)
  BY <1>0, <1>3, MoveAnswers DEF AcquireKey, Stage
<1>4. CASE ReplayCached(j)
  <2> DEFINE e == cache[Newest(Cached(call[j].key))]
             r == IF e.sig = call[j].sig THEN e.id ELSE "conflict"
  <2>1. Answer(j, r) /\ UNCHANGED <<ledgerVars, runtimeVars, cache>>
    BY <1>4, Zenon DEF ReplayCached
  <2>2. Newest(Cached(call[j].key)) \in 1 .. Len(cache) /\ e.key = call[j].key
    BY <1>0, <1>4, CachedEntry, Zenon DEF ReplayCached
  <2>3. e \in CacheEntry /\ Backed(mem, e.key, e.id, e.sig)
    BY <1>0, <2>2 DEF IsCache, CacheHolds
  <2> HIDE DEF e
  <2>4. mem.jobs[e.id].status = "Succeeded" /\ e.id \in Job
    BY <1>0, <2>3, BackedSucceeded, Zenon DEF CacheEntry
  <2>5. AnswerHolds(mem, call[j], r)
    <3>1. CASE e.sig = call[j].sig
      BY <2>2, <2>3, <2>4, <3>1, Zenon DEF AnswerHolds, is_terminal
    <3>2. CASE e.sig # call[j].sig
      BY <3>2, JobAssumption, Zenon DEF AnswerHolds
    <3> QED BY <3>1, <3>2
  <2>6. r \in Reply
    BY <2>4 DEF Reply
  <2> HIDE DEF r
  <2> QED BY <1>0, <2>1, <2>5, <2>6, OneAnswer
<1>5. CASE ReplayStored(j)
  <2>1. PICK r \in Stored(call[j].key) :
          IF r.sig = call[j].sig
            THEN /\ Answer(j, r.id)
                 /\ cache' = cache_idempotent_submission(r.key, r.id, r.sig)
            ELSE Answer(j, "conflict") /\ UNCHANGED cache
    BY <1>5 DEF ReplayStored
  <2>2. /\ r.key = call[j].key /\ r.key \in Key /\ r.id \in Job /\ r.sig \in Sig
        /\ Backed(mem, r.key, r.id, r.sig)
    BY <1>0, <2>1 DEF Stored, Sound, Good, Store, Receipt, Backed
  <2>3. UNCHANGED <<ledgerVars, runtimeVars>>
    BY <1>5, Zenon DEF ReplayStored
  <2>4. CASE r.sig = call[j].sig
    <3>1. mem.jobs[r.id].status = "Succeeded"
      BY <1>0, <2>2, BackedSucceeded, Zenon
    <3>2. AnswerHolds(mem, call[j], r.id)
      BY <2>2, <2>4, <3>1, Zenon DEF AnswerHolds, is_terminal
    <3>3. CacheHolds(mem, cache')
      BY <1>0, <2>1, <2>2, <2>4, CacheUpdateHolds, Zenon
    <3>4. r.id \in Reply
      BY <2>2, Zenon DEF Reply
    <3> QED BY <1>0, <2>1, <2>3, <2>4, <3>2, <3>3, <3>4, OneAnswer, Zenon
  <2>5. CASE r.sig # call[j].sig
    <3>1. AnswerHolds(mem, call[j], "conflict")
      BY JobAssumption, Zenon DEF AnswerHolds
    <3> QED BY <1>0, <2>1, <2>3, <2>5, <3>1, OneAnswer, Zenon DEF Reply
  <2> QED BY <2>4, <2>5
<1>6. CASE ReturnReceipt(j)
  <2>1. /\ call[j].at = "running" /\ run[j].pc = "ok" /\ Answer(j, j)
        /\ cache' = IF call[j].key # None /\ run[j].job.status = "Succeeded"
                      THEN cache_idempotent_submission(call[j].key, j, call[j].sig)
                      ELSE cache
        /\ UNCHANGED <<ledgerVars, runtimeVars>>
    BY <1>6, Zenon DEF ReturnReceipt
  <2>2. Ended(mem, run[j], j)
    BY <1>0, <2>1, Zenon DEF PathInv, PathOK
  <2>3. /\ run[j].key = call[j].key
        /\ call[j].key # None => run[j].sig = call[j].sig
    BY SMTT(30), <1>0, <2>1 DEF AnswerInv, RunIsOurs
  <2>4. call[j].key # None /\ run[j].job.status = "Succeeded" =>
          Backed(mem, call[j].key, j, call[j].sig)
    BY <2>2, <2>3 DEF Ended
  <2>5. AnswerHolds(mem, call[j], j)
    BY <2>2, <2>4, Zenon DEF AnswerHolds, Ended
  <2>6. call[j].key \in Key \cup {None} /\ call[j].sig \in Sig
    BY <1>0, Zenon DEF Call
  <2>7. CacheHolds(mem, cache')
    <3>1. CASE call[j].key # None /\ run[j].job.status = "Succeeded"
      BY <1>0, <2>1, <2>4, <2>6, <3>1, CacheUpdateHolds, Zenon
    <3>2. CASE ~(call[j].key # None /\ run[j].job.status = "Succeeded")
      BY <1>0, <2>1, <3>2, Zenon
    <3> QED BY <3>1, <3>2, Zenon
  <2> QED BY <1>0, <2>1, <2>5, <2>7, OneAnswer, Zenon DEF Reply
<1>7. CASE ReturnError(j)
  <2>1. AnswerHolds(mem, call[j], "error")
    BY JobAssumption DEF AnswerHolds
  <2> QED BY <1>0, <1>7, <2>1, OneAnswer, Zenon DEF ReturnError, Reply
<1>8. CASE ReleaseKey(j)
  BY <1>0, <1>8, MoveAnswers DEF ReleaseKey, Stage
<1> QED
  BY SMTT(30), <1>1, <1>2, <1>3, <1>4, <1>5, <1>6, <1>7, <1>8 DEF SubmitJob, ServeJob

\* The full invariant holds at the start.
LEMMA InitFull == Init => FullInv
<1> SUFFICES ASSUME Init PROVE FullInv
  OBVIOUS
<1>1. /\ mem = EmptyStore /\ disk = EmptyStore /\ executed = {} /\ cache = << >>
      /\ run = [j \in Job |-> IdleRun] /\ reply = [j \in Job |-> "none"]
  BY DEF Init, LedgerInit, RuntimeInit
<1>2. PathInv
  BY <1>1, Zenon DEF PathInv, PathOK, IdleRun
<1>3. OneReceiptPerKey(mem) /\ OneReceiptPerKey(disk)
  BY <1>1 DEF OneReceiptPerKey, EmptyStore
<1>4. \A j \in Job : call[j].at = "idle"
  BY DEF Init
<1>5. ASSUME NEW j \in Job PROVE RunIsOurs(j) /\ AnswerHolds(mem, call[j], reply[j])
  <2>1. RunIsOurs(j)
    BY <1>4, Zenon DEF RunIsOurs
  <2>2. reply[j] \notin Job
    <3>1. reply[j] = "none"
      BY <1>1, Zenon
    <3> QED BY <3>1, JobAssumption
  <2> QED BY <2>1, <2>2, Zenon DEF AnswerHolds
<1>6. CacheHolds(mem, cache)
  <2>1. \A n \in 1 .. Len(<< >>) : FALSE
    OBVIOUS
  <2> QED BY <1>1, <2>1, Zenon DEF CacheHolds
<1>7. AnswerInv
  BY <1>3, <1>5, <1>6, Zenon DEF AnswerInv
<1> QED BY <1>2, <1>7, InitInv DEF FullInv

\* Every step of the service keeps the full invariant.
LEMMA NextFull ==
  ASSUME FullInv, [Next]_vars
  PROVE  FullInv'
<1>0. /\ IInv /\ IInv' /\ StoreStep /\ RunInv /\ LedgerInv /\ PathInv /\ AnswerInv
      /\ run \in [Job -> Run] /\ call \in [Job -> Call]
  BY NextInv DEF FullInv, IInv, RunInv, FrontInv
<1>1. ASSUME NEW j \in Job, SubmitJob(j) \/ ServeJob(j)
      PROVE  PathInv' /\ AnswerInv'
  <2>1. AnswerInv'
    BY <1>1, ServeAnswers
  <2>2. /\ executed' = executed
        /\ \/ run' = run
           \/ run' = [run EXCEPT ![j] = [IdleRun EXCEPT !.pc = "create", !.key = call[j].key,
                        !.sig = IF call[j].key = None THEN None ELSE call[j].sig]]
    BY <1>1, Zenon DEF SubmitJob, ServeJob, SubmitPlain, SubmitKeyed, AcquireKey, ReplayCached,
                ReplayStored, BeginRun, ReturnReceipt, ReturnError, ReleaseKey, Refuse,
                StartJobRun, StartRun, runtimeVars
  <2>3. \A i \in Job : run'[i] = run[i] \/ run'[i].pc \in {"create", "dead"}
    BY <1>0, <2>2, ZenonT(40) DEF IdleRun
  <2> QED BY <1>0, <2>1, <2>2, <2>3, OthersPathInv
<1>2. ASSUME NEW j \in Job, RunStep(j), UNCHANGED submissionVars
      PROVE  PathInv' /\ AnswerInv'
  <2>1. /\ PathInv' /\ run'[j].key = run[j].key /\ run'[j].sig = run[j].sig
        /\ \A i \in Job : i # j => run'[i] = run[i]
    BY <1>0, <1>2, RunStepPathInv
  <2>2. call' = call /\ cache' = cache /\ reply' = reply
    BY <1>2 DEF submissionVars
  <2>3. ASSUME NEW i \in Job PROVE RunIsOurs(i)'
    <3>1. run'[i].key = run[i].key /\ run'[i].sig = run[i].sig
      BY <2>1
    <3> QED BY <1>0, <2>2, <3>1, Zenon DEF RunIsOurs, AnswerInv
  <2> QED BY <1>0, <2>1, <2>2, <2>3, NoAnswer, Zenon
<1>3. ASSUME UNCHANGED <<run, executed, submissionVars>>
      PROVE  PathInv' /\ AnswerInv'
  <2>1. call' = call /\ cache' = cache /\ reply' = reply /\ run' = run /\ executed' = executed
    BY <1>3 DEF submissionVars
  <2>2. ASSUME NEW i \in Job PROVE RunIsOurs(i)'
    BY <1>0, <2>1, Zenon DEF RunIsOurs, AnswerInv
  <2> QED BY <1>0, <2>1, <2>2, NoAnswer, OthersPathInv
<1>4. ASSUME CrashDaemon
      PROVE  PathInv' /\ AnswerInv'
  <2>1. /\ executed' = executed /\ cache' = << >> /\ reply' = reply
        /\ run' = [j \in Job |-> IF run[j].pc \in {"idle", "ok", "error"} THEN run[j]
                                 ELSE [IdleRun EXCEPT !.pc = "dead"]]
        /\ call' = [j \in Job |-> IF call[j].at = "idle" THEN call[j]
                                  ELSE [call[j] EXCEPT !.at = "done"]]
    BY <1>4 DEF CrashDaemon, Crash
  <2>2. \A i \in Job : run'[i] = run[i] \/ run'[i].pc \in {"create", "dead"}
    BY <2>1 DEF IdleRun
  <2>3. \A i \in Job : /\ call'[i].key = call[i].key /\ call'[i].sig = call[i].sig
                       /\ call'[i].at # "running"
    BY <1>0, <2>1 DEF Call
  <2>4. \A i \in Job : RunIsOurs(i)'
    BY <2>3 DEF RunIsOurs
  <2> QED BY <1>0, <2>1, <2>2, <2>3, <2>4, NoAnswer, OthersPathInv
<1>5. CASE CancelStep /\ UNCHANGED submissionVars
  <2>1. UNCHANGED <<run, executed>>
    BY <1>5, Zenon DEF CancelStep, CancelRead, CancelWrite
  <2> QED BY <1>0, <1>3, <1>5, <2>1 DEF FullInv
<1>6. CASE Restart /\ UNCHANGED submissionVars
  BY <1>0, <1>3, <1>6 DEF Restart, FullInv
<1>7. CASE UNCHANGED vars
  BY <1>0, <1>3, <1>7 DEF vars, runtimeVars, FullInv
<1> QED BY SMTT(30), <1>0, <1>1, <1>2, <1>4, <1>5, <1>6, <1>7 DEF Next, FullInv

-----------------------------------------------------------------------------
(* The theorems.                                                           *)

\* In every reachable state of the service the store and its snapshot are sound,
\* the snapshot has everything the store has, and the local state of every run,
\* cancellation and submission fits where it is.
THEOREM Invariance == Spec => []IInv
<1>1. IInv /\ [Next]_vars => IInv'
  BY NextInv
<1> QED BY InitInv, <1>1, PTL DEF Spec

\* The types hold, and no store or snapshot has more events than the sequence
\* numbers can count (next_event_sequence).
THEOREM TypesHold == Spec => []TypeOK
<1>1. IInv => TypeOK
  <2> SUFFICES ASSUME IInv PROVE TypeOK
    OBVIOUS
  <2>1. /\ mem \in Store /\ disk \in Store
        /\ Len(mem.events) <= MaxSequence /\ Len(disk.events) <= MaxSequence
        /\ seen \in SUBSET [seq : Nat, event : JobEvent]
    BY DEF IInv, LedgerInv, Sound, Good, SeenIsLogged
  <2>2. /\ run \in [Job -> Run] /\ executed \subseteq Job /\ up \in BOOLEAN
        /\ cancels \subseteq [id : Job, job : JobRecord]
    BY DEF IInv, RunInv, CancelInv
  <2>3. SubmissionTypeOK
    BY DEF IInv, FrontInv, IsCache, CacheEntry, SubmissionTypeOK
  <2> QED BY <2>1, <2>2, <2>3 DEF TypeOK
<1> QED BY Invariance, <1>1, PTL

\* Job records are the materialised view of the event log, in memory and in the
\* snapshot, however runs and cancellations interleave and commits fail.
THEOREM RecordsFollowLogHolds == Spec => []RecordsFollowLog
<1>1. IInv => RecordsFollowLog
  BY DEF IInv, LedgerInv, Sound, Good, RecordsFollowLog
<1> QED BY Invariance, <1>1, PTL

\* Every snapshot the daemon can leave behind passes validate_loaded_store.
THEOREM SnapshotLoadsHolds == Spec => []SnapshotLoads
<1>1. IInv => SnapshotLoads
  BY DEF IInv, LedgerInv, Sound, Good, SnapshotLoads
<1> QED BY Invariance, <1>1, PTL

\* What a live subscriber received is in the log on disk, at its sequence number.
THEOREM PublishedIsDurableHolds == Spec => []PublishedIsDurable
<1>1. IInv => PublishedIsDurable
  <2> SUFFICES ASSUME IInv, NEW p \in seen
               PROVE  p.seq \in 1 .. Len(disk.events) /\ disk.events[p.seq] = p.event
    BY SMTT(30) DEF PublishedIsDurable
  <2>1. Len(mem.events) \in Nat /\ Len(disk.events) \in Nat
    BY DEF IInv, LedgerInv, Sound, Good, Store
  <2>2. p.seq \in 1 .. Len(mem.events) /\ mem.events[p.seq] = p.event
    BY DEF IInv, LedgerInv, SeenIsLogged
  <2>3. Len(mem.events) <= Len(disk.events) /\ disk.events[p.seq] = mem.events[p.seq]
    BY <2>2, Zenon DEF IInv, LedgerInv, Extends
  <2> QED BY <2>1, <2>2, <2>3
<1> QED BY Invariance, <1>1, PTL

\* The final commit of a run is all or nothing, in memory and in the snapshot.
THEOREM ResultIsAtomicHolds == Spec => []ResultIsAtomic
<1>1. IInv => ResultIsAtomic
  BY DEF IInv, LedgerInv, Sound, ResultIsAtomic
<1> QED BY Invariance, <1>1, PTL

\* The two events of a cancellation are neighbours at the end of the job's chain.
THEOREM CancellationIsAtomicHolds == Spec => []CancellationIsAtomic
<1>1. IInv => CancellationIsAtomic
  BY DEF IInv, LedgerInv, Sound, CancellationIsAtomic
<1> QED BY Invariance, <1>1, PTL

\* No step, a restart from the snapshot included, takes an event out of the log
\* or changes one.
THEOREM LogOnlyGrowsHolds == Spec => LogOnlyGrows
<1>1. IInv /\ [Next]_vars => /\ Len(mem.events) <= Len(mem'.events)
                            /\ SubSeq(mem'.events, 1, Len(mem.events)) = mem.events
  <2> SUFFICES ASSUME IInv, [Next]_vars
               PROVE  /\ Len(mem.events) <= Len(mem'.events)
                      /\ SubSeq(mem'.events, 1, Len(mem.events)) = mem.events
    OBVIOUS
  <2>1. IInv' /\ Extends(mem, mem')
    BY NextInv, StoreStepInv DEF IInv
  <2> DEFINE s == mem.events
             t == mem'.events
  <2>2. s \in Seq(JobEvent) /\ t \in Seq(JobEvent)
    BY <2>1, Zenon DEF IInv, LedgerInv, Sound, Good, Store
  <2>3. Len(s) <= Len(t) /\ \A i \in 1 .. Len(s) : t[i] = s[i]
    BY <2>1 DEF Extends
  <2> HIDE DEF s, t
  <2>4. Len(s) \in Nat /\ Len(t) \in Nat
    BY <2>2
  <2>5. SubSeq(t, 1, Len(s)) = s
    BY <2>2, <2>3, <2>4
  <2> QED BY <2>3, <2>5 DEF s, t
<1> QED BY Invariance, <1>1, PTL DEF Spec, LogOnlyGrows

\* No step, a restart from the snapshot included, changes the status of a job
\* that the store shows as terminal.
THEOREM TerminalIsFinalHolds == Spec => TerminalIsFinal
<1> DEFINE Final == \A j \in Job : is_terminal(mem.jobs[j].status) =>
                      mem'.jobs[j].status = mem.jobs[j].status
<1>1. IInv /\ [Next]_vars => Final
  <2> SUFFICES ASSUME IInv, [Next]_vars PROVE Final
    OBVIOUS
  <2>1. Extends(mem, mem')
    BY NextInv, StoreStepInv DEF IInv
  <2> QED BY <2>1 DEF Extends
<1> HIDE DEF Final
<1>2. Spec => [][Final]_vars
  BY Invariance, <1>1, PTL DEF Spec
<1> QED BY <1>2 DEF TerminalIsFinal, Final

\* What the ledger holds is consistent for the daemon that wrote it and for the
\* one that starts from its snapshot.
THEOREM LedgerIsSoundHolds == Spec => []LedgerIsSound
<1>1. RecordsFollowLog /\ SnapshotLoads => LedgerIsSound
  BY DEF LedgerIsSound
<1> QED BY RecordsFollowLogHolds, SnapshotLoadsHolds, <1>1, PTL

\* The commits of several events, of a result and of a cancellation, are atomic.
THEOREM CommitsAreAtomicHolds == Spec => []CommitsAreAtomic
<1>1. ResultIsAtomic /\ CancellationIsAtomic => CommitsAreAtomic
  BY DEF CommitsAreAtomic
<1> QED BY ResultIsAtomicHolds, CancellationIsAtomicHolds, <1>1, PTL

\* No step takes an event out of the log or reopens a job that has ended.
THEOREM HistoryIsFinalHolds == Spec => HistoryIsFinal
  BY LogOnlyGrowsHolds, TerminalIsFinalHolds DEF HistoryIsFinal
\* In every reachable state, what runs rely on and what submissions were
\* answered is supported by the store.
THEOREM FullInvariance == Spec => []FullInv
<1>1. FullInv /\ [Next]_vars => FullInv'
  BY NextFull
<1> QED BY InitFull, <1>1, PTL DEF Spec

\* No tool is called before the snapshot on disk holds the allowing decision,
\* the invocation and the events that say so in order, and neither failed
\* commits nor crashes take that away (run_tool_job_with_finalizer).
THEOREM EffectIsAuthorizedHolds == Spec => []EffectIsAuthorized
<1>1. FullInv => EffectIsAuthorized
  <2> SUFFICES ASSUME FullInv, NEW j \in executed
               PROVE  /\ disk.decisions[j] \in {"Allowed", "Audited"}
                      /\ disk.invoked[j]
                      /\ \E a, b, c \in EventChain(disk, j) :
                           /\ a < b /\ b < c
                           /\ disk.events[a].kind = "PolicyDecided"
                           /\ disk.events[b] = StatusChanged(j, "Queued", "Running")
                           /\ disk.events[c].kind = "ToolInvoked"
    BY DEF EffectIsAuthorized
  <2>1. /\ j \in Job /\ mem \in Store /\ disk \in Store /\ Extends(mem, disk)
        /\ Authorized(mem, j)
    BY DEF FullInv, PathInv, IInv, LedgerInv, Sound, Good
  <2>2. Authorized(disk, j)
    BY <2>1, AuthorizedStays
  <2> QED BY <2>2 DEF Authorized, Permitted, DecidedAt, StartedAt, InvokedAt
<1> QED BY FullInvariance, <1>1, PTL

\* What a submission was answered stands on disk: the job has ended, a success
\* for a key has its receipt, all successes for a key are one job and one
\* request, and the cache holds nothing that is not stored (submit_job and
\* cache_idempotent_submission).
THEOREM AnswersStandHolds == Spec => []AnswersStand
<1>1. FullInv => AnswersStand
  <2> SUFFICES ASSUME FullInv PROVE AnswersStand
    OBVIOUS
  <2>1. /\ Extends(mem, disk) /\ IsCache(cache) /\ CacheHolds(mem, cache)
        /\ OneReceiptPerKey(disk) /\ \A j \in Job : AnswerHolds(mem, call[j], reply[j])
    BY DEF FullInv, IInv, FrontInv, LedgerInv, AnswerInv
  <2>2. CacheHolds(disk, cache) /\ \A j \in Job : AnswerHolds(disk, call[j], reply[j])
    BY <2>1, CacheStays, AnswerStays, Zenon
  <2>3. AnswersAreDurable
    BY <2>2 DEF AnswerHolds, Backed, AnswersAreDurable
  <2>4. OneSuccessPerKey
    <3> SUFFICES ASSUME NEW i \in Job, NEW j \in Job,
                        call[i].key = call[j].key, call[i].key # None,
                        reply[i] \in Job, reply[j] \in Job,
                        disk.jobs[reply[i]].status = "Succeeded",
                        disk.jobs[reply[j]].status = "Succeeded"
                 PROVE  reply[i] = reply[j] /\ call[i].sig = call[j].sig
      BY DEF OneSuccessPerKey
    <3>1. PICK r \in disk.receipts :
            r.key = call[i].key /\ r.id = reply[i] /\ r.sig = call[i].sig
      BY <2>2, Zenon DEF AnswerHolds, Backed
    <3>2. PICK q \in disk.receipts :
            q.key = call[j].key /\ q.id = reply[j] /\ q.sig = call[j].sig
      BY <2>2 DEF AnswerHolds, Backed
    <3>3. r = q
      BY <2>1, <3>1, <3>2, Zenon DEF OneReceiptPerKey
    <3> QED BY <3>1, <3>2, <3>3, Zenon
  <2>5. CacheIsBacked
    <3>1. DOMAIN cache = 1 .. Len(cache)
      BY <2>1 DEF IsCache
    <3> QED BY <2>1, <2>2, <3>1, Zenon DEF CacheIsBacked, IsCache, CacheHolds, Backed
  <2> QED BY <2>3, <2>4, <2>5 DEF AnswersStand
<1> QED BY FullInvariance, <1>1, PTL
=============================================================================
