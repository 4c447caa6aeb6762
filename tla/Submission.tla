----------------------------- MODULE Submission -----------------------------
(***************************************************************************)
(* SecretaryService::submit_job of ateliad/src/service.rs over the runtime *)
(* and its ledger.  Each submission is a request thread of the daemon that *)
(* runs at most one job, named after it.  A submission with an idempotency *)
(* key holds that key's lock from the lookup of earlier receipts to the    *)
(* caching of its own; the lock is the mutex that module KeyLocks          *)
(* implements.                                                             *)
(***************************************************************************)
EXTENDS JobRuntime

CONSTANTS
  CacheLimit,   \* IDEMPOTENT_SUBMISSION_CACHE_LIMIT
  Requests      \* the requests that clients make: an optional key, a signature

ASSUME CacheLimitAssumption == CacheLimit \in Nat \ {0}
ASSUME RequestsAssumption == Requests \subseteq [key : Key \cup {None}, sig : Sig]
ASSUME KeyAssumption == None \notin Key
\* The answers that are no receipt are not taken for one.
ASSUME JobAssumption == Job \cap {"none", "error", "conflict"} = {}

VARIABLES
  call,    \* the submissions: where they are and what they asked for
  owner,   \* the submission that holds each key's lock
  cache,   \* idempotent_submissions, the oldest entry first
  reply    \* what each submission was answered

Locks == INSTANCE KeyMutex WITH Proc <- Job

submissionVars == <<call, owner, cache, reply>>

vars == <<ledgerVars, runtimeVars, submissionVars>>

Stage == {"idle", "locking", "lookup", "running", "release", "done"}

Reply == Job \cup {"none", "error", "conflict"}

Call == [at : Stage, key : Key \cup {None}, sig : Sig]

SubmissionTypeOK ==
  /\ call \in [Job -> Call]
  /\ owner \in [Key -> Job \cup {None}]
  /\ cache \in Seq([key : Key, id : Job, sig : Sig])
  /\ reply \in [Job -> Reply]

Init ==
  /\ LedgerInit
  /\ RuntimeInit
  /\ \E req \in [Job -> Requests] :
       call = [j \in Job |-> [at |-> "idle", key |-> req[j].key, sig |-> req[j].sig]]
  /\ Locks!Init
  /\ cache = << >>
  /\ reply = [j \in Job |-> "none"]

GoToStage(j, at) == call' = [call EXCEPT ![j].at = at]

\* The submission leaves with an answer, through the release of its key.
Answer(j, r) ==
  /\ reply' = [reply EXCEPT ![j] = r]
  /\ GoToStage(j, IF call[j].key = None THEN "done" ELSE "release")

\* The positions of a key in the cache, of which the newest one answers.
Cached(k) == {n \in DOMAIN cache : cache[n].key = k}

Stored(k) == {r \in mem.receipts : r.key = k}

Newest(positions) == CHOOSE n \in positions : \A m \in positions : n >= m

Oldest(positions) == CHOOSE n \in positions : \A m \in positions : n <= m

WithoutAt(c, n) == SubSeq(c, 1, n - 1) \o SubSeq(c, n + 1, Len(c))

cache_idempotent_submission(k, id, sig) ==
  LET others == IF Cached(k) = {} THEN cache ELSE WithoutAt(cache, Oldest(Cached(k)))
      kept == IF Len(others) >= CacheLimit THEN Tail(others) ELSE others
  IN Append(kept, [key |-> k, id |-> id, sig |-> sig])

-----------------------------------------------------------------------------
\* A request that is out of its scope, or whose arguments the runtime refuses,
\* is answered with an error before there is a job.
Refuse(j) == Answer(j, "error") /\ UNCHANGED <<ledgerVars, runtimeVars>>

StartJobRun(j) ==
  /\ StartRun(j, call[j].key, IF call[j].key = None THEN None ELSE call[j].sig)
  /\ GoToStage(j, "running")
  /\ UNCHANGED reply

\* A submission without a key goes straight to the runtime.
SubmitPlain(j) ==
  /\ up
  /\ call[j].at = "idle" /\ call[j].key = None
  /\ Refuse(j) \/ StartJobRun(j)
  /\ UNCHANGED <<owner, cache>>

\* A keyed one is refused, or goes on to wait for its key.
SubmitKeyed(j) ==
  /\ up
  /\ call[j].at = "idle" /\ call[j].key # None
  /\ \/ GoToStage(j, "locking") /\ UNCHANGED reply
     \/ GoToStage(j, "done") /\ reply' = [reply EXCEPT ![j] = "error"]
  /\ UNCHANGED <<ledgerVars, runtimeVars, owner, cache>>

AcquireKey(j) ==
  /\ call[j].at = "locking"
  /\ Locks!Acquire(j, call[j].key)
  /\ GoToStage(j, "lookup")
  /\ UNCHANGED <<ledgerVars, runtimeVars, cache, reply>>

\* The cache answers a key it holds, whether or not the request is the same.
ReplayCached(j) ==
  /\ call[j].at = "lookup"
  /\ Cached(call[j].key) # {}
  /\ LET e == cache[Newest(Cached(call[j].key))]
     IN Answer(j, IF e.sig = call[j].sig THEN e.id ELSE "conflict")
  /\ UNCHANGED <<ledgerVars, runtimeVars, owner, cache>>

\* Then the stored receipt does, and enters the cache when it is returned.
ReplayStored(j) ==
  /\ call[j].at = "lookup"
  /\ Cached(call[j].key) = {}
  /\ \E r \in Stored(call[j].key) :
       IF r.sig = call[j].sig
         THEN /\ Answer(j, r.id)
              /\ cache' = cache_idempotent_submission(r.key, r.id, r.sig)
         ELSE Answer(j, "conflict") /\ UNCHANGED cache
  /\ UNCHANGED <<ledgerVars, runtimeVars, owner>>

\* A new key starts a run.
BeginRun(j) ==
  /\ call[j].at = "lookup"
  /\ Cached(call[j].key) = {} /\ Stored(call[j].key) = {}
  /\ Refuse(j) \/ StartJobRun(j)
  /\ UNCHANGED <<owner, cache>>

\* The runtime returned a receipt: only a succeeded one is cached.
ReturnReceipt(j) ==
  /\ call[j].at = "running" /\ run[j].pc = "ok"
  /\ Answer(j, j)
  /\ cache' = IF call[j].key # None /\ run[j].job.status = "Succeeded"
                THEN cache_idempotent_submission(call[j].key, j, call[j].sig)
                ELSE cache
  /\ UNCHANGED <<ledgerVars, runtimeVars, owner>>

ReturnError(j) ==
  /\ call[j].at = "running" /\ run[j].pc = "error"
  /\ Answer(j, "error")
  /\ UNCHANGED <<ledgerVars, runtimeVars, owner, cache>>

\* Mutant: an error returns past the release of the key.
ReleaseUnlessError(j) ==
  /\ call[j].at = "release"
  /\ IF reply[j] = "error" THEN UNCHANGED owner
                           ELSE Locks!Release(j, call[j].key)
  /\ GoToStage(j, "done")
  /\ UNCHANGED <<ledgerVars, runtimeVars, cache, reply>>

ReleaseKey(j) ==
  /\ call[j].at = "release"
  /\ Locks!Release(j, call[j].key)
  /\ GoToStage(j, "done")
  /\ UNCHANGED <<ledgerVars, runtimeVars, cache, reply>>

-----------------------------------------------------------------------------
CrashDaemon ==
  /\ Crash
  /\ call' = [j \in Job |-> IF call[j].at = "idle" THEN call[j]
                            ELSE [call[j] EXCEPT !.at = "done"]]
  /\ owner' = [k \in Key |-> None]
  /\ cache' = << >>
  /\ UNCHANGED reply

SubmitJob(j) == SubmitPlain(j) \/ SubmitKeyed(j)

ServeJob(j) ==
  \/ AcquireKey(j) \/ ReplayCached(j) \/ ReplayStored(j) \/ BeginRun(j)
  \/ ReturnReceipt(j) \/ ReturnError(j) \/ ReleaseKey(j)

Next ==
  \/ \E j \in Job : SubmitJob(j) \/ ServeJob(j)
  \/ \E j \in Job : RunStep(j) /\ UNCHANGED submissionVars
  \/ CancelStep /\ UNCHANGED submissionVars
  \/ CrashDaemon
  \/ Restart /\ UNCHANGED submissionVars

Spec == Init /\ [][Next]_vars

\* The threads of the daemon keep running: a submission that has been made, and
\* a run that has been started, take their next step unless a lock stops them.
Fairness ==
  \A j \in Job :
    /\ WF_vars(RunStep(j) /\ UNCHANGED submissionVars)
    /\ WF_vars(ServeJob(j))

FairSpec == Spec /\ Fairness

-----------------------------------------------------------------------------
(* Properties.                                                             *)

TypeOK ==
  /\ mem \in Store /\ disk \in Store
  /\ Len(mem.events) <= MaxSequence /\ Len(disk.events) <= MaxSequence
  /\ seen \in SUBSET [seq : Nat, event : JobEvent]
  /\ run \in [Job -> Run]
  /\ executed \subseteq Job
  /\ cancels \subseteq [id : Job, job : JobRecord]
  /\ up \in BOOLEAN
  /\ SubmissionTypeOK

\* Job records are the materialised view of the event log, in memory and in the
\* snapshot: a job's latest event is its last one in the log, its status is the
\* target of its last status change, and every status change starts from the
\* status that the one before it left (append_job_event_and_update_job and the
\* two multi-event commits).
RecordsFollowLog == RecordsMatchLog(mem) /\ RecordsMatchLog(disk)

\* Whatever has been written, by any prefix of any interleaving of runs and
\* cancellations and with any failed commit, passes validate_loaded_store: the
\* daemon starts again.
SnapshotLoads == validate_loaded_store(disk)

\* An event that a live subscriber received keeps its sequence number and its
\* content in the log on disk, across failed commits, crashes and restarts
\* (mutate_with_published_events publishes after it persists).
PublishedIsDurable ==
  \A p \in seen : /\ p.seq \in 1 .. Len(disk.events)
                  /\ disk.events[p.seq] = p.event

\* When a tool is called, the snapshot already holds an allowing decision, the
\* invocation, and the events that say so, in order: decided, running, invoked.
EffectIsAuthorized ==
  \A j \in executed :
    /\ disk.decisions[j] \in {"Allowed", "Audited"}
    /\ disk.invoked[j]
    /\ \E a, b, c \in EventChain(disk, j) :
         /\ a < b /\ b < c
         /\ disk.events[a].kind = "PolicyDecided"
         /\ disk.events[b] = StatusChanged(j, "Queued", "Running")
         /\ disk.events[c].kind = "ToolInvoked"

\* The final commit is all or nothing: a result is stored exactly when its audit
\* record is, the job then has the status of the result, and no job succeeds
\* without a result.
ResultIsAtomic == ResultsAreAtomic(mem) /\ ResultsAreAtomic(disk)

\* A cancellation request and the cancellation are one step of the log: the two
\* events are neighbours, nothing of the job follows them, and the job has no
\* tool result (append_job_events_and_update_job against the final commit).
CancellationIsAtomic == CancellationsAreAtomic(mem) /\ CancellationsAreAtomic(disk)

\* What a submission was answered stays true on disk: the job it names is
\* terminal, and if it succeeded for a key, the key's receipt is stored.
AnswersAreDurable ==
  \A j \in Job : reply[j] \in Job =>
    /\ is_terminal(disk.jobs[reply[j]].status)
    /\ call[j].key # None /\ disk.jobs[reply[j]].status = "Succeeded" =>
         \E r \in disk.receipts : r.key = call[j].key /\ r.id = reply[j]

\* All successful answers for a key name one job, and answer one request: before
\* and after restarts, from the cache, the store or a run.
OneSuccessPerKey ==
  \A i, j \in Job :
    /\ call[i].key = call[j].key /\ call[i].key # None
    /\ reply[i] \in Job /\ reply[j] \in Job
    /\ disk.jobs[reply[i]].status = "Succeeded"
    /\ disk.jobs[reply[j]].status = "Succeeded"
    => reply[i] = reply[j] /\ call[i].sig = call[j].sig

\* The cache never says more than the ledger: it stays within its limit, holds a
\* key once, and each entry has its receipt in the snapshot.
CacheIsBacked ==
  /\ Len(cache) <= CacheLimit
  /\ \A m, n \in DOMAIN cache : cache[m].key = cache[n].key => m = n
  /\ \A n \in DOMAIN cache : \E r \in disk.receipts :
       r.key = cache[n].key /\ r.id = cache[n].id /\ r.sig = cache[n].sig

\* A result with its audit record and final status, and a request to cancel
\* with the cancellation, are commits of several events: of either there is all
\* or nothing, in memory and in the snapshot.
CommitsAreAtomic == ResultIsAtomic /\ CancellationIsAtomic

\* What a submission was answered stands: it is on disk, repeated for the same
\* request and key and refused to another, and the cache says no more than that.
AnswersStand == AnswersAreDurable /\ OneSuccessPerKey /\ CacheIsBacked

\* What the ledger holds makes sense to the daemon that wrote it and to the one
\* that starts from it (append_event_locked, validate_loaded_store).
LedgerIsSound == RecordsFollowLog /\ SnapshotLoads

\* The log of the running daemon only grows, restarts included.
LogOnlyGrows ==
  [][/\ Len(mem.events) <= Len(mem'.events)
     /\ SubSeq(mem'.events, 1, Len(mem.events)) = mem.events]_vars

\* A job that the daemon has shown as terminal never has another status, even
\* after a crash right behind the commit (domain.rs can_transition_to).
TerminalIsFinal ==
  [][\A j \in Job : is_terminal(mem.jobs[j].status) =>
       mem'.jobs[j].status = mem.jobs[j].status]_vars

\* History is not rewritten, by late writers, failed commits or restarts: events
\* stay in the log and jobs that have ended stay ended.
HistoryIsFinal == LogOnlyGrows /\ TerminalIsFinal

\* Every submission is answered, or lost in a crash: no submission waits for
\* ever for a key lock, however the commits of its holder fail.
EverySubmissionEnds == \A j \in Job : call[j].at = "locking" ~> call[j].at = "done"

\* When no commit fails and the daemon does not crash, a job that was created
\* reaches a terminal status.
JobsSettle ==
  \A j \in Job : mem.jobs[j].status = "Queued" ~> is_terminal(mem.jobs[j].status)

-----------------------------------------------------------------------------
(* What the documents say and the code does not do.                        *)

\* docs/execution-semantics.md:150 "Every tool invocation creates: invocation
\* record; canonical result; ...; audit record for effects": once the run of a
\* tool that was called has ended, its result and audit record are stored.
InvocationIsAudited ==
  \A j \in executed : run[j].pc \in {"ok", "error"} =>
    mem.results[j] # None /\ mem.audited[j]

\* docs/protocol-contract.md:310 "retries must not create duplicate semantic
\* effects": of the submissions that repeat one request under one key, at most
\* one has its tool succeed.
RetriesRunOnce ==
  \A i, j \in executed :
    /\ call[i].key = call[j].key /\ call[i].key # None
    /\ call[i].sig = call[j].sig
    /\ run[i].result = "Succeeded" /\ run[j].result = "Succeeded"
    => i = j
=============================================================================
