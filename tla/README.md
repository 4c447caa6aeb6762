# TLA+ models of the Atelia Secretary daemon

Models of `ateliad` and `atelia-core`, checked by TLC on small instances and
proved with TLAPS where a property should hold for every instance. Every
definition that stands for code names its lines in `PROJECT.json` ("map"); the
hazards listed there name the line where each one bites and the properties that
would notice.

## The system and its modules

A client sends a request over HTTP. The transport admits it, parses it and
calls the service under a read lock. A submitted job is taken through policy,
tool and audit one store commit at a time; each commit is written to one durable
snapshot, published to watchers, and may be raced by cancellations, failed
writes, crashes and retries. Around that path are the repositories and packages
that a job may use, the tools themselves, the artifacts and settings of their
output, and what clients read of all this while it changes.

```
Domain ─ Ledger ─ JobRuntime ─ Submission ─ MCSubmission
   └ JobClock                     └ KeyMutex (INSTANCE)
Transport ─ MCDaemon
DaemonParts ─┘ └ INSTANCE KeyLocks, Startup, ScopeLock
Filesystem ─ FileTools, ReadTools, Repositories, SubmitRequest, ArtifactPaths
Manifest ─ Extensions ─ Authoring

LedgerProofs ─ JobRuntimeProofs ─ SubmissionProofs      JobClockProofs
LockProofs   DaemonProofs   ArtifactsFileProofs ─ ArtifactsProofs
```

| Part of the system | Module | State and actions |
|---|---|---|
| Job records (`domain.rs`) | `Domain`, `JobClock` | Statuses and their transitions. `JobClock` has one job with its times, the run that drives it and cancellations, under a clock that may show anything. |
| Job ledger (`store.rs`) | `Ledger` | A store value is a record with the fields of `InMemoryInner`. Each operation is a pair: `op_ok(s, ...)` for the checks that make it return an error, `op(s, ...)` for its draft. `Commit` and `Reject` are `mutate`: draft, persist, commit, publish, under the store's mutex. `mem` is memory, `disk` the snapshot, `seen` what subscribers were given. |
| The rest of the store | `Records`, `MigrationLock` | Every operation that creates a record or an event, for any repository, job and decision, and the validation of the next start; the schema migrations and the lock among daemons whose clocks disagree. |
| Tool job runtime (`runtime.rs`) | `JobRuntime` | One record per run with its program counter and its *copy* of the job. One action per store operation, each with the branch of the `?` that ends the run; `ExecuteTool` is outside the store. `CancelRead` and `CancelWrite` are the halves of `cancel_job`. `Crash` loses all but the snapshot; `Restart` loads it if it validates. |
| Submission (`service.rs`) | `Submission`, `KeyLocks`, `KeyMutex` | A thread per submission: refusal, wait for the key, cache, ledger, run, caching, release. `KeyMutex` is the mutex it relies on, `KeyLocks` what the code has instead: a map of `Arc<Mutex<()>>`, made by the first user and removed by the one that finds itself the last. |
| What a request may ask | `SubmitRequest` | From HTTP body to tool, arguments, scope and the signature by which a retry is recognised. |
| Live watch | `LiveWatch` | One watch: subscription, cutoff, scan in batches, forwarder, bounded channel, response stream. |
| Pages, replays, status | `Queries`, `RepositoryPages` | Walks through jobs, events and repositories while they change; who cancelled a job. |
| Repositories and policy | `Repositories` | A registration reads its lists one after the other, then the store checks again; policy decisions meanwhile; directories come and go. `PolicyEngine::evaluate` and its precedence. |
| Package registry | `Manifest`, `Extensions`, `Authoring` | Validation of manifests; install, update, rollback, disable, enable, remove, blocklist, publication and service calls as draft, audit record, persist, install; the RPC layer's authoring flow. |
| Artifact store (`artifacts.rs`) | `Artifacts`, `ScopeLock`, `ArtifactPaths` | Spills with roll-back, expiry and retention one system call at a time, with errors and crashes; the lock of a scope's index in its Unix, Windows and fallback builds; paths after the store was moved or linked. |
| Output | `ToolOutput`, `Settings` | Bounding, spilling and rendering of a result; overrides by scope, migration of legacy settings, history. |
| Tools (`tools.rs`) | `Filesystem`, `FileTools`, `ReadTools`, `TextWindow`, `ProcessTool` | The directory tree and canonicalisation; write, patch, delete and move one system call per step, with lock files, other programs and crashes; list, stat, read, diff, search; text windows; a child process with helpers, capture threads and deadlines. |
| HTTP server and start | `Transport`, `Startup` | The table of routes, the middleware, body, time-out, read lock and shutdown; the session token file that starting daemons share. |

`DaemonParts` names the three daemon parts that have no state in common and
states what each promises, so that runs and proofs speak of the same
definitions. Each `MC...` module puts several parts, or several sets of bounds of
one part, side by side: a behaviour chooses its `part` in the initial state and
follows it alone, because the parts share no state. Definitions under a comment
that starts with "Mutant" are variants of the definition after them with a
plausible mistake. They show that a property notices it and are used by nothing
else.

Points where the models read differently from what one may expect of the code:

- One run creates at most one decision, invocation, result and audit record, so
  `Ledger` indexes these collections by job; an event id is a log position.
- The daemon never sets `artifact_spillover`, never runs expiry of artifacts,
  never calls `acquire_schema_migration_lock`, and never sets the policy inputs
  "broad" and "registered". They are modelled as the library's callers may use
  them. `check_policy` stores nothing. `set_stopping` changes a reported status
  only.
- Through RPC no package is ever accepted or rejected by the registry, so a
  listing with `discovery_only` is empty and official visibility can not be
  prepared. Block entries of kind `vulnerability_id` are refused.
- Pages of repositories are offsets into a list sorted by random id: a walk may
  show a record twice and misses none that was there at its start. A page of jobs
  with a status filter may pass over a job whose status changes (`store.rs:766`).
- A crash between an artifact's file and its row leaves a file without a row, and
  in the fallback build of the scope lock it leaves the lock file. After the store
  was moved and configured anew without a link, expiry marks rows and deletes no
  files; files of a scope linked out of the root are never deleted.
- After a restart the requester of a cancellation is lost. `LockDecision::reclaim`
  changes a copy that nobody stores.

## Runs

`tlc -workers 2 -config <cfg> <module>`. States are distinct states.

| Run | Checks | Instance, and why it is enough |
|---|---|---|
| `submission` | `LedgerIsSound`, `PublishedIsDurable`, `EffectIsAuthorized`, `AnswersStand`, `CommitsAreAtomic`, `HistoryIsFinal` | Two submissions of one key with equal or different requests, a cancellation per job, any commit may fail, any number of crashes: a submission, its retry and a crash between them is the smallest case with every actor. Two more sets of bounds: no keys, up to the end of the sequence numbers (inside a commit of two and of three events); more keys than the cache of one has room for. 283,000 states. |
| `submission_ends` | `EverySubmissionEnds`, `CalmJobsSettle` | The second submission waits for the first, whose commits may fail and whose daemon may crash; a set without faults for the jobs themselves. 19,000 states. |
| `daemon` | `MapIsCollected`, `IsKeyMutex`, `SessionIsShared`, `CallsMatchAnswers`, `ImplementsGuard`, `RequestsAndShutdownEnd`, `LocksAreHadAgain` | Three threads, two keys, four allocations: one waits, one holds, one removes, and there is a fresh allocation left. Two daemons with four starts and two faults. Three threads at a scope lock with two tries and three inodes. Two clients with three requests against the shutdown; and every route with every kind of request. 352,000 states. |
| `records` | `OneHolder`, `MigrationsAreFenced`, `TrailsAreCoherent`, `RecordsLoad` | Two leaders, three records, clocks of three values that step back and tie; two repositories with two of everything, so that every record can be named from the wrong one. 223,000 states. |
| `reading` | `StoredTimesLoad`, `StoppedJobsEnd`, `WatchIsExact`, `EventsArrive`, `ReadsAreExact`, `SettingsAreCoherent` | A clock that shows five times and is set five times; a watch whose ring, channel and batch all overflow; walks of several pages over a ledger that grows, with restarts; settings stored in every legacy order. 413,000 states. |
| `output` | `StoreIsConsistent`, `AnswersTellTheResult`, `OverdueAreDeleted`, `PathsKeepTheirArtifact` | Two actors, two scopes, two ids, spills of two fields, one error and one crash: a roll-back meets another actor's spill of the same scope, and a retention run fails between tombstone and deletion. Budgets below and above the sizes of fields, line limits from one on and around each section. 146,000 states. |
| `packages` | `AcceptedChangesCommit`, `AuthorsAreToldTheTruth`, `RegistryIsSafe`, `RegistryTellsItsState` | Seven sets of packages and requests: three versions for a rollback chain, a second publisher, services between two packages, blocks with a malformed id, manifests with one thing wrong each, failed writes and restarts. 42,000 states. |
| `tools` | `FileCallsAreSafe`, `ReadsAreFaithful`, `ProcessIsAccountedFor`, `EveryCallEnds` | Two calls on trees of one or two directories with links, with failures, crashes and other programs; entries exchanged between any two steps of a read or search; a command with failing system calls and one helper that stays or leaves, hands over or is collected, and a group number that another process gets; texts with multi-byte characters at every limit. 306,000 states. |
| `requests` | `RepositoriesAreSound`, `RequestsAreUnderstood`, `ListsAreComplete` | Two registrations whose roots meet, are moved or are linked, with a decision between their checks; pages of one and of two; requests with each kind of capability, scope, path and argument. 424,000 states. |

Three runs end in a violation; each states what a document or test of the
repository says (`findings` has the quotes):

- `unaudited_tool`: `InvocationIsAudited`. A tool that ran may leave neither a
  result nor an audit record: its output is refused, or a cancellation commits
  while it runs and the final commit is stale.
- `repeated_effect`: `RetriesRunOnce`. The receipt that answers a retry is
  written with the result. When that commit fails after the tool succeeded, a
  retry under the same key runs the tool again.
- `spillover_stalls`: `JobsSettle` with artifact spillover. When the second
  rendering refuses a spilled output, the run's copy of the job already names an
  event that was never stored, so the commit that should fail the job is refused
  as stale and the job stays `Running`.

`CHECK_DEADLOCK FALSE` everywhere: a behaviour ends when the clients have nothing
more to ask and the bounds on requests, faults and records are used up.

**Bounds.** Counters of faults, crashes, starts, requests, ids and sequence
numbers are capped in the guards by the constants named `Max...`. Symmetry is
used in `submission` and `records` only, which check no liveness.

**Fairness.** A thread or task that can go on goes on, because the OS and tokio
schedule it; nothing that a client, an operator or a fault does is fair.

- `Submission`: weak fairness of each run and of each submission that was made.
  The key's mutex is not assumed fair: each submission is made once, so those
  before it in any order are finitely many.
- `JobClock`: of the run and of a cancellation that was asked for.
- `LiveWatch`: of the publisher, of opening, of the forwarder and of the response
  stream (a connected client reads); none of commits or disconnection.
- `Transport`: of answering, of the request time-out, of granting the lock, of the
  shutdown and of the listener. A watch ends only with its client, so clients of
  watches are assumed to disconnect in the end.
- `ScopeLock`: of taking or retrying the lock and of dropping the guard.
- `FileTools`, `ReadTools`, `ProcessTool`: of each call's next step, and of
  deadlines and capture threads. `MCTools` writes it out as explicit enabledness
  (`MayGo`) and moves (`Moved`).
- `RepositoryPages`: a client that walks goes on walking.
- `Artifacts`: none; `OverdueAreDeleted` is conditional on retention runs that
  are completed again and again.

## Where documents and code differ

Beside the three runs above, modelling met these differences. The models follow
the code, and no property claims the contrary: where a property would, its formula
states the exception and nothing wider.

- `extensions.rs:2501`: an update with new permissions needs no new approval;
  `docs/extensions-runtime.md:436` says it does.
- `extensions.rs:1960`: `validate` accepts a version that `install` refuses because
  the rollback chain leads to it; the comment says "the same preflight checks".
- `tools.rs:4000`: a file renamed over the name between comparison and unlink is
  deleted and the call succeeds; the comment at 3959 says that is detected.
- `extensions.rs:2696`, `2721` and `2921`, the audit record, refuse what the registry has
  accepted before: a commit that is blank or has white space around it, an update of
  a package that is not installed, a block (`extensions.rs:1829`) of a malformed
  package id. `AcceptedChangesCommit` says that these are all.
- `tools.rs:2320`: after a time-out the capture may stop at its limit without
  saying that output was cut, and so may bytes that come after the poll that ends it
  (`tools.rs:2296`); only the status tells (`CutByTimeout`). `tools.rs:3221`: blank
  lines at the start of a window vanish, although they are counted as lines.
  `docs/execution-semantics.md:157` says truncation must be visible.
- `tools.rs:3244`: a line cut by the character limit is not held to the byte limit.
- `tools.rs:3368`: search opens a file by its resolved path again, and list and stat
  use it again too: what was exchanged after the resolution is followed, also out of
  the repository. Only read and diff look at the opened file (`tools.rs:251`).
- `tools.rs:2747`, `2769`, `2780` and `2797` signal the group by its number after the
  child was reaped, when the number may be another process's. The first three ask
  nobody. The last looks first (`tools.rs:2556`), and is misled by a process that
  started in the jiffy of the exit or after the look. A helper that was started after
  the exit, or any helper when the cutoff could not be read, is left running.
  `StrangersAreSpared` and `HelpersAreStopped` allow these cases and no other.
- `main.rs:97`: the shutdown waits for open watches without a limit.
- `store.rs:1692`: an ended migration lock can hide a held one of the same or an
  earlier time.
- `store.rs:839`: an event for a job with a receipt is accepted and the next start
  refuses the snapshot; `store.rs:1168`: storing a reclaim event frees no lock.
- `settings.rs:221`: legacy settings of equal depth are migrated in stored order: a
  tool's settings off the workspace that stand before those in the workspace lose the
  fields in which the two agreed (`MigratedTooEarly`);
  `service.rs:844`: settings and their history are lost at a restart.
- `tool_output.rs:265`: with one line allowed, the notice displaces the status;
  `tool_output.rs:748`: the approval state is hidden at the default verbosity.
- `rpc.rs:2455`: "verified registry" is also said of packages not in the trust
  index; `rpc.rs:2349`: publishing is offered for a blocked package.
- `runtime.rs:938`: a canceled job keeps the cancellation state "requested".

## Proofs

`tlapm <module>` checks each module on its own; no step is left without proof.
Properties in parentheses are those that a run checks on a small instance.

**LockProofs**, key locks: for any number of threads, keys and allocations,
`MutualExclusionHolds`, `ClonesAreCurrentHolds`, `MapIsCollectedHolds`
(`MapIsCollected`) and `Refinement` (`IsKeyMutex`). The invariant `KeysInv` adds
that a thread has a clone exactly between fetch and drop, that a mutex is held
exactly by a thread that is inside with it, and that two keys never share an
allocation; without the last a clean-up of one key could free another's mutex.

**LockProofs**, migration locks: `OneHolderAlways` (`OneHolder`, and that the
records load), `FencedAlways` (`MigrationsAreFenced`), `EndOnceAlways`. `Sound`
says that records are well-formed and at most one is held; every operation first
expires what its caller's time makes expire, and what then remains held is what
an acquisition is refused for.

**LockProofs**, scope lock: `IndexExclusionHolds` and `IndexRefinement`
(`ImplementsGuard`), for each of the three builds. With kernel locks everyone
who is not idle has open the one file that the name leads to, which is never
removed; in the fallback build the existence of the file is the lock.

**DaemonProofs**, transport: `CallsMatchAnswersHold` (`CallsMatchAnswers`). What a
request went through follows from its step and from the answer it waits with:
before its answer it has made no call, one that waits for the lock has passed
token, route and body, and every other answer it may wait with is a refusal. A
client is in the queue of the lock at most once and only while it waits; without
that, a time-out that takes it out of the queue could leave a second place by
which a call is made for an answered request. The table of routes is used as it
stands in the source: every route of the table is known to the router.

**DaemonProofs**, start: `SessionIsSharedHolds` (`SessionIsShared`). Deletions of
the token file number its epochs. A daemon is settled once it has created the
file or read a whole token from it. Settled daemons of the current epoch have the
file's token, from its creation on and not only when it is written, and settled
daemons of one epoch agree, which is what is left to know once it is deleted.

**LedgerProofs**: `CommitsAreSound`. `Sound(s)` says that the store is well-typed,
within the sequence numbers, that records match the log, that it passes
`validate_loaded_store`, and that results and cancellations are atomic. Every
operation, with its checks, takes a sound store to a sound one that `Extends` it:
the log is a prefix, terminal jobs, decisions, invocations, results and receipts
stay. A job with a receipt is terminal, so no append lengthens the chain a
receipt lists; that is why a snapshot with receipts keeps loading.

**JobRuntimeProofs**: every step of a run or a cancellation, whatever its outcome,
is a `StoreStep`: nothing changes, or the store commits an operation, or only the
snapshot is replaced by such a draft, or the snapshot is loaded. Needed for it:
what a run's program counter says of its copy of the job.

**SubmissionProofs**: `IInv` is soundness of `mem` and `disk`,
`Extends(mem, disk)`, that published events are in the log of `mem`, and the
facts about runs, cancellations and the cache. `Extends(mem, disk)` is what makes
failed writes and restarts harmless: whatever the daemon has shown is in the
snapshot it will load. From it: `TypesHold`, `LedgerIsSoundHolds`
(`LedgerIsSound`), `PublishedIsDurableHolds` (`PublishedIsDurable`),
`CommitsAreAtomicHolds` (`CommitsAreAtomic`) and, for steps, `HistoryIsFinalHolds`
(`HistoryIsFinal`). `PathInv` adds what the store holds when a run has come so
far, and `AnswerInv` that a key has one receipt and that each answer and each
cache entry is backed by a stored one; both are kept by whatever `Extends` the
store. From them: `EffectIsAuthorizedHolds` (`EffectIsAuthorized`) and
`AnswersStandHolds` (`AnswersStand`). The key's mutex is not used: two receipts
for a key are already refused by the store.

**JobClockProofs**: `TimesAlwaysLoad` (`StoredTimesLoad`) and `RulesAlwaysAgree`,
under every clock. The run's copy is the stored job unless another update, with a
later event, came between, and then the store refuses the run's.

**ArtifactsFileProofs**, **ArtifactsProofs**: `StoreIsConsistentHolds`
(`StoreIsConsistent`), with `LookupsAreScopedHolds` as its last conjunct. The
invariant says of each actor what it owns: the ids it has drawn and neither
answered nor given up. They are nobody else's, so what a roll-back removes was
never answered. Who has a scope's lock has read the index that is there, so the
rows it writes back lose nobody's; an id has one row in the whole store. `CalmInv`
adds, while there was no crash and at most one error, that a file without a row
or a row without a file is one that an operation still has to deal with.

**Assumptions**, all named in the modules and evaluated by TLC in the runs:
bounds are natural numbers, the cache limit, the tries and the inodes are not
zero; requests have the fields their module gives them; `None`, `"main"` and the
answers that are no receipt are no key, client or job; time-outs are natural
numbers. `Artifacts` and `JobClock` need none.

**Model-checked only**, and why:

- Liveness (`EverySubmissionEnds`, `CalmJobsSettle`, `RequestsAndShutdownEnd`,
  `LocksAreHadAgain`, `StoppedJobsEnd`, `EventsArrive`, `OverdueAreDeleted`,
  `EveryCallEnds`, `ListsAreComplete`) is out of the prover's reach, and so is
  `ENABLED`.
- Properties of what a recursion or fold computes for every input would need
  induction over data, which the installed provers can not do: `WatchIsExact`
  (filters of a sequence), `ReadsAreExact`, `SettingsAreCoherent` and
  `AnswersTellTheResult` (folds), `PathsKeepTheirArtifact`, `FileCallsAreSafe`,
  `ReadsAreFaithful` and `RequestsAreUnderstood` (walks of a path).
  `RepositoriesAreSound` needs that canonicalising a canonical root returns it,
  which is one of these.
- `TrailsAreCoherent`, `RecordsLoad`, `AcceptedChangesCommit`,
  `AuthorsAreToldTheTruth`, `RegistryIsSafe`, `RegistryTellsItsState` and
  `ProcessIsAccountedFor` have no proof yet. `RecordsLoad` and the package
  registry also rest on chains (of events, of previous versions) of any length.

## Not modelled

- JSON and HTTP encodings, labels, wording and error texts, health and status
  answers, `list_repertoire_entries`, `EchoTool`, summaries of arguments.
- Titles, notes and the consent flag of authoring; counts of expiration reports.
- The legacy snapshot schema, poisoned mutexes, the directory helpers of the
  session token, creation of temporary capture files, and the refusals of file
  tools on other systems than Unix.
- In `SubmitRequest`, the parts of the signature that are taken as they are:
  requester, repository, message and route keys.
- In `Ledger`, the conflict of a root-scoped block with other repositories; it is in
  `Repositories`.
- In `Records`, events whose subject is an invocation, result, audit record or
  lock are compared with their refs by repository only, as in the code.
