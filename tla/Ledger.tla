------------------------------- MODULE Ledger -------------------------------
(***************************************************************************)
(* The job part of the SecretaryStore of atelia-core/src/store.rs.  A      *)
(* store value is the InMemoryInner struct: the event log and the records  *)
(* that refer to it.  Every operation is an operator from a store value to *)
(* the draft it would commit, with a predicate for the checks that make it *)
(* return an error; `Mutate' is the one way a draft becomes the state.     *)
(*                                                                         *)
(* One run of the runtime creates at most one decision, one invocation,    *)
(* one result and one audit record, all for the job it created, so these   *)
(* collections are indexed by the job.  An event's id is its position in   *)
(* the log.  All jobs belong to one registered repository.                 *)
(***************************************************************************)
EXTENDS Domain, Integers, Sequences, FiniteSets

CONSTANTS
  Job,          \* ids that JobId::new() may return
  Key,          \* idempotency keys
  Sig,          \* request signatures
  MaxSequence,  \* the largest event sequence number (u64::MAX in the code)
  Faults        \* whether commits can fail and the daemon can crash

ASSUME MaxSequenceAssumption == MaxSequence \in Nat
ASSUME FaultsAssumption == Faults \in BOOLEAN

\* An event id that no log position has.
Unrecorded == MaxSequence + 1

JobRecord ==
  [status : JobStatus \cup {Absent}, requested : BOOLEAN,
   policy : PolicyOutcome \cup {None}, started : BOOLEAN, completed : BOOLEAN,
   latest : 0 .. MaxSequence + 1]

JobEvent ==
  [job : Job, kind : JobEventKind, from : JobStatus \cup {None},
   to : JobStatus \cup {None}]

Receipt ==
  [key : Key, id : Job, sig : Sig, job : JobRecord, events : SUBSET Nat]

Store ==
  [events : Seq(JobEvent), jobs : [Job -> JobRecord],
   decisions : [Job -> PolicyOutcome \cup {None}], invoked : [Job -> BOOLEAN],
   results : [Job -> ToolResultStatus \cup {None}], audited : [Job -> BOOLEAN],
   receipts : SUBSET Receipt]

NewJobRecord ==
  [status |-> "Queued", requested |-> FALSE, policy |-> None,
   started |-> FALSE, completed |-> FALSE, latest |-> 0]

EmptyStore ==
  [events |-> << >>,
   jobs |-> [j \in Job |-> [NewJobRecord EXCEPT !.status = Absent]],
   decisions |-> [j \in Job |-> None], invoked |-> [j \in Job |-> FALSE],
   results |-> [j \in Job |-> None], audited |-> [j \in Job |-> FALSE],
   receipts |-> {}]

Event(j, kind) == [job |-> j, kind |-> kind, from |-> None, to |-> None]

StatusChanged(j, from, to) ==
  [job |-> j, kind |-> "JobStatusChanged", from |-> from, to |-> to]

-----------------------------------------------------------------------------
(* Job records and their updates.                                          *)

transition_status(rec, next) ==
  [rec EXCEPT !.status = next,
              !.started = @ \/ next = "Running",
              !.completed = @ \/ is_terminal(next)]

ensure_event_sequence_capacity(s, n) == Len(s.events) + n <= MaxSequence

\* append_event_locked, then the job record with the new event as its latest.
AppendAndUpdate(s, j, rec, ev) ==
  [s EXCEPT !.events = Append(@, ev),
            !.jobs[j] = [rec EXCEPT !.latest = Len(s.events) + 1]]

\* What an event may refer to: the records its kind names must be stored.
validate_new_job_event(s, ev) ==
  /\ s.jobs[ev.job].status # Absent
  /\ ev.kind = "PolicyDecided" => s.decisions[ev.job] # None
  /\ ev.kind = "ToolInvoked" => s.invoked[ev.job]
  /\ ev.kind = "ToolResultRecorded" => s.results[ev.job] # None
  /\ ev.kind = "AuditRecorded" => s.audited[ev.job]

validate_job_lifecycle_update(old, rec, ev) ==
  /\ IF rec.status # old.status
       THEN /\ ev.kind = "JobStatusChanged"
            /\ ev.from = old.status /\ ev.to = rec.status
            /\ can_transition_to(old.status, rec.status)
            /\ rec.started = transition_status(old, rec.status).started
            /\ rec.completed = transition_status(old, rec.status).completed
       ELSE /\ ev.kind # "JobStatusChanged"
            /\ rec.started = old.started /\ rec.completed = old.completed
  /\ rec.status = "Running" => rec.started
  /\ is_terminal(rec.status) <=> rec.completed

validate_job_cancellation_update(old, rec, ev) ==
  IF rec.requested = old.requested
    THEN ev.kind # "CancellationRequested"
    ELSE rec.requested /\ ev.kind = "CancellationRequested"

validate_job_policy_summary_update(old, rec, ev) ==
  rec.policy # old.policy => ev.kind = "PolicyDecided"

validate_job_update_against(old, rec, ev) ==
  /\ validate_job_lifecycle_update(old, rec, ev)
  /\ validate_job_cancellation_update(old, rec, ev)
  /\ validate_job_policy_summary_update(old, rec, ev)

\* The caller's copy must be the one whose latest event is stored.
validate_job_update(s, j, rec, ev) ==
  /\ s.jobs[j].status # Absent
  /\ rec.latest = s.jobs[j].latest
  /\ validate_job_update_against(s.jobs[j], rec, ev)

-----------------------------------------------------------------------------
(* Idempotency receipts.                                                   *)

\* The log positions of the events that belong to a job.
EventChain(s, j) == {i \in 1 .. Len(s.events) : s.events[i].job = j}

validate_submit_job_idempotency_record(s, r) ==
  /\ r.job.status = "Succeeded"
  /\ s.jobs[r.id] = r.job
  /\ s.decisions[r.id] # None
  /\ s.invoked[r.id] /\ s.results[r.id] # None /\ s.audited[r.id]
  /\ r.events = EventChain(s, r.id)
  /\ r.job.latest \in r.events
  /\ \A i \in r.events : i <= r.job.latest

\* A key that already has a receipt keeps it.
insert_submit_job_idempotency_ok(s, r) ==
  /\ validate_submit_job_idempotency_record(s, r)
  /\ \A r2 \in s.receipts : r2.key = r.key => r2 = r

-----------------------------------------------------------------------------
(* The operations that the runtime calls.                                  *)

create_job_with_initial_event_ok(s, j) ==
  /\ s.jobs[j].status = Absent
  /\ ensure_event_sequence_capacity(s, 1)

create_job_with_initial_event(s, j) ==
  AppendAndUpdate(s, j, NewJobRecord, Event(j, "JobSubmitted"))

\* The conflict of a block of a whole root with other repositories is in Repositories.
create_policy_decision_ok(s, j) == s.decisions[j] = None

create_policy_decision(s, j, outcome) == [s EXCEPT !.decisions[j] = outcome]

append_job_event_and_update_job_ok(s, j, rec, ev) ==
  /\ validate_job_update(s, j, rec, ev)
  /\ validate_new_job_event(s, ev)
  /\ ensure_event_sequence_capacity(s, 1)

append_job_event_and_update_job(s, j, rec, ev) == AppendAndUpdate(s, j, rec, ev)

\* Mutant: the first record is not checked against the stored one.
TwoStageUpdateUnchecked(s, j, rec1, ev1, rec2, ev2) ==
  /\ validate_job_update_against(rec1, rec2, ev2)
  /\ validate_new_job_event(s, ev1) /\ validate_new_job_event(s, ev2)
  /\ ensure_event_sequence_capacity(s, 2)

\* Two events in one commit; the second record is checked against the first.
append_job_events_and_update_job_ok(s, j, rec1, ev1, rec2, ev2) ==
  /\ validate_job_update(s, j, rec1, ev1)
  /\ validate_job_update_against(rec1, rec2, ev2)
  /\ validate_new_job_event(s, ev1) /\ validate_new_job_event(s, ev2)
  /\ ensure_event_sequence_capacity(s, 2)

append_job_events_and_update_job(s, j, rec1, ev1, rec2, ev2) ==
  AppendAndUpdate(AppendAndUpdate(s, j, rec1, ev1), j, rec2, ev2)

create_tool_invocation_ok(s, j) ==
  /\ s.jobs[j].status # Absent
  /\ s.decisions[j] # None
  /\ ~s.invoked[j]

create_tool_invocation(s, j) == [s EXCEPT !.invoked[j] = TRUE]

\* Mutant: only successful results are audited.
AuditSuccessOnly(s, j, rec, result) ==
  LET final == transition_status(rec, terminal_status(result))
      recorded == [s EXCEPT !.results[j] = result,
                            !.audited[j] = result = "Succeeded"]
  IN AppendAndUpdate(recorded, j, final, StatusChanged(j, rec.status, final.status))

\* The draft of the final commit before the receipt is inserted: the result
\* and its event, the audit record and its event, the terminal job and event.
WithResultAuditTerminal(s, j, rec, result) ==
  LET final == transition_status(rec, terminal_status(result))
      recorded == [s EXCEPT !.results[j] = result, !.audited[j] = TRUE]
      s1 == AppendAndUpdate(recorded, j, rec, Event(j, "ToolResultRecorded"))
      s2 == AppendAndUpdate(s1, j, rec, Event(j, "AuditRecorded"))
  IN AppendAndUpdate(s2, j, final, StatusChanged(j, rec.status, final.status))

\* The receipt of a successful run, with the events the caller collected and
\* the three of the final commit, which the store replaces by its own copies.
FinalReceipt(s, j, key, sig, draft, trail) ==
  [key |-> key, id |-> j, sig |-> sig, job |-> draft.jobs[j],
   events |-> trail \cup ((Len(s.events) + 1) .. (Len(s.events) + 3))]

\* The finalizer makes a receipt for a key, and only for a successful run.
HasReceipt(result, key) == key # None /\ result = "Succeeded"

record_tool_result_audit_terminal_ok(s, j, rec, result, key, sig, trail) ==
  LET final == transition_status(rec, terminal_status(result))
      draft == WithResultAuditTerminal(s, j, rec, result)
  IN /\ validate_job_update(s, j, rec, Event(j, "ToolResultRecorded"))
     /\ validate_job_update(s, j, rec, Event(j, "AuditRecorded"))
     /\ s.invoked[j] /\ s.results[j] = None /\ ~s.audited[j]
     /\ s.decisions[j] # None
     /\ ensure_event_sequence_capacity(s, 3)
     /\ can_transition_to(rec.status, final.status)
     /\ validate_job_update_against(rec, final,
          StatusChanged(j, rec.status, final.status))
     /\ HasReceipt(result, key) =>
          insert_submit_job_idempotency_ok(draft,
            FinalReceipt(s, j, key, sig, draft, trail))

record_tool_result_audit_terminal(s, j, rec, result, key, sig, trail) ==
  LET draft == WithResultAuditTerminal(s, j, rec, result)
      receipt == FinalReceipt(s, j, key, sig, draft, trail)
  IN [draft EXCEPT !.receipts =
        @ \cup (IF HasReceipt(result, key) THEN {receipt} ELSE {})]

-----------------------------------------------------------------------------
(* Loading the snapshot when the daemon starts.                            *)

validate_loaded_job_record(s, j) ==
  LET rec == s.jobs[j]
  IN /\ rec.status = "Running" => rec.started
     /\ is_terminal(rec.status) <=> rec.completed
     /\ rec.latest # 0 => /\ rec.latest \in 1 .. Len(s.events)
                          /\ s.events[rec.latest].job = j

validate_loaded_store(s) ==
  /\ \A j \in Job :
       /\ s.jobs[j].status # Absent => validate_loaded_job_record(s, j)
       /\ s.invoked[j] => s.jobs[j].status # Absent /\ s.decisions[j] # None
       /\ s.results[j] # None => s.invoked[j]
       /\ s.audited[j] => s.decisions[j] # None /\ s.invoked[j]
  /\ \A r \in s.receipts : validate_submit_job_idempotency_record(s, r)
  /\ \A i \in 1 .. Len(s.events) : validate_new_job_event(s, s.events[i])

-----------------------------------------------------------------------------
(* What the records of a store say about its log.                          *)

StatusChanges(s, j) ==
  {i \in EventChain(s, j) : s.events[i].kind = "JobStatusChanged"}

LatestIsLast(s, j) ==
  /\ s.jobs[j].latest \in EventChain(s, j)
  /\ \A i \in EventChain(s, j) : i <= s.jobs[j].latest

\* The status after the changes up to a log position.
StatusIsLogged(s, j) ==
  \/ s.jobs[j].status = "Queued" /\ StatusChanges(s, j) = {}
  \/ \E i \in StatusChanges(s, j) :
       /\ s.events[i].to = s.jobs[j].status
       /\ \A n \in StatusChanges(s, j) : n <= i

ChangesAreLinked(s, j) ==
  \A n \in StatusChanges(s, j) :
    /\ can_transition_to(s.events[n].from, s.events[n].to)
    /\ \/ /\ s.events[n].from = "Queued"
          /\ \A i \in StatusChanges(s, j) : i >= n
       \/ \E i \in StatusChanges(s, j) :
            /\ i < n /\ s.events[i].to = s.events[n].from
            /\ \A m \in StatusChanges(s, j) : m <= i \/ m >= n

RecordsMatchLog(s) ==
  \A j \in Job :
    IF s.jobs[j].status = Absent
      THEN EventChain(s, j) = {}
      ELSE LatestIsLast(s, j) /\ StatusIsLogged(s, j) /\ ChangesAreLinked(s, j)

\* Result, audit record and terminal status belong to one commit.
ResultsAreAtomic(s) ==
  \A j \in Job :
    /\ s.results[j] # None <=> s.audited[j]
    /\ s.results[j] # None => s.jobs[j].status = terminal_status(s.results[j])
    /\ s.jobs[j].status = "Succeeded" => s.results[j] # None

\* So do the request to cancel and the cancellation.
CanceledInOneCommit(s, j) ==
  LET n == s.jobs[j].latest
  IN /\ s.jobs[j].status = "Canceled" /\ s.results[j] = None
     /\ n > 1
     /\ s.events[n - 1] = Event(j, "CancellationRequested")
     /\ s.events[n].kind = "JobStatusChanged" /\ s.events[n].job = j

CancellationsAreAtomic(s) ==
  \A j \in Job : s.jobs[j].requested => CanceledInOneCommit(s, j)

-----------------------------------------------------------------------------
(* The store of a running daemon and its snapshot on disk.                 *)

VARIABLES
  mem,    \* the InMemoryInner behind the store's mutex
  disk,   \* the durable snapshot
  seen    \* the events published to live subscribers, over all restarts

ledgerVars == <<mem, disk, seen>>

LedgerInit == mem = EmptyStore /\ disk = EmptyStore /\ seen = {}

\* Mutant: the events are published before the snapshot is written.
RejectAfterPublish(ok, draft) ==
  /\ \/ ~ok /\ disk' = disk /\ seen' = seen
     \/ /\ ok /\ Faults /\ disk' \in {disk, draft}
        /\ seen' = seen \cup {[seq |-> i, event |-> draft.events[i]] :
                              i \in (Len(mem.events) + 1) .. Len(draft.events)}
  /\ UNCHANGED mem

\* mutate and mutate_with_published_events, under the store's mutex: a draft
\* that passes its checks is persisted, then committed, then its new events
\* are published.  A failed write leaves the snapshot or, when only the sync
\* of the directory after the rename fails, replaces it; memory is untouched.
Commit(ok, draft) ==
  /\ ok
  /\ mem' = draft /\ disk' = draft
  /\ seen' = seen \cup {[seq |-> i, event |-> draft.events[i]] :
                         i \in (Len(mem.events) + 1) .. Len(draft.events)}

Reject(ok, draft) ==
  /\ \/ ~ok /\ disk' = disk
     \/ ok /\ Faults /\ disk' \in {disk, draft}
  /\ UNCHANGED <<mem, seen>>
=============================================================================
