------------------------------ MODULE Records ------------------------------
(***************************************************************************)
(* The records of the SecretaryStore (atelia-core/src/store.rs) and what   *)
(* they refer to.  Where Ledger follows the one trail that a run of the    *)
(* runtime leaves, this module has the whole interface of the store: each  *)
(* operation may name any record, of any repository, and the checks of the *)
(* operation decide.  Startup applies its own checks to the snapshot.      *)
(*                                                                         *)
(* A store is a record of collections, functions from ids to records.      *)
(* Records never change, but for jobs.  Job lifecycles are Ledger's; here  *)
(* a job is queued, is started and succeeds.                               *)
(***************************************************************************)
EXTENDS Integers, Sequences, FiniteSets, Functions, FiniteSetsExt, TLC

CONSTANTS RepositoryId, JobId, PolicyDecisionId, LockDecisionId,
          ToolInvocationId, ToolResultId, AuditRecordId,
          ToolId, Scope,
          LockTimes, \* statuses and times of the lock decisions that are tried
          Keys,      \* idempotency keys
          MaxEvents, \* bound: events of a behaviour
          MaxAppends, \* bound: events that append_job_event stores
          MaxRefs    \* bound: records that such an event names, 2 at most

VARIABLES inner

----------------------------------------------------------------------------
(* Collections.                                                            *)

Empty == [repositories |-> RepositoryId, jobs |-> << >>, policy_decisions |-> << >>,
          lock_decisions |-> << >>, tool_invocations |-> << >>, tool_results |-> << >>,
          audit_records |-> << >>, events |-> << >>, idempotent_submit_jobs |-> << >>]

Has(s, collection, id) == id \in DOMAIN s[collection]

\* insert_record, when the id is free.
Insert(s, collection, id, record) ==
  [s EXCEPT ![collection] = (id :> record) @@ @]

\* A record that is being inserted is visible to the checks of its events.
Pending(s, collection, id, record) ==
  IF Has(s, collection, id) THEN s ELSE Insert(s, collection, id, record)

\* What an event names: its subject, and one record at most of each kind.
Event(subject, refs, kind) == [subject |-> subject, refs |-> refs, kind |-> kind]

Named(ev, type) == {r.id : r \in {x \in ev.refs : x.type = type}}

Ref(type, id) == [type |-> type, id |-> id]

Collection(type) ==
  CASE type = "Job" -> "jobs"
    [] type = "PolicyDecision" -> "policy_decisions"
    [] type = "LockDecision" -> "lock_decisions"
    [] type = "ToolInvocation" -> "tool_invocations"
    [] type = "ToolResult" -> "tool_results"
    [] type = "AuditRecord" -> "audit_records"

Exists(s, ref) ==
  IF ref.type = "Repository" THEN ref.id \in s.repositories ELSE Has(s, Collection(ref.type), ref.id)

\* The invocation that a record is about, if it is about one.
InvocationOf(s, ref) ==
  CASE ref.type = "ToolInvocation" -> {ref.id}
    [] ref.type = "ToolResult" -> {s.tool_results[ref.id].invocation_id}
    [] ref.type = "AuditRecord" -> s.audit_records[ref.id].tool_invocation_id
    [] OTHER -> {}

\* The repository of a stored record.
subject_repository_id(s, ref) ==
  CASE ref.type = "Repository" -> ref.id
    [] ref.type = "ToolResult" ->
         s.tool_invocations[s.tool_results[ref.id].invocation_id].repository_id
    [] OTHER -> s[Collection(ref.type)][ref.id].repository_id

----------------------------------------------------------------------------
(* Events.                                                                 *)

\* Mutant: the subject's repository is used only if no reference gives one.
SubjectUnchecked(s, ev) == Exists(s, ev.subject)

\* The subject exists, in the repository that the references name.
validate_event_subject(s, ev) ==
  /\ Exists(s, ev.subject)
  /\ \A r \in Named(ev, "Repository") : r = subject_repository_id(s, ev.subject)

ensure_subject_ref_matches(ev) ==
  \A r \in ev.refs : r.type = ev.subject.type => r = ev.subject

\* The repository that the references name, or else the subject's, is also
\* that of every other record named.
ensure_event_repository_consistency(s, ev) ==
  LET start == IF Named(ev, "Repository") # {} THEN Named(ev, "Repository")
               ELSE {subject_repository_id(s, ev.subject)}
  IN Cardinality(start \cup {subject_repository_id(s, r) : r \in ev.refs}) = 1

\* The job that a reference implies.
ImpliedJob(s, ref) ==
  (IF ref.type = "Job" THEN {ref.id} ELSE {})
    \cup {s.tool_invocations[i].job_id : i \in InvocationOf(s, ref)}

ensure_event_job_consistency(s, ev) ==
  Cardinality(UNION {ImpliedJob(s, r) :
                r \in ev.refs \cup {x \in {ev.subject} : x.type = "Job"}}) <= 1

ImpliedPolicy(s, ref) ==
  CASE ref.type = "PolicyDecision" -> {ref.id}
    [] ref.type \in {"LockDecision", "AuditRecord"} ->
         {s[Collection(ref.type)][ref.id].policy_decision_id}
    [] OTHER -> {s.tool_invocations[i].policy_decision_id : i \in InvocationOf(s, ref)}

ensure_event_policy_consistency(s, ev) ==
  Cardinality(UNION {ImpliedPolicy(s, r) :
                r \in ev.refs \cup {x \in {ev.subject} : x.type = "PolicyDecision"}}) <= 1

\* A result and an audit record are about the invocation that is named, and
\* about the same one.
ToolResultRefAgrees(s, ev) ==
  \A r, o \in ev.refs :
    r.type = "ToolResult" /\ o.type = "ToolInvocation" => InvocationOf(s, r) = {o.id}

AuditRecordRefAgrees(s, ev) ==
  \A r, o \in ev.refs :
    /\ r.type = "AuditRecord" /\ InvocationOf(s, r) # {}
    /\ o.type \in {"ToolInvocation", "ToolResult"}
    => InvocationOf(s, o) = InvocationOf(s, r)

validate_event_refs(s, ev) ==
  /\ ensure_subject_ref_matches(ev)
  /\ \A r \in ev.refs : Exists(s, r)
  /\ ensure_event_repository_consistency(s, ev)
  /\ ensure_event_job_consistency(s, ev)
  /\ ensure_event_policy_consistency(s, ev)
  /\ ToolResultRefAgrees(s, ev)
  /\ AuditRecordRefAgrees(s, ev)

\* An event has a fresh id: it is its place in the log.
validate_new_job_event(s, ev) == validate_event_subject(s, ev) /\ validate_event_refs(s, ev)

append_event_locked(s, ev) == [s EXCEPT !.events = Append(@, ev)]

\* The repository whose queries find an event: the one it names, or else the
\* one that its subject and all its references have.
event_repository_id(s, ev) ==
  IF Named(ev, "Repository") # {} THEN Named(ev, "Repository")
  ELSE {subject_repository_id(s, r) : r \in ev.refs \cup {ev.subject}}

----------------------------------------------------------------------------
(* Records.                                                                *)

validate_tool_invocation_refs(s, record) ==
  /\ Has(s, "jobs", record.job_id) /\ record.repository_id \in s.repositories
  /\ s.jobs[record.job_id].repository_id = record.repository_id
  /\ Has(s, "policy_decisions", record.policy_decision_id)
  /\ s.policy_decisions[record.policy_decision_id].repository_id = record.repository_id

validate_loaded_tool_result_record(s, record) ==
  /\ Has(s, "tool_invocations", record.invocation_id)
  /\ s.tool_invocations[record.invocation_id].tool_id = record.tool_id

\* An invocation has one result.
validate_tool_result_refs(s, record) ==
  /\ validate_loaded_tool_result_record(s, record)
  /\ \A x \in DOMAIN s.tool_results : s.tool_results[x].invocation_id # record.invocation_id

validate_audit_record_refs(s, record) ==
  /\ record.repository_id \in s.repositories
  /\ Has(s, "policy_decisions", record.policy_decision_id)
  /\ s.policy_decisions[record.policy_decision_id].repository_id = record.repository_id
  /\ \A i \in record.tool_invocation_id :
       /\ Has(s, "tool_invocations", i)
       /\ s.tool_invocations[i].repository_id = record.repository_id
       /\ s.tool_invocations[i].policy_decision_id = record.policy_decision_id

----------------------------------------------------------------------------
(* Lock decisions.                                                         *)

\* A lock that its holder asks for.
LockDecisionNew(r, d, owner, scope, locked_at, expires_at) ==
  [repository_id |-> r, policy_decision_id |-> d, owner |-> owner, locked_scope |-> scope,
   status |-> "Held", locked_at |-> locked_at, expires_at |-> expires_at,
   created_at |-> locked_at, updated_at |-> locked_at, released_at |-> {}, reclaimed_at |-> {}]

validate_lock_decision_timing(record) ==
  /\ record.locked_at < record.expires_at
  /\ record.created_at = record.locked_at
  /\ record.locked_at <= record.updated_at
  /\ record.released_at = {} \/ record.reclaimed_at = {}
  /\ CASE record.status \in {"Held", "Expired"} ->
            record.released_at = {} /\ record.reclaimed_at = {}
       [] record.status = "Released" ->
            /\ record.released_at # {}
            /\ \A t \in record.released_at : record.locked_at <= t /\ t <= record.updated_at
       [] record.status = "Reclaimed" ->
            /\ record.reclaimed_at # {}
            /\ \A t \in record.reclaimed_at : record.expires_at <= t /\ t <= record.updated_at

\* What becomes of a copy of a lock that is reclaimed.
reclaim(record, owner, at) ==
  IF /\ owner = record.owner /\ record.status \in {"Held", "Expired"}
     /\ record.updated_at <= at /\ record.expires_at <= at
  THEN [record EXCEPT !.status = "Reclaimed", !.reclaimed_at = {at}, !.updated_at = at]
  ELSE record

is_active_lock_status(status) == status = "Held"

LockRefsAreValid(s, record) ==
  /\ record.repository_id \in s.repositories
  /\ Has(s, "policy_decisions", record.policy_decision_id)
  /\ s.policy_decisions[record.policy_decision_id].repository_id = record.repository_id
  /\ \A j \in record.owner : Has(s, "jobs", j) /\ s.jobs[j].repository_id = record.repository_id

\* The locks whose scope a new lock may not have.
Conflicting(s, record) ==
  {l \in DOMAIN s.lock_decisions :
     /\ is_active_lock_status(s.lock_decisions[l].status)
     /\ s.lock_decisions[l].repository_id = record.repository_id
     /\ s.lock_decisions[l].locked_scope = record.locked_scope}

----------------------------------------------------------------------------
(* Receipts of submissions that succeeded: the job as it was, the decision, *)
(* the records of its tool if it has one, and its events.                  *)

submit_job_receipt_event_belongs_to_job(s, j, ev) ==
  \/ Ref("Job", j) \in ev.refs \cup {ev.subject}
  \/ \E r \in ev.refs : j \in ImpliedJob(s, r)

EventsOfJob(s, j) ==
  {k \in DOMAIN s.events : submit_job_receipt_event_belongs_to_job(s, j, s.events[k])}

\* The events of the job, of which the one it calls its latest is the last.
expected_submit_job_receipt_events(s, receipt) ==
  LET chain == EventsOfJob(s, receipt.job_id) latest == receipt.job.latest_event_id
  IN IF latest \in chain /\ \A k \in chain : k <= latest THEN {chain} ELSE {}

validate_loaded_submit_job_receipt_lineage(s, receipt) ==
  /\ receipt.job.repository_id = s.policy_decisions[receipt.policy_decision_id].repository_id
  /\ \A t \in receipt.tool :
       LET i == s.tool_invocations[t.invocation] a == s.audit_records[t.audit]
       IN /\ i.job_id = receipt.job_id
          /\ i.policy_decision_id = receipt.policy_decision_id
          /\ a.policy_decision_id = receipt.policy_decision_id

validate_receipt_events(s, receipt) ==
  receipt.events \in expected_submit_job_receipt_events(s, receipt)

validate_loaded_submit_job_receipt(s, receipt) ==
  /\ Has(s, "jobs", receipt.job_id) /\ s.jobs[receipt.job_id] = receipt.job
  /\ Has(s, "policy_decisions", receipt.policy_decision_id)
  /\ \A t \in receipt.tool :
       /\ Has(s, "tool_invocations", t.invocation) /\ Has(s, "tool_results", t.result)
       /\ Has(s, "audit_records", t.audit)
       /\ s.tool_results[t.result].invocation_id = t.invocation
       /\ s.audit_records[t.audit].tool_invocation_id = {t.invocation}
  /\ validate_loaded_submit_job_receipt_lineage(s, receipt)
  /\ validate_receipt_events(s, receipt)

validate_submit_job_idempotency_record(s, receipt) ==
  receipt.job.status = "Succeeded" /\ validate_loaded_submit_job_receipt(s, receipt)

----------------------------------------------------------------------------
(* Startup.                                                                *)

\* Jobs are as old as their events: a job's latest event is about it.
validate_loaded_job_record(s, j) ==
  /\ s.jobs[j].repository_id \in s.repositories
  /\ s.jobs[j].latest_event_id \in DOMAIN s.events
  /\ LET ev == s.events[s.jobs[j].latest_event_id]
     IN Ref("Job", j) \in ev.refs \/ ev.subject.id = j

validate_loaded_job_event_sequence(s) ==
  \A k \in DOMAIN s.events : validate_new_job_event(s, s.events[k])

validate_loaded_store(s) ==
  /\ \A j \in DOMAIN s.jobs : validate_loaded_job_record(s, j)
  /\ \A d \in DOMAIN s.policy_decisions : s.policy_decisions[d].repository_id \in s.repositories
  /\ \A l \in DOMAIN s.lock_decisions :
       /\ validate_lock_decision_timing(s.lock_decisions[l])
       /\ LockRefsAreValid(s, s.lock_decisions[l])
       /\ is_active_lock_status(s.lock_decisions[l].status) =>
            Conflicting(s, s.lock_decisions[l]) = {l}
  /\ \A i \in DOMAIN s.tool_invocations : validate_tool_invocation_refs(s, s.tool_invocations[i])
  /\ \A x \in DOMAIN s.tool_results : validate_loaded_tool_result_record(s, s.tool_results[x])
  /\ IsInjective([x \in DOMAIN s.tool_results |-> s.tool_results[x].invocation_id])
  /\ \A a \in DOMAIN s.audit_records : validate_audit_record_refs(s, s.audit_records[a])
  /\ \A k \in DOMAIN s.idempotent_submit_jobs :
       validate_submit_job_idempotency_record(s, s.idempotent_submit_jobs[k])
  /\ validate_loaded_job_event_sequence(s)

----------------------------------------------------------------------------
(* Operations.  Each stores all of what it stores, or is refused.          *)

Init == inner = Empty

\* The job may be named before it is stored.
create_job_with_initial_event(j, r) ==
  LET job == [repository_id |-> r, status |-> "Queued", latest_event_id |-> Len(inner.events) + 1]
      ev == Event(Ref("Job", j), {Ref("Job", j), Ref("Repository", r)}, "JobSubmitted")
  IN /\ r \in inner.repositories /\ ~Has(inner, "jobs", j)
     /\ validate_new_job_event(Pending(inner, "jobs", j, job), ev)
     /\ inner' = Insert(append_event_locked(inner, ev), "jobs", j, job)

create_policy_decision(d, r) ==
  /\ r \in inner.repositories /\ ~Has(inner, "policy_decisions", d)
  /\ inner' = Insert(inner, "policy_decisions", d, [repository_id |-> r])

create_lock_decision(l, record) ==
  /\ ~Has(inner, "lock_decisions", l)
  /\ validate_lock_decision_timing(record)
  /\ LockRefsAreValid(inner, record)
  /\ is_active_lock_status(record.status) => Conflicting(inner, record) = {}
  /\ inner' = Insert(inner, "lock_decisions", l, record)

create_tool_invocation(i, record) ==
  /\ validate_tool_invocation_refs(inner, record) /\ ~Has(inner, "tool_invocations", i)
  /\ inner' = Insert(inner, "tool_invocations", i, record)

create_tool_result(x, record) ==
  /\ validate_tool_result_refs(inner, record) /\ ~Has(inner, "tool_results", x)
  /\ inner' = Insert(inner, "tool_results", x, record)

create_audit_record(a, record) ==
  /\ validate_audit_record_refs(inner, record) /\ ~Has(inner, "audit_records", a)
  /\ inner' = Insert(inner, "audit_records", a, record)

\* Mutant: the references of an event are not checked.
AppendUnchecked(ev) ==
  /\ validate_event_subject(inner, ev)
  /\ inner' = append_event_locked(inner, ev)

append_job_event(ev) ==
  /\ validate_new_job_event(inner, ev)
  /\ inner' = append_event_locked(inner, ev)

\* An update of a job is told by an event that names the job and its repository.
validate_job_update(s, j, ev) ==
  Has(s, "jobs", j) /\ {Ref("Job", j), Ref("Repository", s.jobs[j].repository_id)} \subseteq ev.refs

UpdateJob(s, j, status) ==
  [s EXCEPT !.jobs[j].status = status, !.jobs[j].latest_event_id = Len(s.events)]

NextStatus(status) == CASE status = "Queued" -> {"Running"}
                        [] status = "Running" -> {"Succeeded"}
                        [] OTHER -> {}

append_job_event_and_update_job(j, status, refs) ==
  LET ev == Event(Ref("Job", j), refs, "JobStatusChanged")
  IN /\ validate_job_update(inner, j, ev) /\ status \in NextStatus(inner.jobs[j].status)
     /\ validate_new_job_event(inner, ev)
     /\ inner' = UpdateJob(append_event_locked(inner, ev), j, status)

\* A key keeps the receipt that it has.
insert_submit_job_idempotency_locked(s, key, receipt) ==
  /\ validate_submit_job_idempotency_record(s, receipt)
  /\ Has(s, "idempotent_submit_jobs", key) => s.idempotent_submit_jobs[key] = receipt

record_submit_job_idempotency(key, receipt) ==
  /\ insert_submit_job_idempotency_locked(inner, key, receipt)
  /\ inner' = Pending(inner, "idempotent_submit_jobs", key, receipt)

\* The last step of a submission: the receipt has the job and the event as they
\* are committed.
append_job_event_and_update_job_with_submit_job_idempotency(j, refs, key, given) ==
  LET ev == Event(Ref("Job", j), refs, "JobStatusChanged")
      done == UpdateJob(append_event_locked(inner, ev), j, "Succeeded")
      receipt == [given EXCEPT !.job = done.jobs[j], !.events = @ \cup {Len(done.events)}]
  IN /\ validate_job_update(inner, j, ev) /\ "Succeeded" \in NextStatus(inner.jobs[j].status)
     /\ validate_new_job_event(inner, ev)
     /\ insert_submit_job_idempotency_locked(done, key, receipt)
     /\ inner' = Pending(done, "idempotent_submit_jobs", key, receipt)

\* The end of a tool: its result, the audit record, and an event for each.
record_tool_result_and_audit_with_events(j, x, result, resultEvent, a, audit, auditEvent) ==
  LET withResult == Pending(inner, "tool_results", x, result)
      withAudit == Pending(withResult, "audit_records", a, audit)
      first == UpdateJob(append_event_locked(withResult, resultEvent), j, inner.jobs[j].status)
      second == append_event_locked(Insert(first, "audit_records", a, audit), auditEvent)
  IN /\ validate_job_update(inner, j, resultEvent) /\ validate_job_update(inner, j, auditEvent)
     /\ validate_tool_result_refs(inner, result)
     /\ validate_audit_record_refs(inner, audit)
     /\ audit.tool_invocation_id \subseteq {result.invocation_id}
     /\ validate_new_job_event(withResult, resultEvent)
     /\ validate_new_job_event(withAudit, auditEvent)
     /\ ~Has(inner, "tool_results", x) /\ ~Has(inner, "audit_records", a)
     /\ inner' = UpdateJob(second, j, inner.jobs[j].status)

----------------------------------------------------------------------------
(* What is asked of the store.                                             *)

RefsOf(type, ids) == {Ref(type, id) : id \in ids}

AnyRef ==
  RefsOf("Repository", RepositoryId) \cup RefsOf("Job", JobId)
    \cup RefsOf("PolicyDecision", PolicyDecisionId) \cup RefsOf("LockDecision", LockDecisionId)
    \cup RefsOf("ToolInvocation", ToolInvocationId) \cup RefsOf("ToolResult", ToolResultId)
    \cup RefsOf("AuditRecord", AuditRecordId)

\* What events name: records of different kinds.
NamedRefs ==
  {s \in {{a, b} : a, b \in AnyRef} \cup {{}} :
     Cardinality({r.type : r \in s}) = Cardinality(s) /\ Cardinality(s) <= MaxRefs}

\* A lock is a job's or, with no job, a process's.
CreateLock ==
  \E l \in LockDecisionId, r \in RepositoryId, d \in PolicyDecisionId,
     owner \in {{}} \cup {{j} : j \in JobId}, scope \in Scope, t \in LockTimes :
    create_lock_decision(l,
      t @@ LockDecisionNew(r, d, owner, scope, t.locked_at, t.expires_at))

CreateTool ==
  \/ \E i \in ToolInvocationId, r \in RepositoryId, j \in JobId, d \in PolicyDecisionId,
        tool \in ToolId :
       create_tool_invocation(i, [repository_id |-> r, job_id |-> j, policy_decision_id |-> d,
                                  tool_id |-> tool])
  \/ \E x \in ToolResultId, i \in ToolInvocationId, tool \in ToolId :
       create_tool_result(x, [invocation_id |-> i, tool_id |-> tool])
  \/ \E a \in AuditRecordId, r \in RepositoryId, d \in PolicyDecisionId,
        i \in {{}} \cup {{n} : n \in ToolInvocationId} :
       create_audit_record(a, [repository_id |-> r, policy_decision_id |-> d,
                               tool_invocation_id |-> i])

RecordTool ==
  \E j \in DOMAIN inner.jobs, x \in ToolResultId, a \in AuditRecordId,
     n, i \in ToolInvocationId, tool \in ToolId, d \in PolicyDecisionId :
    LET r == inner.jobs[j].repository_id
        about == {Ref("Job", j), Ref("Repository", r)}
    IN record_tool_result_and_audit_with_events(j,
         x, [invocation_id |-> n, tool_id |-> tool],
         Event(Ref("ToolResult", x), about \cup {Ref("ToolResult", x)}, "ToolResultRecorded"),
         a, [repository_id |-> r, policy_decision_id |-> d, tool_invocation_id |-> {i}],
         Event(Ref("AuditRecord", a), about \cup {Ref("AuditRecord", a)}, "AuditRecorded"))

\* What a client may offer as the receipt of a job: with the events of the job,
\* of other jobs too, or none.
Receipts(j) ==
  {[job_id |-> j, job |-> inner.jobs[j], policy_decision_id |-> d, tool |-> tool, events |-> events] :
     d \in PolicyDecisionId, events \in {EventsOfJob(inner, j), DOMAIN inner.events, {}},
     tool \in {{}} \cup {{[invocation |-> i, result |-> x, audit |-> a]} :
                         i \in ToolInvocationId, x \in ToolResultId, a \in AuditRecordId}}

UpdateAJob ==
  \E j \in DOMAIN inner.jobs :
    LET refs == {Ref("Job", j), Ref("Repository", inner.jobs[j].repository_id)}
    IN \/ \E status \in {"Running", "Succeeded"} : append_job_event_and_update_job(j, status, refs)
       \/ \E key \in Keys, given \in Receipts(j) :
            append_job_event_and_update_job_with_submit_job_idempotency(j, refs, key, given)

AppendEvent ==
  /\ Cardinality({k \in DOMAIN inner.events : inner.events[k].kind \in {"Message", "LockReclaimed"}})
       < MaxAppends
  /\ \/ \E refs \in NamedRefs, subject \in AnyRef : append_job_event(Event(subject, refs, "Message"))
     \/ \E l \in LockDecisionId :
          append_job_event(Event(Ref("LockDecision", l), {Ref("LockDecision", l)}, "LockReclaimed"))

Next ==
  \/ \E d \in PolicyDecisionId, r \in RepositoryId : create_policy_decision(d, r)
  \/ CreateLock
  \/ CreateTool
  \/ \E key \in Keys, j \in DOMAIN inner.jobs : \E receipt \in Receipts(j) :
       record_submit_job_idempotency(key, receipt)
  \/ /\ Len(inner.events) < MaxEvents
     /\ \/ \E j \in JobId, r \in RepositoryId : create_job_with_initial_event(j, r)
        \/ AppendEvent
        \/ UpdateAJob
  \/ Len(inner.events) < MaxEvents - 1 /\ RecordTool

Spec == Init /\ [][Next]_inner

----------------------------------------------------------------------------
(* Properties.                                                             *)

\* The records that a record refers to.
Links(ref) ==
  IF ref.type = "Repository" THEN {}
  ELSE LET record == inner[Collection(ref.type)][ref.id]
       IN IF ref.type = "ToolResult" THEN {Ref("ToolInvocation", record.invocation_id)}
          ELSE {Ref("Repository", record.repository_id)}
                 \cup (IF ref.type \in {"LockDecision", "ToolInvocation", "AuditRecord"}
                       THEN {Ref("PolicyDecision", record.policy_decision_id)} ELSE {})
                 \cup (CASE ref.type = "ToolInvocation" -> {Ref("Job", record.job_id)}
                         [] ref.type = "LockDecision" -> RefsOf("Job", record.owner)
                         [] ref.type = "AuditRecord" ->
                              RefsOf("ToolInvocation", record.tool_invocation_id)
                         [] OTHER -> {})

Onward(refs) == refs \cup UNION {Links(r) : r \in refs}

\* All that can be reached from a set of records.
Trail(refs) == Onward(Onward(Onward(refs)))

OfType(type, refs) == {r.id : r \in {x \in refs : x.type = type}}

\* Whatever an event names, and whatever that leads to (the invocation of a
\* result, the job of an invocation, the owner of a lock), is of one repository,
\* and event_repository_id, by which every query of events selects, finds that one.
TrailsStayInOneRepository ==
  \A k \in DOMAIN inner.events :
    LET ev == inner.events[k]
        found == event_repository_id(inner, ev)
    IN Cardinality(found) = 1 /\ OfType("Repository", Trail(ev.refs \cup {ev.subject})) = found

\* The references of an event lead to one job at most and to one policy
\* decision at most, however they lead there.  Only the job that owns a lock
\* may be another.
EventsTellOfOneJob ==
  \A k \in DOMAIN inner.events :
    LET refs == inner.events[k].refs
    IN /\ Cardinality(OfType("Job", Trail({r \in refs : r.type # "LockDecision"}))) <= 1
       /\ Cardinality(OfType("PolicyDecision", Trail(refs))) <= 1

\* Every snapshot that an operation commits passes, but for its receipts, the
\* checks of validate_loaded_store: the checks of the operations imply those of
\* the next start.
SnapshotLoads == validate_loaded_store([inner EXCEPT !.idempotent_submit_jobs = << >>])

\* A receipt stops being valid only when an event about its job is stored after
\* it: everything else that a receipt refers to is kept as it was.
OnlyLaterEventsSpoilReceipts ==
  \A key \in DOMAIN inner.idempotent_submit_jobs :
    LET receipt == inner.idempotent_submit_jobs[key]
    IN \/ validate_submit_job_idempotency_record(inner, receipt)
       \/ \E k \in EventsOfJob(inner, receipt.job_id) : k > Max(receipt.events)

\* A lock that LockDecision::reclaim changes is one that the store would take:
\* the rules of the domain type imply those of validate_lock_decision_timing.
ReclaimsAreWellTimed ==
  \A l \in DOMAIN inner.lock_decisions :
    LET lock == inner.lock_decisions[l]
    IN \A owner \in {{}} \cup {{j} : j \in JobId}, at \in 0..4 :
         validate_lock_decision_timing(reclaim(lock, owner, at))

\* An event and its subject are of one repository; its references tell of one job, but for
\* the owner of a lock, and of one decision, whatever records lead to them.
TrailsAreCoherent == TrailsStayInOneRepository /\ EventsTellOfOneJob

\* Whatever the operations accept, the next start accepts, but for receipts that
\* a later event has outrun, and for its refusal they are the only reason.
RecordsLoad == SnapshotLoads /\ OnlyLaterEventsSpoilReceipts /\ ReclaimsAreWellTimed

=============================================================================
