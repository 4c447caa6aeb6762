-------------------------- MODULE JobRuntimeProofs --------------------------
(***************************************************************************)
(* What every step of the runtime does to the store, for any number of     *)
(* jobs, keys and events.  A step either leaves the store and its snapshot *)
(* alone, or commits, or replaces only the snapshot by a draft made from   *)
(* the store, or loads the snapshot.  So what every commit preserves       *)
(* (LedgerProofs) holds of both, and the snapshot never lacks what the     *)
(* store has.                                                              *)
(***************************************************************************)
EXTENDS JobRuntime, LedgerProofs

\* What the local state of a run says about its copy of the job.
RunOK(r) ==
  /\ r \in Run
  /\ r.key # None => r.sig \in Sig
  /\ r.pc \in {"decide", "policy", "block", "start"} => r.job.status = "Queued"
  /\ r.pc \in {"invoke", "invoked", "execute", "finish", "fail"} => r.job.status = "Running"
  /\ r.pc \in {"policy", "block", "start"} => r.outcome \in PolicyOutcome
  /\ r.pc = "finish" => r.result \in ToolResultStatus

RunInv == run \in [Job -> Run] /\ \A j \in Job : RunOK(run[j])

\* A cancellation starts from a copy of a job that still ran.
CancelInv ==
  /\ cancels \subseteq [id : Job, job : JobRecord]
  /\ \A c \in cancels : c.job.status \in Live

\* What has been published is in the log of the store.
SeenIsLogged ==
  /\ seen \subseteq [seq : Nat, event : JobEvent]
  /\ \A p \in seen : p.seq \in 1 .. Len(mem.events) /\ mem.events[p.seq] = p.event

LedgerInv == Sound(mem) /\ Sound(disk) /\ Extends(mem, disk) /\ SeenIsLogged

\* The effect of a step on the store, its snapshot and the subscribers.
StoreStep ==
  \/ UNCHANGED <<mem, disk, seen>>
  \/ UNCHANGED <<mem, seen>> /\ LedgerOp(mem, disk')
  \/ /\ LedgerOp(mem, mem') /\ disk' = mem'
     /\ seen' = seen \cup {[seq |-> i, event |-> mem'.events[i]] :
                           i \in (Len(mem.events) + 1) .. Len(mem'.events)}
  \/ mem' = disk /\ UNCHANGED <<disk, seen>>

-----------------------------------------------------------------------------
\* A commit attempt of an operation of the ledger is a step of the store.
LEMMA CommitOrReject ==
  ASSUME NEW ok, NEW draft, ok => LedgerOp(mem, draft),
         Commit(ok, draft) \/ Reject(ok, draft)
  PROVE  StoreStep
  BY DEF Commit, Reject, StoreStep

\* Loading, losing and replacing stores keeps what every commit keeps.
LEMMA StoreStepInv == LedgerInv /\ StoreStep => LedgerInv' /\ Extends(mem, mem')
<1> SUFFICES ASSUME LedgerInv, StoreStep PROVE LedgerInv' /\ Extends(mem, mem')
  OBVIOUS
<1>1. mem \in Store /\ disk \in Store
  BY DEF LedgerInv, Sound, Good
<1>2. CASE UNCHANGED <<mem, disk, seen>>
  BY <1>1, <1>2, ExtendsReflexive DEF LedgerInv, SeenIsLogged
<1>3. CASE UNCHANGED <<mem, seen>> /\ LedgerOp(mem, disk')
  BY <1>1, <1>3, CommitsAreSound, ExtendsReflexive DEF LedgerInv, SeenIsLogged
<1>4. CASE /\ LedgerOp(mem, mem') /\ disk' = mem'
           /\ seen' = seen \cup {[seq |-> i, event |-> mem'.events[i]] :
                                 i \in (Len(mem.events) + 1) .. Len(mem'.events)}
  <2>1. Sound(mem') /\ Extends(mem, mem')
    BY <1>4, CommitsAreSound DEF LedgerInv
  <2>2. mem' \in Store /\ Len(mem.events) \in Nat /\ Len(mem'.events) \in Nat
    BY <1>1, <2>1 DEF Sound, Good, Store
  <2>3. SeenIsLogged'
    <3> SUFFICES ASSUME NEW p \in seen'
                 PROVE  /\ p \in [seq : Nat, event : JobEvent]
                        /\ p.seq \in 1 .. Len(mem'.events) /\ mem'.events[p.seq] = p.event
      BY DEF SeenIsLogged
    <3>1. CASE p \in seen
      BY <2>1, <2>2, <3>1 DEF LedgerInv, SeenIsLogged, Extends
    <3>2. CASE p \notin seen
      <4>1. PICK i \in (Len(mem.events) + 1) .. Len(mem'.events) :
              p = [seq |-> i, event |-> mem'.events[i]]
        BY <1>4, <3>2
      <4>2. mem'.events \in Seq(JobEvent) /\ i \in 1 .. Len(mem'.events) /\ i \in Nat
        BY <2>2, <4>1 DEF Store
      <4>3. mem'.events[i] \in JobEvent
        BY <4>2
      <4> QED BY <4>1, <4>2, <4>3
    <3> QED BY <3>1, <3>2
  <2> QED BY <1>4, <2>1, <2>2, <2>3, ExtendsReflexive DEF LedgerInv
<1>5. CASE mem' = disk /\ UNCHANGED <<disk, seen>>
  <2>1. SeenIsLogged'
    <3> SUFFICES ASSUME NEW p \in seen
                 PROVE  p.seq \in 1 .. Len(disk.events) /\ disk.events[p.seq] = p.event
      BY <1>5 DEF LedgerInv, SeenIsLogged
    <3> QED BY <1>1, SMTT(30) DEF LedgerInv, SeenIsLogged, Extends, Store
  <2> QED BY <1>1, <1>5, <2>1, ExtendsReflexive DEF LedgerInv
<1> QED BY <1>2, <1>3, <1>4, <1>5 DEF StoreStep

-----------------------------------------------------------------------------
(* The steps of a run.                                                     *)

\* A step that replaces the local state of one run.
LEMMA OneRunChanges ==
  ASSUME RunInv, NEW j \in Job, NEW r, RunOK(r), run' = [run EXCEPT ![j] = r]
  PROVE  RunInv'
  BY DEF RunInv, RunOK

\* The end of a run with an error.
LEMMA ReturnErrInv ==
  ASSUME RunInv, NEW j \in Job, ReturnErr(j)
  PROVE  RunInv'
<1>1. run[j] \in Run /\ (run[j].key # None => run[j].sig \in Sig)
  BY DEF RunInv, RunOK
<1>2. RunOK([run[j] EXCEPT !.pc = "error"])
  BY <1>1 DEF RunOK, Run, Pc
<1>3. run' = [run EXCEPT ![j] = [run[j] EXCEPT !.pc = "error"]]
  BY DEF ReturnErr, GoTo, RunInv
<1> QED BY <1>2, <1>3, OneRunChanges, Zenon

\* An append of the runtime is a commit of the ledger, and the copy of the job
\* becomes the stored record.
LEMMA AppendStepInv ==
  ASSUME RunInv, LedgerInv, NEW j \in Job, NEW at, NEW next \in Pc,
         NEW rec \in JobRecord, NEW ev \in JobEvent,
         AppendStep(j, at, next, rec, ev),
         ev.job = j, ev.kind # "CancellationRequested", rec.status # "Succeeded",
         ev.kind # "JobStatusChanged" => rec.status \in Live,
         next # "finish",
         next \in {"decide", "policy", "block", "start"} => rec.status = "Queued",
         next \in {"policy", "block", "start"} => run[j].outcome \in PolicyOutcome,
         next \in {"invoke", "invoked", "execute", "fail"} => rec.status = "Running"
  PROVE  StoreStep /\ RunInv'
<1> DEFINE ok == append_job_event_and_update_job_ok(mem, j, rec, ev)
           draft == append_job_event_and_update_job(mem, j, rec, ev)
<1>1. ok => AppendOp(mem, draft)
  BY DEF AppendOp
<1>2. Commit(ok, draft) \/ Reject(ok, draft)
  BY DEF AppendStep
<1>3. StoreStep
  BY <1>1, <1>2, CommitOrReject DEF LedgerOp
<1>4. CASE Reject(ok, draft) /\ ReturnErr(j)
  BY <1>3, <1>4, ReturnErrInv
<1>5. CASE /\ Commit(ok, draft)
           /\ run' = [run EXCEPT ![j].pc = next, ![j].job = draft.jobs[j],
                                 ![j].trail = @ \cup {Len(draft.events)}]
  <2>1. mem \in Store /\ Len(mem.events) + 1 <= MaxSequence
    <3>1. ok
      BY <1>5 DEF Commit
    <3> QED BY <3>1 DEF LedgerInv, Sound, Good, append_job_event_and_update_job_ok,
                        ensure_event_sequence_capacity
  <2>2. draft \in Store /\ Appends(mem, draft, j, rec, ev)
    BY <2>1, AppendFacts DEF append_job_event_and_update_job
  <2> HIDE DEF draft
  <2>3. draft.jobs[j] \in JobRecord /\ draft.jobs[j].status = rec.status
        /\ Len(draft.events) \in Nat
    <3>1. /\ mem.jobs \in [Job -> JobRecord] /\ draft.jobs \in [Job -> JobRecord]
          /\ draft.jobs = [mem.jobs EXCEPT ![j] = [rec EXCEPT !.latest = Len(mem.events) + 1]]
          /\ draft.events \in Seq(JobEvent)
      BY <2>1, <2>2, Zenon DEF Appends, Store
    <3>2. draft.jobs[j] = [rec EXCEPT !.latest = Len(mem.events) + 1]
      BY <3>1
    <3>3. draft.jobs[j].status = rec.status
      BY <3>2 DEF JobRecord
    <3> QED BY <3>1, <3>3
  <2> DEFINE r == [run[j] EXCEPT !.pc = next, !.job = draft.jobs[j],
                                 !.trail = @ \cup {Len(draft.events)}]
  <2>4. run[j] \in Run /\ RunOK(run[j])
    BY DEF RunInv
  <2>5. RunOK(r)
    BY <2>3, <2>4, ZenonT(40) DEF RunOK, Run
  <2>6. run' = [run EXCEPT ![j] = r]
    BY <1>5, Zenon DEF RunInv
  <2> QED BY <1>3, <2>5, <2>6, OneRunChanges, Zenon
<1> QED BY <1>3, <1>4, <1>5 DEF AppendStep

\* A status change of the runtime is such an append.
LEMMA TransitionStepInv ==
  ASSUME RunInv, LedgerInv, NEW j \in Job, NEW at \in Pc, NEW next \in Pc, NEW status \in JobStatus,
         TransitionStep(j, at, next, status),
         run[j].job.status \in Live, status # "Succeeded",
         next \in {"ok", "error"} \/ (next = "invoke" /\ status = "Running")
  PROVE  StoreStep /\ RunInv'
<1> DEFINE rec == transition_status(run[j].job, status)
           ev == StatusChanged(j, run[j].job.status, status)
<1>1. run[j].job \in JobRecord
  BY DEF RunInv, RunOK, Run
<1>2. rec \in JobRecord /\ rec.status = status
  BY <1>1, ZenonT(40) DEF transition_status, JobRecord, is_terminal
<1>3. ev \in JobEvent /\ ev.job = j /\ ev.kind = "JobStatusChanged"
  BY DEF StatusChanged, JobEvent, JobEventKind, Live, JobStatus
<1>4. AppendStep(j, at, next, rec, ev)
  BY DEF TransitionStep
<1> HIDE DEF rec, ev
<1> QED BY <1>2, <1>3, <1>4, AppendStepInv

\* create_job_with_initial_event
LEMMA CreateJobInv ==
  ASSUME RunInv, LedgerInv, NEW j \in Job, CreateJob(j)
  PROVE  StoreStep /\ RunInv'
<1> DEFINE ok == create_job_with_initial_event_ok(mem, j)
           draft == create_job_with_initial_event(mem, j)
<1>1. ok => CreateJobOp(mem, draft)
  BY DEF CreateJobOp
<1>2. StoreStep
  BY <1>1, CommitOrReject DEF CreateJob, LedgerOp
<1>3. CASE Reject(ok, draft) /\ ReturnErr(j)
  BY <1>2, <1>3, ReturnErrInv
<1>4. CASE /\ Commit(ok, draft)
           /\ run' = [run EXCEPT ![j].pc = "decide", ![j].job = draft.jobs[j],
                                 ![j].trail = {Len(draft.events)}]
  <2>1. ok /\ mem \in Store /\ Len(mem.events) + 1 <= MaxSequence
    BY <1>4 DEF LedgerInv, Sound, Good, Commit, create_job_with_initial_event_ok,
                ensure_event_sequence_capacity
  <2>2. Sound(draft)
    BY <1>1, <2>1, CommitsAreSound DEF LedgerInv, LedgerOp
  <2>3. draft.jobs[j] = [NewJobRecord EXCEPT !.latest = Len(mem.events) + 1]
    BY <2>1 DEF create_job_with_initial_event, AppendAndUpdate, Store
  <2>4. draft.jobs[j].status = "Queued"
    BY <2>3 DEF NewJobRecord
  <2> HIDE DEF draft
  <2>5. draft.jobs[j] \in JobRecord /\ Len(draft.events) \in Nat
    BY <2>2 DEF Sound, Good, Store
  <2> DEFINE r == [run[j] EXCEPT !.pc = "decide", !.job = draft.jobs[j],
                                 !.trail = {Len(draft.events)}]
  <2>6. RunOK(r)
    BY ZenonT(40), <2>4, <2>5 DEF RunInv, RunOK, Run, Pc
  <2>7. run' = [run EXCEPT ![j] = r]
    BY <1>4, Zenon DEF RunInv
  <2> QED BY <1>2, <2>6, <2>7, OneRunChanges, Zenon
<1> QED BY <1>3, <1>4 DEF CreateJob

\* create_policy_decision
LEMMA DecidePolicyInv ==
  ASSUME RunInv, LedgerInv, NEW j \in Job, DecidePolicy(j)
  PROVE  StoreStep /\ RunInv'
<1>1. PICK outcome \in Outcomes :
        LET ok == create_policy_decision_ok(mem, j)
            draft == create_policy_decision(mem, j, outcome)
        IN /\ run[j].pc = "decide"
           /\ \/ /\ Commit(ok, draft)
                 /\ run' = [run EXCEPT ![j].pc = "policy", ![j].outcome = outcome]
              \/ Reject(ok, draft) /\ ReturnErr(j)
  BY DEF DecidePolicy
<1> DEFINE ok == create_policy_decision_ok(mem, j)
           draft == create_policy_decision(mem, j, outcome)
<1>2. outcome \in PolicyOutcome
  BY OutcomesAssumption
<1>3. ok => DecideOp(mem, draft)
  BY <1>2 DEF DecideOp
<1>4. StoreStep
  BY <1>1, <1>3, CommitOrReject DEF LedgerOp
<1>5. CASE Reject(ok, draft) /\ ReturnErr(j)
  BY <1>4, <1>5, ReturnErrInv
<1>6. CASE run' = [run EXCEPT ![j].pc = "policy", ![j].outcome = outcome]
  <2> DEFINE r == [run[j] EXCEPT !.pc = "policy", !.outcome = outcome]
  <2>1. RunOK(r)
    BY ZenonT(40), <1>1, <1>2 DEF RunInv, RunOK, Run, Pc
  <2>2. run' = [run EXCEPT ![j] = r]
    BY <1>6, Zenon DEF RunInv
  <2> QED BY <1>4, <2>1, <2>2, OneRunChanges, Zenon
<1> QED BY <1>1, <1>5, <1>6

\* The commit of the decision's event.
LEMMA RecordPolicyInv ==
  ASSUME RunInv, LedgerInv, NEW j \in Job, RecordPolicy(j)
  PROVE  StoreStep /\ RunInv'
<1> DEFINE next == IF run[j].outcome \in {"Blocked", "NeedsApproval"} THEN "block" ELSE "start"
           rec == [run[j].job EXCEPT !.policy = run[j].outcome]
           ev == Event(j, "PolicyDecided")
<1>1. /\ AppendStep(j, "policy", next, rec, ev) /\ run[j].pc = "policy"
  BY DEF RecordPolicy, AppendStep
<1>2. /\ run[j].job \in JobRecord /\ run[j].job.status = "Queued"
      /\ run[j].outcome \in PolicyOutcome
  BY <1>1 DEF RunInv, RunOK, Run
<1>3. rec \in JobRecord /\ rec.status = "Queued"
  BY <1>2 DEF JobRecord
<1>4. ev \in JobEvent /\ ev.job = j /\ ev.kind = "PolicyDecided"
  BY DEF Event, JobEvent, JobEventKind
<1>5. next \in {"block", "start"} /\ next \in Pc
  BY DEF Pc
<1> HIDE DEF next, rec, ev
<1> QED BY <1>1, <1>2, <1>3, <1>4, <1>5, AppendStepInv DEF Live

\* create_tool_invocation
LEMMA CreateInvocationInv ==
  ASSUME RunInv, LedgerInv, NEW j \in Job, CreateInvocation(j)
  PROVE  StoreStep /\ RunInv'
<1> DEFINE ok == create_tool_invocation_ok(mem, j)
           draft == create_tool_invocation(mem, j)
<1>1. ok => InvokeOp(mem, draft)
  BY DEF InvokeOp
<1>2. StoreStep
  BY <1>1, CommitOrReject DEF CreateInvocation, LedgerOp
<1>3. CASE ReturnErr(j)
  BY <1>2, <1>3, ReturnErrInv
<1>4. CASE run[j].pc = "invoke" /\ GoTo(j, "invoked")
  <2>1. RunOK([run[j] EXCEPT !.pc = "invoked"])
    BY <1>4 DEF RunInv, RunOK, Run, Pc
  <2>2. run' = [run EXCEPT ![j] = [run[j] EXCEPT !.pc = "invoked"]]
    BY <1>4 DEF RunInv, GoTo
  <2> QED BY <1>2, <2>1, <2>2, OneRunChanges, Zenon
<1> QED BY <1>3, <1>4 DEF CreateInvocation

\* The commit of the invocation's event.
LEMMA RecordInvocationInv ==
  ASSUME RunInv, LedgerInv, NEW j \in Job, RecordInvocation(j)
  PROVE  StoreStep /\ RunInv'
<1> DEFINE ev == Event(j, "ToolInvoked")
<1>1. AppendStep(j, "invoked", "execute", run[j].job, ev) /\ run[j].pc = "invoked"
  BY DEF RecordInvocation, AppendStep
<1>2. run[j].job \in JobRecord /\ run[j].job.status = "Running"
  BY <1>1 DEF RunInv, RunOK, Run
<1>3. ev \in JobEvent /\ ev.job = j /\ ev.kind = "ToolInvoked"
  BY DEF Event, JobEvent, JobEventKind
<1>4. "execute" \in Pc
  BY DEF Pc
<1> HIDE DEF ev
<1> QED BY <1>1, <1>2, <1>3, <1>4, AppendStepInv DEF Live

\* The tool runs and the store is left alone.
LEMMA ExecuteToolInv ==
  ASSUME RunInv, LedgerInv, NEW j \in Job, ExecuteTool(j)
  PROVE  StoreStep /\ RunInv'
<1>1. StoreStep /\ run[j].pc = "execute"
  BY DEF ExecuteTool, StoreStep, ledgerVars
<1>2. ASSUME NEW result \in ToolResults,
             run' = [run EXCEPT ![j].pc = "finish", ![j].result = result]
      PROVE  RunInv'
  <2> DEFINE r == [run[j] EXCEPT !.pc = "finish", !.result = result]
  <2>1. RunOK(r)
    BY ZenonT(40), <1>1, ToolResultsAssumption DEF RunInv, RunOK, Run, Pc
  <2>2. run' = [run EXCEPT ![j] = r]
    BY <1>2, Zenon DEF RunInv
  <2> QED BY <2>1, <2>2, OneRunChanges, Zenon
<1>3. CASE GoTo(j, "fail")
  <2>1. RunOK([run[j] EXCEPT !.pc = "fail"])
    BY <1>1 DEF RunInv, RunOK, Run, Pc
  <2>2. run' = [run EXCEPT ![j] = [run[j] EXCEPT !.pc = "fail"]]
    BY <1>3 DEF RunInv, GoTo
  <2> QED BY <1>1, <2>1, <2>2, OneRunChanges, Zenon
<1>4. CASE run' = [run EXCEPT ![j].pc = "fail", ![j].job.latest = Unrecorded]
  <2> DEFINE job == [run[j].job EXCEPT !.latest = Unrecorded]
             r == [run[j] EXCEPT !.pc = "fail", !.job = job]
  <2>1. run[j].job \in JobRecord /\ run[j].job.status = "Running"
    BY <1>1 DEF RunInv, RunOK, Run
  <2>2. job \in JobRecord /\ job.status = "Running"
    BY <2>1, MaxSequenceAssumption DEF JobRecord, Unrecorded
  <2> HIDE DEF job
  <2>3. RunOK(r)
    BY <1>1, <2>2, ZenonT(40) DEF RunInv, RunOK, Run, Pc
  <2>4. run' = [run EXCEPT ![j] = r]
    BY <1>4, Zenon DEF RunInv, RunOK, Run, job
  <2> QED BY <1>1, <2>3, <2>4, OneRunChanges, Zenon
<1> QED BY <1>1, <1>2, <1>3, <1>4 DEF ExecuteTool

\* record_tool_result_audit_terminal
LEMMA FinishJobInv ==
  ASSUME RunInv, LedgerInv, NEW j \in Job, FinishJob(j)
  PROVE  StoreStep /\ RunInv'
<1> DEFINE r == run[j]
           ok == record_tool_result_audit_terminal_ok(mem, j, r.job, r.result,
                                                      r.key, r.sig, r.trail)
           draft == record_tool_result_audit_terminal(mem, j, r.job, r.result,
                                                      r.key, r.sig, r.trail)
<1>1. /\ run[j].pc = "finish"
      /\ \/ /\ Commit(ok, draft)
            /\ run' = [run EXCEPT ![j].pc = "ok", ![j].job = draft.jobs[j],
                         ![j].trail = @ \cup ((Len(mem.events) + 1) .. Len(draft.events))]
         \/ Reject(ok, draft) /\ ReturnErr(j)
  BY Zenon DEF FinishJob
<1>2. /\ r.job \in JobRecord /\ r.job.status = "Running" /\ r.result \in ToolResultStatus
      /\ r.key \in Key \cup {None} /\ r.sig \in Sig \cup {None} /\ r.trail \in SUBSET Nat
      /\ r.key # None => r.sig \in Sig
  BY <1>1, Zenon DEF RunInv, RunOK, Run
<1>3. ok => FinishOp(mem, draft)
  <2> SUFFICES ASSUME ok PROVE FinishOp(mem, draft)
    OBVIOUS
  <2>1. r.job.status \in Live
    BY <1>2 DEF Live
  <2> HIDE DEF r
  <2> QED BY <1>2, <2>1, Zenon DEF FinishOp
<1>4. StoreStep
  BY <1>1, <1>3, CommitOrReject, Zenon DEF LedgerOp
<1>5. CASE Reject(ok, draft) /\ ReturnErr(j)
  BY <1>4, <1>5, ReturnErrInv
<1>6. CASE /\ Commit(ok, draft)
           /\ run' = [run EXCEPT ![j].pc = "ok", ![j].job = draft.jobs[j],
                        ![j].trail = @ \cup ((Len(mem.events) + 1) .. Len(draft.events))]
  <2>1. Sound(draft)
    BY <1>3, <1>6, CommitsAreSound, Zenon DEF LedgerInv, LedgerOp, Commit
  <2> HIDE DEF draft, ok
  <2>2. draft.jobs[j] \in JobRecord /\ Len(mem.events) \in Nat /\ Len(draft.events) \in Nat
    BY <2>1 DEF LedgerInv, Sound, Good, Store
  <2> DEFINE trail == run[j].trail \cup ((Len(mem.events) + 1) .. Len(draft.events))
             r2 == [run[j] EXCEPT !.pc = "ok", !.job = draft.jobs[j], !.trail = trail]
  <2>3. trail \in SUBSET Nat
    <3>1. \A x \in (Len(mem.events) + 1) .. Len(draft.events) : x \in Nat
      BY <2>2
    <3>2. \A x \in run[j].trail : x \in Nat
      BY <1>2
    <3> QED BY <3>1, <3>2
  <2>4. run' = [run EXCEPT ![j] = r2]
    BY <1>6, Zenon DEF RunInv
  <2> HIDE DEF trail
  <2>5. RunOK(r2)
    BY ZenonT(40), <2>2, <2>3 DEF RunInv, RunOK, Run, Pc
  <2> QED BY <1>4, <2>4, <2>5, OneRunChanges, Zenon
<1> QED BY <1>1, <1>5, <1>6, Zenon

\* Every step of a run is a step of the store and keeps the run in order.
LEMMA RunStepInv ==
  ASSUME RunInv, LedgerInv, NEW j \in Job, RunStep(j)
  PROVE  StoreStep /\ RunInv'
<1>1. ASSUME BlockJob(j) PROVE StoreStep /\ RunInv'
  <2>1. run[j].pc = "block" /\ TransitionStep(j, "block", "ok", "Blocked")
    BY <1>1, Zenon DEF BlockJob, TransitionStep, AppendStep
  <2>2. run[j].job.status \in Live
    BY <2>1 DEF RunInv, RunOK, Live
  <2> QED BY <2>1, <2>2, TransitionStepInv, Zenon DEF Pc, JobStatus
<1>2. ASSUME StartJob(j) PROVE StoreStep /\ RunInv'
  <2>1. run[j].pc = "start" /\ TransitionStep(j, "start", "invoke", "Running")
    BY <1>2, Zenon DEF StartJob, TransitionStep, AppendStep
  <2>2. run[j].job.status \in Live
    BY <2>1 DEF RunInv, RunOK, Live
  <2> QED BY <2>1, <2>2, TransitionStepInv, Zenon DEF Pc, JobStatus
<1>3. ASSUME FailJob(j) PROVE StoreStep /\ RunInv'
  <2>1. run[j].pc = "fail" /\ TransitionStep(j, "fail", "error", "Failed")
    BY <1>3, Zenon DEF FailJob, TransitionStep, AppendStep
  <2>2. run[j].job.status \in Live
    BY <2>1 DEF RunInv, RunOK, Live
  <2> QED BY <2>1, <2>2, TransitionStepInv, Zenon DEF Pc, JobStatus
<1> QED
  BY <1>1, <1>2, <1>3, CreateJobInv, DecidePolicyInv, RecordPolicyInv,
     CreateInvocationInv, RecordInvocationInv, ExecuteToolInv, FinishJobInv DEF RunStep

-----------------------------------------------------------------------------
(* Cancellations, and the daemon's stops.                                  *)

\* cancel_job reads a job and later writes the copy.
LEMMA CancelStepInv ==
  ASSUME CancelInv, LedgerInv, CancelStep
  PROVE  StoreStep /\ CancelInv'
<1>1. ASSUME NEW j \in Job, CancelRead(j)
      PROVE  StoreStep /\ CancelInv'
  <2>1. mem.jobs[j] \in JobRecord /\ mem.jobs[j].status \in Live
    BY <1>1 DEF CancelRead, LedgerInv, Sound, Good, Store, Live
  <2> DEFINE c == [id |-> j, job |-> mem.jobs[j]]
  <2>2. c \in [id : Job, job : JobRecord] /\ c.job.status \in Live
    BY <2>1
  <2>3. cancels' = cancels \cup {c} /\ UNCHANGED <<mem, disk, seen>>
    BY <1>1 DEF CancelRead, ledgerVars
  <2> HIDE DEF c
  <2>4. StoreStep
    BY <2>3 DEF StoreStep
  <2> QED BY <2>2, <2>3, <2>4 DEF CancelInv
<1>2. ASSUME NEW c \in cancels, CancelWrite(c)
      PROVE  StoreStep /\ CancelInv'
  <2> DEFINE canceled == transition_status(Requested(c.job), "Canceled")
             ev1 == Event(c.id, "CancellationRequested")
             ev2 == StatusChanged(c.id, c.job.status, "Canceled")
             ok == append_job_events_and_update_job_ok(mem, c.id, Requested(c.job), ev1,
                                                       canceled, ev2)
             draft == append_job_events_and_update_job(mem, c.id, Requested(c.job), ev1,
                                                       canceled, ev2)
  <2>1. c.id \in Job /\ c.job \in JobRecord /\ c.job.status \in Live
    BY DEF CancelInv
  <2>2. ok => CancelOp(mem, draft)
    BY <2>1 DEF CancelOp
  <2>3. Commit(ok, draft) \/ Reject(ok, draft)
    BY <1>2 DEF CancelWrite, Requested
  <2>4. StoreStep
    BY <2>2, <2>3, CommitOrReject DEF LedgerOp
  <2>5. cancels' = cancels \ {c}
    BY <1>2 DEF CancelWrite
  <2> QED BY <2>4, <2>5 DEF CancelInv
<1> QED BY <1>1, <1>2 DEF CancelStep

\* A run is started with a key and the signature of its request, or neither.
LEMMA StartRunInv ==
  ASSUME RunInv, NEW j \in Job, NEW key \in Key \cup {None}, NEW sig \in Sig \cup {None},
         key # None => sig \in Sig, StartRun(j, key, sig)
  PROVE  RunInv'
<1> DEFINE r == [IdleRun EXCEPT !.pc = "create", !.key = key, !.sig = sig]
<1>1. run' = [run EXCEPT ![j] = r]
  BY DEF StartRun
<1>2. NewJobRecord \in JobRecord
  BY MaxSequenceAssumption DEF NewJobRecord, JobRecord, JobStatus
<1>3. RunOK(r)
  BY <1>2, Zenon DEF RunOK, Run, IdleRun, Pc
<1> QED BY <1>1, <1>3, OneRunChanges, Zenon

\* A crash ends the runs.
LEMMA CrashInv ==
  ASSUME RunInv, Crash
  PROVE  RunInv'
<1> DEFINE r == [IdleRun EXCEPT !.pc = "dead"]
<1>1. NewJobRecord \in JobRecord
  BY MaxSequenceAssumption DEF NewJobRecord, JobRecord, JobStatus
<1>2. RunOK(r)
  BY <1>1 DEF RunOK, Run, IdleRun, Pc
<1>3. run' = [j \in Job |-> IF run[j].pc \in {"idle", "ok", "error"} THEN run[j] ELSE r]
  BY DEF Crash
<1> HIDE DEF r
<1>4. \A j \in Job : RunOK(run'[j])
  BY <1>2, <1>3 DEF RunInv
<1>5. \A j \in Job : run'[j] \in Run
  BY <1>4 DEF RunOK
<1>6. run' \in [Job -> Run]
  BY <1>3, <1>5
<1> QED BY <1>4, <1>6 DEF RunInv
-----------------------------------------------------------------------------
(* What the store holds when a run has come so far.                        *)

\* The log positions of the events that lead to the call of a job's tool.
DecidedAt(s, j) == {a \in EventChain(s, j) : s.events[a].kind = "PolicyDecided"}

StartedAt(s, j) ==
  {b \in EventChain(s, j) : s.events[b] = StatusChanged(j, "Queued", "Running")}

InvokedAt(s, j) == {c \in EventChain(s, j) : s.events[c].kind = "ToolInvoked"}

\* The job may run, and its log says when that was decided, when it started and
\* when its tool was called.
Permitted(s, j) == s.decisions[j] \in {"Allowed", "Audited"}

Started(s, j) == \E a \in DecidedAt(s, j), b \in StartedAt(s, j) : a < b

Authorized(s, j) ==
  /\ Permitted(s, j) /\ s.invoked[j]
  /\ \E a \in DecidedAt(s, j), b \in StartedAt(s, j), c \in InvokedAt(s, j) : a < b /\ b < c

\* A receipt for a key is stored.
Backed(s, key, id, sig) ==
  \E r \in s.receipts : r.key = key /\ r.id = id /\ r.sig = sig

\* A run that returned a receipt ended its job as its copy says, and stored the
\* receipt of a success for its key.
Ended(s, r, j) ==
  /\ is_terminal(s.jobs[j].status) /\ s.jobs[j].status = r.job.status
  /\ r.key # None /\ r.job.status = "Succeeded" => Backed(s, r.key, j, r.sig)

PathOK(s, r, j) ==
  /\ r.pc = "policy" => s.decisions[j] = r.outcome
  /\ r.pc \in {"start", "invoke", "invoked", "execute"} => Permitted(s, j)
  /\ r.pc = "start" => DecidedAt(s, j) # {}
  /\ r.pc \in {"invoke", "invoked"} => Started(s, j)
  /\ r.pc = "invoked" => s.invoked[j]
  /\ r.pc = "execute" => Authorized(s, j)
  /\ r.pc = "ok" => Ended(s, r, j)

PathInv ==
  /\ executed \subseteq Job
  /\ \A j \in Job : PathOK(mem, run[j], j)
  /\ \A j \in executed : Authorized(mem, j)

\* What is not taken back keeps its place in the log.
LEMMA PositionsStay ==
  ASSUME NEW s \in Store, NEW d \in Store, Extends(s, d), NEW j \in Job
  PROVE  /\ DecidedAt(s, j) \subseteq DecidedAt(d, j)
         /\ StartedAt(s, j) \subseteq StartedAt(d, j)
         /\ InvokedAt(s, j) \subseteq InvokedAt(d, j)
<1>1. Len(s.events) \in Nat /\ Len(d.events) \in Nat /\ Len(s.events) <= Len(d.events)
  BY DEF Store, Extends
<1>2. \A i \in 1 .. Len(s.events) : i \in 1 .. Len(d.events) /\ d.events[i] = s.events[i]
  BY <1>1 DEF Extends
<1> QED BY <1>2 DEF DecidedAt, StartedAt, InvokedAt, EventChain

\* So nothing that a run relies on is lost by what others commit, by a failed
\* commit or by a restart.
LEMMA AuthorizedStays ==
  ASSUME NEW s \in Store, NEW d \in Store, Extends(s, d), NEW j \in Job
  PROVE  /\ Permitted(s, j) => Permitted(d, j)
         /\ Started(s, j) => Started(d, j)
         /\ Authorized(s, j) => Authorized(d, j)
<1>1. Permitted(s, j) => Permitted(d, j)
  BY DEF Permitted, Extends, None
<1>2. Started(s, j) => Started(d, j)
  BY PositionsStay DEF Started
<1>3. s.invoked[j] => d.invoked[j]
  BY DEF Extends
<1> QED BY <1>1, <1>2, <1>3, PositionsStay DEF Authorized

\* A stored receipt stays.
LEMMA BackedStays ==
  ASSUME NEW s, NEW d, Extends(s, d), NEW key, NEW id, NEW sig, Backed(s, key, id, sig)
  PROVE  Backed(d, key, id, sig)
  BY DEF Backed, Extends

\* What the ledger holds for a run that has come so far, a larger ledger holds too: other
\* jobs' commits do not take from a run what it has recorded.
LEMMA PathStays ==
  ASSUME NEW s \in Store, NEW d \in Store, Extends(s, d), NEW j \in Job, NEW r,
         RunOK(r), PathOK(s, r, j)
  PROVE  PathOK(d, r, j)
<1>1. r.pc = "policy" => d.decisions[j] = r.outcome
  <2> SUFFICES ASSUME r.pc = "policy" PROVE d.decisions[j] = r.outcome
    OBVIOUS
  <2>1. s.decisions[j] = r.outcome /\ r.outcome # None
    BY DEF PathOK, RunOK, PolicyOutcome, None
  <2> QED BY <2>1 DEF Extends
<1>2. r.pc \in {"start", "invoke", "invoked", "execute"} => Permitted(d, j)
  BY AuthorizedStays DEF PathOK
<1>3. r.pc = "start" => DecidedAt(d, j) # {}
  BY PositionsStay DEF PathOK
<1>4. r.pc \in {"invoke", "invoked"} => Started(d, j)
  BY AuthorizedStays DEF PathOK
<1>5. r.pc = "invoked" => d.invoked[j]
  BY DEF PathOK, Extends
<1>6. r.pc = "execute" => Authorized(d, j)
  BY AuthorizedStays DEF PathOK
<1>7. r.pc = "ok" => Ended(d, r, j)
  BY BackedStays, Zenon DEF PathOK, Ended, Extends
<1> QED BY <1>1, <1>2, <1>3, <1>4, <1>5, <1>6, <1>7 DEF PathOK

\* The final commit ends the job as its result says, and stores the receipt that
\* a successful run for a key makes.
LEMMA FinalCommitHolds ==
  ASSUME NEW s \in Store, NEW j \in Job, NEW rec \in JobRecord,
         NEW result \in ToolResultStatus, NEW key, NEW sig, NEW trail
  PROVE  LET d == record_tool_result_audit_terminal(s, j, rec, result, key, sig, trail)
         IN /\ d.jobs[j].status = terminal_status(result)
            /\ HasReceipt(result, key) => Backed(d, key, j, sig)
<1> DEFINE final == transition_status(rec, terminal_status(result))
           recorded == [s EXCEPT !.results[j] = result, !.audited[j] = TRUE]
           s1 == AppendAndUpdate(recorded, j, rec, Event(j, "ToolResultRecorded"))
           s2 == AppendAndUpdate(s1, j, rec, Event(j, "AuditRecorded"))
           draft == AppendAndUpdate(s2, j, final, StatusChanged(j, rec.status, final.status))
           d == record_tool_result_audit_terminal(s, j, rec, result, key, sig, trail)
           receipt == FinalReceipt(s, j, key, sig, draft, trail)
           Shaped(x) == j \in DOMAIN x.jobs /\ "receipts" \in DOMAIN x /\ "jobs" \in DOMAIN x
                        /\ "events" \in DOMAIN x
<1>1. Shaped(recorded)
  BY DEF Store
<1>2. Shaped(s1)
  <2> HIDE DEF recorded
  <2> QED BY <1>1 DEF AppendAndUpdate
<1>3. Shaped(s2)
  <2> HIDE DEF s1
  <2> QED BY <1>2 DEF AppendAndUpdate
<1>4. Shaped(draft) /\ draft.jobs[j] = [final EXCEPT !.latest = Len(s2.events) + 1]
  <2> HIDE DEF s2, final
  <2> QED BY <1>3 DEF AppendAndUpdate
<1>5. draft.jobs[j].status = terminal_status(result)
  BY <1>4, ZenonT(40) DEF transition_status, JobRecord
<1>6. d = [draft EXCEPT !.receipts =
             @ \cup (IF HasReceipt(result, key) THEN {receipt} ELSE {})]
  BY DEF record_tool_result_audit_terminal, WithResultAuditTerminal
<1> HIDE DEF draft, d
<1>7. d.jobs = draft.jobs /\ (HasReceipt(result, key) => receipt \in d.receipts)
  BY <1>4, <1>6
<1>8. receipt.key = key /\ receipt.id = j /\ receipt.sig = sig
  BY DEF FinalReceipt
<1> QED BY <1>5, <1>7, <1>8 DEF Backed, d

\* An append of a run ends it with an error, or is in the store and in its copy.
LEMMA AppendCommits ==
  ASSUME RunInv, LedgerInv, NEW j \in Job, NEW at, NEW next \in Pc,
         NEW rec \in JobRecord, NEW ev \in JobEvent, AppendStep(j, at, next, rec, ev)
  PROVE  \/ run'[j].pc = "error"
         \/ /\ Appends(mem, mem', j, rec, ev)
            /\ run'[j].pc = next /\ run'[j].job = mem'.jobs[j]
<1> DEFINE ok == append_job_event_and_update_job_ok(mem, j, rec, ev)
           draft == append_job_event_and_update_job(mem, j, rec, ev)
<1>1. run[j] \in Run /\ j \in DOMAIN run
  BY DEF RunInv
<1>2. CASE Reject(ok, draft) /\ ReturnErr(j)
  BY <1>1, <1>2 DEF ReturnErr, GoTo, Run
<1>3. CASE /\ Commit(ok, draft)
           /\ run' = [run EXCEPT ![j].pc = next, ![j].job = draft.jobs[j],
                                 ![j].trail = @ \cup {Len(draft.events)}]
  <2>1. ok /\ mem' = draft
    BY <1>3 DEF Commit
  <2>2. mem \in Store /\ Len(mem.events) + 1 <= MaxSequence
    BY <2>1 DEF LedgerInv, Sound, Good, append_job_event_and_update_job_ok,
                ensure_event_sequence_capacity
  <2>3. Appends(mem, draft, j, rec, ev)
    BY <2>2, AppendFacts DEF append_job_event_and_update_job
  <2> HIDE DEF draft, ok
  <2>4. run'[j].pc = next /\ run'[j].job = draft.jobs[j]
    BY <1>1, <1>3, Zenon DEF Run
  <2> QED BY <2>1, <2>3, <2>4
<1> QED BY <1>2, <1>3 DEF AppendStep

\* The appended event is the last of the log.
LEMMA AppendedAt ==
  ASSUME NEW s \in Store, NEW d \in Store, NEW j \in Job, NEW rec, NEW ev,
         Appends(s, d, j, rec, ev), ev.job = j
  PROVE  /\ Len(s.events) + 1 \in EventChain(d, j)
         /\ d.events[Len(s.events) + 1] = ev
         /\ \A i \in Job : \A a \in EventChain(s, i) : a < Len(s.events) + 1
<1>1. Len(s.events) \in Nat
  BY DEF Store
<1> QED BY <1>1 DEF Appends, EventChain

\* The step of a run brings it to where the store supports it.
LEMMA RunStepPath ==
  ASSUME RunInv, LedgerInv, PathInv, NEW j \in Job, RunStep(j)
  PROVE  PathOK(mem', run'[j], j) /\ (j \in executed' => j \in executed \/ Authorized(mem, j))
<1>0. /\ RunInv' /\ mem \in Store /\ mem' \in Store /\ Extends(mem, mem')
      /\ run[j] \in Run /\ j \in DOMAIN run /\ RunOK(run[j]) /\ PathOK(mem, run[j], j)
  <2>1. RunInv' /\ LedgerInv' /\ Extends(mem, mem')
    BY RunStepInv, StoreStepInv
  <2> QED BY <2>1 DEF LedgerInv, Sound, Good, RunInv, PathInv
<1>1. run'[j].pc \in {"error", "decide", "block", "finish", "fail"} => PathOK(mem', run'[j], j)
  BY Zenon DEF PathOK
<1>2. CASE CreateJob(j)
  <2>1. run'[j].pc \in {"decide", "error"} /\ executed' = executed
    BY <1>0, <1>2 DEF CreateJob, ReturnErr, GoTo, Run
  <2> QED BY <1>1, <2>1
<1>3. CASE DecidePolicy(j)
  <2>1. PICK outcome \in Outcomes :
          LET ok == create_policy_decision_ok(mem, j)
              draft == create_policy_decision(mem, j, outcome)
          IN \/ /\ Commit(ok, draft)
                /\ run' = [run EXCEPT ![j].pc = "policy", ![j].outcome = outcome]
             \/ ReturnErr(j)
    BY <1>3 DEF DecidePolicy
  <2>2. CASE ReturnErr(j)
    <3>1. run'[j].pc = "error" /\ executed' = executed
      BY <1>0, <1>3, <2>2 DEF ReturnErr, GoTo, Run, DecidePolicy
    <3> QED BY <1>1, <3>1
  <2>3. CASE /\ mem' = create_policy_decision(mem, j, outcome)
             /\ run' = [run EXCEPT ![j].pc = "policy", ![j].outcome = outcome]
    <3>1. run'[j].pc = "policy" /\ run'[j].outcome = outcome /\ executed' = executed
      BY <1>0, <1>3, <2>3, Zenon DEF Run, DecidePolicy
    <3>2. mem'.decisions[j] = outcome
      BY <1>0, <2>3 DEF create_policy_decision, Store
    <3> QED BY <3>1, <3>2, Zenon DEF PathOK
  <2> QED BY <2>1, <2>2, <2>3 DEF Commit
<1>4. CASE RecordPolicy(j)
  <2> DEFINE next == IF run[j].outcome \in {"Blocked", "NeedsApproval"} THEN "block" ELSE "start"
             rec == [run[j].job EXCEPT !.policy = run[j].outcome]
             ev == Event(j, "PolicyDecided")
  <2>1. /\ AppendStep(j, "policy", next, rec, ev) /\ run[j].pc = "policy"
        /\ executed' = executed
    BY <1>4, Zenon DEF RecordPolicy, AppendStep
  <2>2. run[j].job \in JobRecord /\ run[j].outcome \in PolicyOutcome
    BY <1>0, <2>1 DEF RunOK, Run
  <2>3. rec \in JobRecord /\ ev \in JobEvent /\ ev.job = j /\ ev.kind = "PolicyDecided"
    BY <2>2 DEF JobRecord, Event, JobEvent, JobEventKind
  <2>4. next \in {"block", "start"} /\ next \in Pc
    BY DEF Pc
  <2>5. next = "start" => mem.decisions[j] \in {"Allowed", "Audited"}
    BY <1>0, <2>1, <2>2 DEF PathOK, PolicyOutcome
  <2> HIDE DEF next, rec, ev
  <2>6. \/ run'[j].pc = "error"
        \/ Appends(mem, mem', j, rec, ev) /\ run'[j].pc = next
    BY <2>1, <2>3, <2>4, AppendCommits
  <2>7. ASSUME Appends(mem, mem', j, rec, ev), run'[j].pc = "start", next = "start"
        PROVE  PathOK(mem', run'[j], j)
    <3>1. Permitted(mem', j)
      BY <2>5, <2>7 DEF Permitted, Appends
    <3>2. Len(mem.events) + 1 \in DecidedAt(mem', j)
      BY <1>0, <2>3, <2>7, AppendedAt DEF DecidedAt
    <3> QED BY <2>7, <3>1, <3>2 DEF PathOK
  <2> QED BY <1>1, <2>1, <2>4, <2>6, <2>7
<1>5. CASE BlockJob(j)
  <2> DEFINE rec == transition_status(run[j].job, "Blocked")
             ev == StatusChanged(j, run[j].job.status, "Blocked")
  <2>1. AppendStep(j, "block", "ok", rec, ev) /\ run[j].pc = "block" /\ executed' = executed
    BY <1>5, Zenon DEF BlockJob, TransitionStep, AppendStep
  <2>2. run[j].job \in JobRecord /\ run[j].job.status = "Queued"
    BY <1>0, <2>1 DEF RunOK, Run
  <2>3. rec \in JobRecord /\ rec.status = "Blocked" /\ ev \in JobEvent /\ "ok" \in Pc
    BY <2>2, Zenon DEF transition_status, JobRecord, is_terminal, StatusChanged, JobEvent,
                JobEventKind, JobStatus, Pc
  <2> HIDE DEF rec, ev
  <2>4. \/ run'[j].pc = "error"
        \/ Appends(mem, mem', j, rec, ev) /\ run'[j].pc = "ok" /\ run'[j].job = mem'.jobs[j]
    BY <2>1, <2>3, AppendCommits
  <2>5. ASSUME Appends(mem, mem', j, rec, ev), run'[j].pc = "ok", run'[j].job = mem'.jobs[j]
        PROVE  PathOK(mem', run'[j], j)
    <3>1. mem'.jobs[j] = [rec EXCEPT !.latest = Len(mem.events) + 1]
      BY <1>0, <2>5 DEF Appends, Store
    <3>2. mem'.jobs[j].status = "Blocked"
      BY <2>3, <3>1 DEF JobRecord
    <3>3. Ended(mem', run'[j], j)
      BY <2>5, <3>2 DEF Ended, is_terminal
    <3> QED BY <2>5, <3>3 DEF PathOK
  <2> QED BY <1>1, <2>1, <2>4, <2>5
<1>6. CASE StartJob(j)
  <2> DEFINE rec == transition_status(run[j].job, "Running")
             ev == StatusChanged(j, run[j].job.status, "Running")
  <2>1. AppendStep(j, "start", "invoke", rec, ev) /\ run[j].pc = "start" /\ executed' = executed
    BY <1>6, Zenon DEF StartJob, TransitionStep, AppendStep
  <2>2. run[j].job \in JobRecord /\ run[j].job.status = "Queued"
    BY <1>0, <2>1 DEF RunOK, Run
  <2>3. rec \in JobRecord /\ ev \in JobEvent /\ ev.job = j /\ "invoke" \in Pc
    BY <2>2, Zenon DEF transition_status, JobRecord, is_terminal, StatusChanged, JobEvent,
                JobEventKind, JobStatus, Pc
  <2>4. ev = StatusChanged(j, "Queued", "Running")
    BY <2>2
  <2> HIDE DEF rec, ev
  <2>5. \/ run'[j].pc = "error"
        \/ Appends(mem, mem', j, rec, ev) /\ run'[j].pc = "invoke"
    BY <2>1, <2>3, AppendCommits
  <2>6. ASSUME Appends(mem, mem', j, rec, ev), run'[j].pc = "invoke"
        PROVE  PathOK(mem', run'[j], j)
    <3>1. Permitted(mem', j)
      BY <1>0, <2>1, AuthorizedStays, Zenon DEF PathOK
    <3>2. PICK a \in DecidedAt(mem, j) : TRUE
      BY <1>0, <2>1 DEF PathOK
    <3>3. a \in DecidedAt(mem', j) /\ a \in EventChain(mem, j)
      BY <1>0, PositionsStay DEF DecidedAt
    <3>4. Len(mem.events) + 1 \in StartedAt(mem', j) /\ a < Len(mem.events) + 1
      BY <1>0, <2>3, <2>4, <2>6, <3>3, AppendedAt DEF StartedAt
    <3>5. Started(mem', j)
      BY SMTT(30), <3>3, <3>4 DEF Started
    <3> QED BY <2>6, <3>1, <3>5 DEF PathOK
  <2> QED BY <1>1, <2>1, <2>5, <2>6
<1>7. CASE CreateInvocation(j)
  <2>1. CASE ReturnErr(j)
    <3>1. run'[j].pc = "error" /\ executed' = executed
      BY SMTT(30), <1>0, <1>7, <2>1 DEF ReturnErr, GoTo, Run, CreateInvocation
    <3> QED BY <1>1, <3>1
  <2>2. CASE /\ mem' = create_tool_invocation(mem, j) /\ GoTo(j, "invoked")
             /\ run[j].pc = "invoke"
    <3>1. run'[j].pc = "invoked" /\ executed' = executed
      BY <1>0, <1>7, <2>2 DEF GoTo, Run, CreateInvocation
    <3>2. mem'.invoked[j]
      BY SMTT(30), <1>0, <2>2 DEF create_tool_invocation, Store
    <3>3. Permitted(mem', j) /\ Started(mem', j)
      BY SMTT(30), <1>0, <2>2, AuthorizedStays DEF PathOK
    <3> QED BY <3>1, <3>2, <3>3 DEF PathOK
  <2> QED BY <1>7, <2>1, <2>2 DEF CreateInvocation, Commit
<1>8. CASE RecordInvocation(j)
  <2> DEFINE ev == Event(j, "ToolInvoked")
  <2>1. /\ AppendStep(j, "invoked", "execute", run[j].job, ev) /\ run[j].pc = "invoked"
        /\ executed' = executed
    BY <1>8 DEF RecordInvocation, AppendStep
  <2>2. run[j].job \in JobRecord /\ "execute" \in Pc
    BY <1>0, <2>1 DEF RunOK, Run, Pc
  <2>3. ev \in JobEvent /\ ev.job = j /\ ev.kind = "ToolInvoked"
    BY DEF Event, JobEvent, JobEventKind
  <2> HIDE DEF ev
  <2>4. \/ run'[j].pc = "error"
        \/ Appends(mem, mem', j, run[j].job, ev) /\ run'[j].pc = "execute"
    BY SMTT(30), <2>1, <2>2, <2>3, AppendCommits
  <2>5. ASSUME Appends(mem, mem', j, run[j].job, ev), run'[j].pc = "execute"
        PROVE  PathOK(mem', run'[j], j)
    <3>1. Permitted(mem', j) /\ mem'.invoked[j]
      BY <1>0, <2>1, AuthorizedStays, Zenon DEF PathOK, Extends
    <3>2. PICK a \in DecidedAt(mem, j), b \in StartedAt(mem, j) : a < b
      BY <1>0, <2>1, Zenon DEF PathOK, Started
    <3>3. a \in DecidedAt(mem', j) /\ b \in StartedAt(mem', j) /\ b \in EventChain(mem, j)
      BY <1>0, <3>2, PositionsStay DEF StartedAt
    <3>4. Len(mem.events) + 1 \in InvokedAt(mem', j) /\ b < Len(mem.events) + 1
      BY <1>0, <2>3, <2>5, <3>3, AppendedAt, Zenon DEF InvokedAt
    <3>5. Authorized(mem', j)
      BY <3>1, <3>2, <3>3, <3>4 DEF Authorized
    <3> QED BY <2>5, <3>1, <3>5 DEF PathOK
  <2> QED BY <1>1, <2>1, <2>4, <2>5
<1>9. CASE ExecuteTool(j)
  <2>1. run'[j].pc \in {"finish", "fail"}
    <3>1. ASSUME NEW result \in ToolResults,
                 run' = [run EXCEPT ![j].pc = "finish", ![j].result = result]
          PROVE  run'[j].pc = "finish"
      BY <1>0, <3>1 DEF Run
    <3>2. CASE GoTo(j, "fail")
      BY <1>0, <3>2 DEF GoTo, Run
    <3>3. ASSUME run' = [run EXCEPT ![j].pc = "fail", ![j].job.latest = Unrecorded]
          PROVE  run'[j].pc = "fail"
      BY <1>0, <3>3 DEF Run
    <3> QED BY <1>9, <3>1, <3>2, <3>3 DEF ExecuteTool
  <2>2. Authorized(mem, j)
    BY <1>0, <1>9, Zenon DEF ExecuteTool, PathOK
  <2> QED BY <1>1, <2>1, <2>2
<1>10. CASE FinishJob(j)
  <2> DEFINE r == run[j]
             ok == record_tool_result_audit_terminal_ok(mem, j, r.job, r.result,
                                                        r.key, r.sig, r.trail)
             draft == record_tool_result_audit_terminal(mem, j, r.job, r.result,
                                                        r.key, r.sig, r.trail)
  <2>1. /\ r.pc = "finish" /\ executed' = executed
        /\ \/ /\ Commit(ok, draft)
              /\ run' = [run EXCEPT ![j].pc = "ok", ![j].job = draft.jobs[j],
                           ![j].trail = @ \cup ((Len(mem.events) + 1) .. Len(draft.events))]
           \/ ReturnErr(j)
    BY <1>10, Zenon DEF FinishJob
  <2>2. CASE ReturnErr(j)
    <3>1. run'[j].pc = "error"
      BY SMTT(30), <1>0, <2>2 DEF ReturnErr, GoTo, Run
    <3> QED BY <1>1, <2>1, <3>1, Zenon
  <2>3. CASE /\ mem' = draft
             /\ run' = [run EXCEPT ![j].pc = "ok", ![j].job = draft.jobs[j],
                          ![j].trail = @ \cup ((Len(mem.events) + 1) .. Len(draft.events))]
    <3>1. r \in Run /\ r.result \in ToolResultStatus /\ r.job \in JobRecord
      BY <1>0, <2>1 DEF RunOK, Run
    <3>2. /\ run'[j].pc = "ok" /\ run'[j].job = mem'.jobs[j]
          /\ run'[j].key = r.key /\ run'[j].sig = r.sig
      <4> HIDE DEF draft
      <4> QED BY <1>0, <2>3, Zenon DEF Run
    <3>3. /\ mem'.jobs[j].status = terminal_status(r.result)
          /\ HasReceipt(r.result, r.key) => Backed(mem', r.key, j, r.sig)
      <4>1. /\ draft.jobs[j].status = terminal_status(r.result)
            /\ HasReceipt(r.result, r.key) => Backed(draft, r.key, j, r.sig)
        <5> HIDE DEF r
        <5> QED BY <1>0, <3>1, FinalCommitHolds
      <4> QED BY <2>3, <4>1, Zenon
    <3>4. is_terminal(mem'.jobs[j].status)
          /\ (mem'.jobs[j].status = "Succeeded" => r.result = "Succeeded")
      BY <3>1, <3>3 DEF terminal_status, is_terminal, ToolResultStatus
    <3>5. Ended(mem', run'[j], j)
      <4> HIDE DEF r
      <4>1. run'[j].job.status = mem'.jobs[j].status
        BY <3>2
      <4> QED BY <3>2, <3>3, <3>4, <4>1, Zenon DEF Ended, HasReceipt
    <3> QED BY <2>1, <3>2, <3>5 DEF PathOK
  <2> QED BY <2>1, <2>2, <2>3, Zenon DEF Commit
<1>11. CASE FailJob(j)
  <2>1. executed' = executed /\ run'[j].pc = "error"
    BY <1>0, <1>11 DEF FailJob, TransitionStep, AppendStep, ReturnErr, GoTo, Run
  <2> QED BY <1>1, <2>1
<1> QED
  BY SMTT(30), <1>2, <1>3, <1>4, <1>5, <1>6, <1>7, <1>8, <1>9, <1>10, <1>11 DEF RunStep

\* Steps of one run, and of others, keep what all runs rely on.
LEMMA RunStepPathInv ==
  ASSUME RunInv, LedgerInv, PathInv, NEW j \in Job, RunStep(j)
  PROVE  /\ PathInv'
         /\ run'[j].key = run[j].key /\ run'[j].sig = run[j].sig
         /\ \A i \in Job : i # j => run'[i] = run[i]
<1>1. mem \in Store /\ mem' \in Store /\ Extends(mem, mem') /\ run \in [Job -> Run]
  <2>1. LedgerInv' /\ Extends(mem, mem')
    BY RunStepInv, StoreStepInv
  <2> QED BY <2>1 DEF LedgerInv, Sound, Good, RunInv
<1>2. /\ \A i \in Job : i # j => run'[i] = run[i]
      /\ run'[j].key = run[j].key /\ run'[j].sig = run[j].sig
      /\ executed' \subseteq executed \cup {j}
  <2> DEFINE Same == /\ \A i \in Job : i # j => run'[i] = run[i]
                     /\ run'[j].key = run[j].key /\ run'[j].sig = run[j].sig
  <2>1. ASSUME NEW pc, GoTo(j, pc) PROVE Same
    BY <1>1, <2>1 DEF GoTo, Run
  <2>2. ASSUME NEW at, NEW next, NEW rec, NEW ev, AppendStep(j, at, next, rec, ev)
        PROVE  Same /\ executed' = executed
    <3> DEFINE draft == append_job_event_and_update_job(mem, j, rec, ev)
    <3>1. CASE run' = [run EXCEPT ![j].pc = next, ![j].job = draft.jobs[j],
                                  ![j].trail = @ \cup {Len(draft.events)}]
      <4> HIDE DEF draft
      <4> QED BY <1>1, <2>2, <3>1 DEF AppendStep, Run
    <3> QED BY <2>1, <2>2, <3>1 DEF AppendStep, ReturnErr
  <2>3. CASE CreateJob(j)
    <3> DEFINE draft == create_job_with_initial_event(mem, j)
    <3>1. CASE run' = [run EXCEPT ![j].pc = "decide", ![j].job = draft.jobs[j],
                                  ![j].trail = {Len(draft.events)}]
      <4> HIDE DEF draft
      <4> QED BY <1>1, <2>3, <3>1 DEF CreateJob, Run
    <3> QED BY <2>1, <2>3, <3>1 DEF CreateJob, ReturnErr
  <2>4. CASE DecidePolicy(j)
    <3>1. ASSUME NEW outcome,
                 run' = [run EXCEPT ![j].pc = "policy", ![j].outcome = outcome]
          PROVE  Same
      BY <1>1, <3>1 DEF Run
    <3> QED BY <2>1, <2>4, <3>1 DEF DecidePolicy, ReturnErr
  <2>5. CASE CreateInvocation(j)
    BY <2>1, <2>5 DEF CreateInvocation, ReturnErr
  <2>6. CASE ExecuteTool(j)
    <3>1. ASSUME NEW result, run' = [run EXCEPT ![j].pc = "finish", ![j].result = result]
          PROVE  Same
      BY <1>1, <3>1 DEF Run
    <3>2. ASSUME run' = [run EXCEPT ![j].pc = "fail", ![j].job.latest = Unrecorded]
          PROVE  Same
      BY <1>1, <3>2 DEF Run
    <3> QED BY <2>1, <2>6, <3>1, <3>2 DEF ExecuteTool
  <2>7. CASE FinishJob(j)
    <3>1. ASSUME NEW job, NEW more,
                 run' = [run EXCEPT ![j].pc = "ok", ![j].job = job, ![j].trail = @ \cup more]
          PROVE  Same
      BY <1>1, <3>1 DEF Run
    <3> QED BY <2>1, <2>7, <3>1, Zenon DEF FinishJob, ReturnErr
  <2> QED BY <2>2, <2>3, <2>4, <2>5, <2>6, <2>7
          DEF RunStep, RecordPolicy, BlockJob, StartJob, RecordInvocation, FailJob, TransitionStep
<1>3. \A i \in Job : PathOK(mem', run'[i], i)
  <2> SUFFICES ASSUME NEW i \in Job PROVE PathOK(mem', run'[i], i)
    OBVIOUS
  <2>1. CASE i = j
    BY <2>1, RunStepPath
  <2>2. CASE i # j
    BY <1>1, <1>2, <2>2, PathStays DEF RunInv, PathInv
  <2> QED BY <2>1, <2>2
<1>4. \A i \in executed' : i \in Job /\ Authorized(mem', i)
  <2> SUFFICES ASSUME NEW i \in executed' PROVE i \in Job /\ Authorized(mem', i)
    OBVIOUS
  <2>1. i \in Job /\ Authorized(mem, i)
    BY <1>2, RunStepPath DEF PathInv
  <2> QED BY <1>1, <2>1, AuthorizedStays
<1> QED BY <1>2, <1>3, <1>4 DEF PathInv

\* What runs rely on does not depend on the steps of others: cancellations and
\* restarts only take the store further.
LEMMA OthersPathInv ==
  ASSUME RunInv, LedgerInv, PathInv, StoreStep, executed' = executed,
         \A j \in Job : \/ run'[j] = run[j]
                        \/ run'[j].pc \in {"create", "dead"}
  PROVE  PathInv'
<1>1. mem \in Store /\ mem' \in Store /\ Extends(mem, mem')
  <2>1. LedgerInv' /\ Extends(mem, mem')
    BY StoreStepInv
  <2> QED BY <2>1 DEF LedgerInv, Sound, Good
<1>2. ASSUME NEW j \in Job PROVE PathOK(mem', run'[j], j)
  <2>1. CASE run'[j] = run[j]
    BY <1>1, <2>1, PathStays DEF RunInv, PathInv
  <2>2. CASE run'[j].pc \in {"create", "dead"}
    BY <2>2 DEF PathOK
  <2> QED BY <2>1, <2>2
<1>3. \A j \in executed' : Authorized(mem', j)
  BY <1>1, AuthorizedStays DEF PathInv
<1> QED BY <1>2, <1>3 DEF PathInv
=============================================================================
