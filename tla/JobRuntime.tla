----------------------------- MODULE JobRuntime -----------------------------
(***************************************************************************)
(* SecretaryRuntime::run_tool_job_with_finalizer and                       *)
(* JobLifecycleService::cancel_job of atelia-core/src/runtime.rs.          *)
(*                                                                         *)
(* A run is a thread that owns one job and takes one store operation per   *)
(* step, each under the store's mutex; between two steps other runs and    *)
(* cancellations take theirs.  An operation that returns an error ends the *)
(* run with that error, whatever it has committed before: there is no      *)
(* recovery.  A crash loses memory, runs and cancellations; a restart      *)
(* loads the snapshot if it validates.                                     *)
(***************************************************************************)
EXTENDS Ledger

CONSTANTS
  Outcomes,       \* the policy outcomes the requests can meet
  ToolResults,    \* the statuses the tools can return
  Spillover,      \* whether the runtime spills large outputs to artifacts
  MaxCancels      \* cancellations of one job that can be in flight

ASSUME OutcomesAssumption == Outcomes \subseteq PolicyOutcome
ASSUME ToolResultsAssumption == ToolResults \subseteq ToolResultStatus
ASSUME SpilloverAssumption == Spillover \in BOOLEAN
ASSUME MaxCancelsAssumption == MaxCancels \in Nat

VARIABLES
  run,       \* the local state of each run
  executed,  \* the jobs whose tool has been called
  cancels,   \* cancel_job calls that have read a job and not yet written
  up         \* whether the daemon is running

runtimeVars == <<run, executed, cancels, up>>

Pc == {"idle", "create", "decide", "policy", "block", "start", "invoke",
       "invoked", "execute", "finish", "fail", "ok", "error", "dead"}

Run ==
  [pc : Pc, job : JobRecord, outcome : PolicyOutcome \cup {None},
   result : ToolResultStatus \cup {None}, trail : SUBSET Nat,
   key : Key \cup {None}, sig : Sig \cup {None}]

IdleRun ==
  [pc |-> "idle", job |-> NewJobRecord, outcome |-> None, result |-> None,
   trail |-> {}, key |-> None, sig |-> None]

RuntimeInit ==
  /\ run = [j \in Job |-> IdleRun]
  /\ executed = {}
  /\ cancels = {}
  /\ up = TRUE

GoTo(j, pc) == run' = [run EXCEPT ![j].pc = pc]

\* The `?' after a store operation.
ReturnErr(j) == GoTo(j, "error")

\* A call of run_tool_job_with_finalizer that has passed its argument checks.
StartRun(j, key, sig) ==
  /\ up
  /\ run[j].pc = "idle"
  /\ run' = [run EXCEPT ![j] = [IdleRun EXCEPT !.pc = "create", !.key = key,
                                               !.sig = sig]]
  /\ UNCHANGED <<ledgerVars, executed, cancels, up>>

CreateJob(j) ==
  LET ok == create_job_with_initial_event_ok(mem, j)
      draft == create_job_with_initial_event(mem, j)
  IN /\ run[j].pc = "create"
     /\ \/ /\ Commit(ok, draft)
           /\ run' = [run EXCEPT ![j].pc = "decide", ![j].job = draft.jobs[j],
                                 ![j].trail = {Len(draft.events)}]
        \/ Reject(ok, draft) /\ ReturnErr(j)
     /\ UNCHANGED <<executed, cancels, up>>

\* DefaultPolicyEngine::evaluate, then the decision is stored.
DecidePolicy(j) ==
  \E outcome \in Outcomes :
    LET ok == create_policy_decision_ok(mem, j)
        draft == create_policy_decision(mem, j, outcome)
    IN /\ run[j].pc = "decide"
       /\ \/ /\ Commit(ok, draft)
             /\ run' = [run EXCEPT ![j].pc = "policy", ![j].outcome = outcome]
          \/ Reject(ok, draft) /\ ReturnErr(j)
       /\ UNCHANGED <<executed, cancels, up>>

\* One append_job_event_and_update_job of the run with its copy of the job.
AppendStep(j, at, next, rec, ev) ==
  LET ok == append_job_event_and_update_job_ok(mem, j, rec, ev)
      draft == append_job_event_and_update_job(mem, j, rec, ev)
  IN /\ run[j].pc = at
     /\ \/ /\ Commit(ok, draft)
           /\ run' = [run EXCEPT ![j].pc = next, ![j].job = draft.jobs[j],
                                 ![j].trail = @ \cup {Len(draft.events)}]
        \/ Reject(ok, draft) /\ ReturnErr(j)
     /\ UNCHANGED <<executed, cancels, up>>

\* Mutant: a request that needs approval runs like an audited one.
RunUnapproved(j) ==
  AppendStep(j, "policy",
    IF run[j].outcome = "Blocked" THEN "block" ELSE "start",
    [run[j].job EXCEPT !.policy = run[j].outcome], Event(j, "PolicyDecided"))

RecordPolicy(j) ==
  AppendStep(j, "policy",
    IF run[j].outcome \in {"Blocked", "NeedsApproval"} THEN "block" ELSE "start",
    [run[j].job EXCEPT !.policy = run[j].outcome], Event(j, "PolicyDecided"))

TransitionStep(j, at, next, status) ==
  AppendStep(j, at, next, transition_status(run[j].job, status),
             StatusChanged(j, run[j].job.status, status))

\* Mutant: a blocked run returns its receipt before it blocks the job.
ReturnUnblocked(j) ==
  /\ run[j].pc = "block"
  /\ GoTo(j, "ok")
  /\ UNCHANGED <<ledgerVars, executed, cancels, up>>

BlockJob(j) == TransitionStep(j, "block", "ok", "Blocked")

StartJob(j) == TransitionStep(j, "start", "invoke", "Running")

CreateInvocation(j) ==
  LET ok == create_tool_invocation_ok(mem, j)
      draft == create_tool_invocation(mem, j)
  IN /\ run[j].pc = "invoke"
     /\ \/ Commit(ok, draft) /\ GoTo(j, "invoked")
        \/ Reject(ok, draft) /\ ReturnErr(j)
     /\ UNCHANGED <<executed, cancels, up>>

RecordInvocation(j) ==
  AppendStep(j, "invoked", "execute", run[j].job, Event(j, "ToolInvoked"))

\* The tool runs outside the store's mutex; its output is then validated,
\* spilled and rendered.  An output that one of these refuses fails the job.
\* When a spilled output is refused by the second rendering, the copy of the
\* job already names the audit event of the commit that never comes.
ExecuteTool(j) ==
  /\ run[j].pc = "execute"
  /\ executed' = executed \cup {j}
  /\ \/ \E result \in ToolResults :
          run' = [run EXCEPT ![j].pc = "finish", ![j].result = result]
     \/ GoTo(j, "fail")
     \/ /\ Spillover
        /\ run' = [run EXCEPT ![j].pc = "fail", ![j].job.latest = Unrecorded]
  /\ UNCHANGED <<ledgerVars, cancels, up>>

FinishJob(j) ==
  LET r == run[j]
      ok == record_tool_result_audit_terminal_ok(mem, j, r.job, r.result,
                                                 r.key, r.sig, r.trail)
      draft == record_tool_result_audit_terminal(mem, j, r.job, r.result,
                                                 r.key, r.sig, r.trail)
  IN /\ r.pc = "finish"
     /\ \/ /\ Commit(ok, draft)
           /\ run' = [run EXCEPT ![j].pc = "ok", ![j].job = draft.jobs[j],
                        ![j].trail = @ \cup ((Len(mem.events) + 1) .. Len(draft.events))]
        \/ Reject(ok, draft) /\ ReturnErr(j)
     /\ UNCHANGED <<executed, cancels, up>>

\* append_failed_job_event, then the error of the tool's output is returned.
FailJob(j) == TransitionStep(j, "fail", "error", "Failed")

-----------------------------------------------------------------------------
(* cancel_job: read the job, then write the copy in two stages.            *)

CancelRead(j) ==
  /\ up
  /\ mem.jobs[j].status \in {"Queued", "Running"}
  /\ Cardinality({c \in cancels : c.id = j}) < MaxCancels
  /\ cancels' = cancels \cup {[id |-> j, job |-> mem.jobs[j]]}
  /\ UNCHANGED <<ledgerVars, run, executed, up>>

CancelWrite(c) ==
  LET requested == [c.job EXCEPT !.requested = TRUE]
      canceled == transition_status(requested, "Canceled")
      ev1 == Event(c.id, "CancellationRequested")
      ev2 == StatusChanged(c.id, c.job.status, "Canceled")
      ok == append_job_events_and_update_job_ok(mem, c.id, requested, ev1,
                                                canceled, ev2)
      draft == append_job_events_and_update_job(mem, c.id, requested, ev1,
                                                canceled, ev2)
  IN /\ Commit(ok, draft) \/ Reject(ok, draft)
     /\ cancels' = cancels \ {c}
     /\ UNCHANGED <<run, executed, up>>

-----------------------------------------------------------------------------
(* The daemon stops and starts.                                            *)

Crash ==
  /\ Faults /\ up
  /\ up' = FALSE
  /\ cancels' = {}
  /\ run' = [j \in Job |-> IF run[j].pc \in {"idle", "ok", "error"} THEN run[j]
                           ELSE [IdleRun EXCEPT !.pc = "dead"]]
  /\ UNCHANGED <<ledgerVars, executed>>

\* Mutant: the receipts are not loaded.
RestartWithoutReceipts ==
  /\ ~up
  /\ validate_loaded_store(disk)
  /\ mem' = [disk EXCEPT !.receipts = {}]
  /\ up' = TRUE
  /\ UNCHANGED <<disk, seen, run, executed, cancels>>

Restart ==
  /\ ~up
  /\ validate_loaded_store(disk)
  /\ mem' = disk
  /\ up' = TRUE
  /\ UNCHANGED <<disk, seen, run, executed, cancels>>

-----------------------------------------------------------------------------
RunStep(j) ==
  \/ CreateJob(j) \/ DecidePolicy(j) \/ RecordPolicy(j) \/ BlockJob(j)
  \/ StartJob(j) \/ CreateInvocation(j) \/ RecordInvocation(j)
  \/ ExecuteTool(j) \/ FinishJob(j) \/ FailJob(j)

CancelStep == (\E j \in Job : CancelRead(j)) \/ (\E c \in cancels : CancelWrite(c))
=============================================================================
