------------------------------ MODULE JobClock ------------------------------
(***************************************************************************)
(* The times of a job.  The runtime reads the wall clock for every change  *)
(* of a job's status (LedgerTimestamp::now), and the wall clock may step   *)
(* back.  Domain and Ledger leave times out; here is one job with its      *)
(* times, the run that drives it, and cancellations that may come between  *)
(* any two of its steps, under a clock that may show anything.             *)
(***************************************************************************)
EXTENDS Domain, Integers

CONSTANTS MaxTime, MaxSteps \* bounds: times the clock shows, and how often it is set

VARIABLES clock,   \* what LedgerTimestamp::now returns
          steps,   \* how often the clock was set
          stored,  \* the job in the store, in a set that is empty before
          job,     \* the run's copy
          pc,      \* the run's next step
          ended    \* why the run ended: its outcome, or the error
vars == <<clock, steps, stored, job, pc, ended>>

Time == 0..MaxTime

\* A job as JobRecord::new makes it; latest_event_id counts its events.
JobRecordNew(at) ==
  [status |-> "Queued", created_at |-> at, updated_at |-> at, started_at |-> {},
   completed_at |-> {}, canceled |-> FALSE, latest_event_id |-> 1]

----------------------------------------------------------------------------
(* The rules of the domain type.                                           *)

ensure_monotonic_transition_timestamp(record, at) ==
  \A t \in {record.updated_at} \cup record.started_at \cup record.completed_at : t <= at

\* The job after a change of status; none if the change is refused.
transition_status(record, next, at) ==
  IF can_transition_to(record.status, next) /\ ensure_monotonic_transition_timestamp(record, at)
  THEN {[record EXCEPT !.status = next, !.updated_at = at,
                       !.started_at = IF next = "Running" /\ @ = {} THEN {at} ELSE @,
                       !.completed_at = IF is_terminal(next) /\ @ = {} THEN {at} ELSE @]}
  ELSE {}

----------------------------------------------------------------------------
(* The rules of the store.                                                 *)

\* Mutant: time must pass between two updates.
LifecycleOfLaterUpdates(existing, record) ==
  /\ existing.updated_at < record.updated_at
  /\ IF record.status # existing.status
     THEN \E e \in transition_status(existing, record.status, record.updated_at) :
            record.started_at = e.started_at /\ record.completed_at = e.completed_at
     ELSE record.started_at = existing.started_at /\ record.completed_at = existing.completed_at

\* An update is one that the domain type allows, and is told by an event of
\* its kind.
validate_job_lifecycle_update(existing, record) ==
  /\ existing.updated_at <= record.updated_at
  /\ IF record.status # existing.status
     THEN \E e \in transition_status(existing, record.status, record.updated_at) :
            record.started_at = e.started_at /\ record.completed_at = e.completed_at
     ELSE record.started_at = existing.started_at /\ record.completed_at = existing.completed_at
  /\ record.status = "Running" => record.started_at # {}
  /\ is_terminal(record.status) <=> record.completed_at # {}

\* The job keeps the time it was created at.
validate_job_update_against(existing, record) ==
  record.created_at = existing.created_at /\ validate_job_lifecycle_update(existing, record)

\* The checks of a start.
validate_loaded_job_record(record) ==
  /\ record.created_at <= record.updated_at
  /\ \A t \in record.started_at \cup record.completed_at : record.created_at <= t
  /\ record.status = "Running" => record.started_at # {}
  /\ is_terminal(record.status) <=> record.completed_at # {}

\* The checks of a start on the job of a receipt.
validate_loaded_submit_job_receipt_job(record) ==
  /\ record.created_at <= record.updated_at
  /\ \A t \in record.started_at \cup record.completed_at :
       record.created_at <= t /\ t <= record.updated_at
  /\ \A s \in record.started_at, c \in record.completed_at : s <= c

----------------------------------------------------------------------------
(* The run.                                                                *)

Init ==
  /\ clock \in Time /\ steps = 0
  /\ stored = {} /\ job = JobRecordNew(0) /\ pc = "Submit" /\ ended = None

\* Time passes, or the clock is set.
SetClock ==
  /\ steps < MaxSteps /\ steps' = steps + 1
  /\ \E t \in Time \ {clock} : clock' = t
  /\ UNCHANGED <<stored, job, pc, ended>>

\* create_job_with_initial_event.
Submit ==
  /\ pc = "Submit" /\ pc' = "Decide"
  /\ job' = JobRecordNew(clock) /\ stored' = {job'}
  /\ UNCHANGED <<clock, steps, ended>>

\* append_job_event_and_update_job: the copy is stored unless another update
\* came first.
Store(record, next) ==
  LET current == CHOOSE s \in stored : TRUE
      fresh == record.latest_event_id = current.latest_event_id
      taken == fresh /\ validate_job_update_against(current, record)
      after == [record EXCEPT !.latest_event_id = @ + 1]
  IN /\ stored' = IF taken THEN {after} ELSE stored
     /\ job' = IF taken THEN after ELSE job
     /\ pc' = IF taken THEN next ELSE "Ended"
     /\ ended' = CASE ~fresh -> "Stale"
                   [] fresh /\ ~taken -> "Lifecycle"
                   [] taken -> IF next = "Ended" THEN record.status ELSE None

\* A step that changes the status first changes the copy.
Change(status, next) ==
  LET changed == transition_status(job, status, clock)
  IN IF changed = {}
     THEN pc' = "Ended" /\ ended' = "Clock" /\ UNCHANGED <<stored, job>>
     ELSE \E record \in changed : Store(record, next)

\* The event of the policy decision changes no time.
Decide ==
  /\ pc = "Decide"
  /\ \E next \in {"Block", "Start"} : Store(job, next)
  /\ UNCHANGED <<clock, steps>>

Block == pc = "Block" /\ Change("Blocked", "Ended") /\ UNCHANGED <<clock, steps>>

Start == pc = "Start" /\ Change("Running", "Invoke") /\ UNCHANGED <<clock, steps>>

Invoke == pc = "Invoke" /\ Store(job, "Finish") /\ UNCHANGED <<clock, steps>>

\* The tool has run.  append_failed_job_event, or the three events of its end.
Finish ==
  /\ pc = "Finish"
  /\ \E result \in ToolResultStatus : Change(terminal_status(result), "Ended")
  /\ UNCHANGED <<clock, steps>>

Run == Submit \/ Decide \/ Block \/ Start \/ Invoke \/ Finish

\* Mutant: the job is marked with the time of the request, whatever it is.
CancelAtOnce ==
  \E current \in stored :
    /\ current.status \in {"Queued", "Running"}
    /\ stored' = {[current EXCEPT !.status = "Canceled", !.canceled = TRUE,
                                  !.completed_at = {clock}, !.latest_event_id = @ + 2]}
    /\ UNCHANGED <<clock, steps, job, pc, ended>>

\* A request that is refused changes nothing; it may be made again.
cancel_job ==
  \E current \in stored :
    /\ current.status \in {"Queued", "Running"}
    /\ \E record \in transition_status([current EXCEPT !.canceled = TRUE], "Canceled", clock) :
         /\ validate_job_update_against(current, record)
         /\ stored' = {[record EXCEPT !.latest_event_id = @ + 2]}
    /\ UNCHANGED <<clock, steps, job, pc, ended>>

\* The run is over, and requests to cancel the job are refused.
Done == pc = "Ended" /\ UNCHANGED vars

Next == SetClock \/ Run \/ cancel_job \/ Done

Spec == Init /\ [][Next]_vars

\* A client that wants the job ended asks again and again.  The run goes on by
\* itself: it is a thread that waits for nobody.
FairSpec == Spec /\ WF_vars(Run) /\ WF_vars(cancel_job)

----------------------------------------------------------------------------
(* Properties.                                                             *)

\* Whatever the clock shows when the run and the cancellations read it, the job
\* that is stored passes the checks of a start, and a receipt of it would.
StoredTimesLoad ==
  \A s \in stored : validate_loaded_job_record(s) /\ validate_loaded_submit_job_receipt_job(s)

\* The store refuses an update of the run only when another came first: its
\* lifecycle rules never disagree with those the run has already applied.
LifecycleRulesAgree == ended # "Lifecycle"

\* A run that the clock stopped leaves its job to be canceled, and the
\* cancellation succeeds once the clock has caught up with the job's times.
StoppedJobsCanBeEnded ==
  <>[](\A s \in stored : s.updated_at <= clock) => <>(\E s \in stored : is_terminal(s.status))
=============================================================================
