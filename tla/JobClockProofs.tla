--------------------------- MODULE JobClockProofs ---------------------------
(***************************************************************************)
(* That no clock makes a stored job one that a start refuses, and that the *)
(* lifecycle rules of the store never disagree with those of the run, for  *)
(* every range of times and every number of clock changes.                 *)
(***************************************************************************)
EXTENDS JobClock, TLAPS

\* The records of jobs.
JobRecord ==
  [status : JobStatus, created_at : Int, updated_at : Int, started_at : SUBSET Int,
   completed_at : SUBSET Int, canceled : BOOLEAN, latest_event_id : Int]

\* What the store's rules give for the times of a job, as one predicate.
Ordered(r) == validate_loaded_job_record(r) /\ validate_loaded_submit_job_receipt_job(r)

\* The times of a job after a change of status.
StartedAfter(started, next, at) == IF next = "Running" /\ started = {} THEN {at} ELSE started

CompletedAfter(completed, next, at) ==
  IF is_terminal(next) /\ completed = {} THEN {at} ELSE completed

\* The inductive invariant.  The run's copy is the stored job unless another
\* update came between, and such an update has a later event.
ClockInv ==
  /\ clock \in Int
  /\ job \in JobRecord /\ stored \in SUBSET JobRecord
  /\ pc \in {"Submit", "Decide", "Block", "Start", "Invoke", "Finish", "Ended"}
  /\ pc = "Submit" => stored = {}
  /\ pc # "Submit" => \E c \in stored : stored = {c}
  /\ \A c \in stored : Ordered(c)
  /\ \A c \in stored : job.latest_event_id <= c.latest_event_id
  /\ \A c \in stored : job.latest_event_id = c.latest_event_id => job = c
  /\ ended # "Lifecycle"

\* transition_status changes the status and the times, and only them.
LEMMA TransitionRecord ==
  ASSUME NEW r \in JobRecord, NEW next \in JobStatus, NEW at \in Int,
         NEW e \in transition_status(r, next, at)
  PROVE  /\ e \in JobRecord
         /\ e.status = next /\ e.created_at = r.created_at /\ e.updated_at = at
         /\ e.latest_event_id = r.latest_event_id
         /\ e.started_at = StartedAfter(r.started_at, next, at)
         /\ e.completed_at = CompletedAfter(r.completed_at, next, at)
<1> DEFINE started == StartedAfter(r.started_at, next, at)
           completed == CompletedAfter(r.completed_at, next, at)
<1>1. e = [r EXCEPT !.status = next, !.updated_at = at, !.started_at = started,
                    !.completed_at = completed]
  BY DEF transition_status, StartedAfter, CompletedAfter
<1>2. {at} \in SUBSET Int
  OBVIOUS
<1>3. started \in SUBSET Int /\ completed \in SUBSET Int
  BY <1>2 DEF JobRecord, StartedAfter, CompletedAfter
<1> HIDE DEF started, completed
<1>4. e = [status |-> next, created_at |-> r.created_at, updated_at |-> at,
           started_at |-> started, completed_at |-> completed,
           canceled |-> r.canceled, latest_event_id |-> r.latest_event_id]
  BY <1>1, Zenon DEF JobRecord
<1>5. e \in JobRecord
  BY <1>3, <1>4 DEF JobRecord
<1>6. /\ e.status = next /\ e.created_at = r.created_at /\ e.updated_at = at
      /\ e.latest_event_id = r.latest_event_id
      /\ e.started_at = started /\ e.completed_at = completed
  BY <1>4
<1> QED
  BY <1>5, <1>6 DEF started, completed

\* transition_status is refused unless the change is one of the status machine
\* and the time is not before any time of the job.
LEMMA TransitionGuard ==
  ASSUME NEW r, NEW next, NEW at, NEW e \in transition_status(r, next, at)
  PROVE  /\ can_transition_to(r.status, next)
         /\ r.updated_at <= at
         /\ \A t \in r.started_at \cup r.completed_at : t <= at
  BY DEF transition_status, ensure_monotonic_transition_timestamp

\* An update that the store takes keeps a job's times in order.
LEMMA UpdateKeepsOrder ==
  ASSUME NEW c \in JobRecord, NEW r \in JobRecord, Ordered(c),
         validate_job_update_against(c, r)
  PROVE  Ordered(r)
<1>1. /\ r.created_at = c.created_at /\ c.updated_at <= r.updated_at
      /\ r.status = "Running" => r.started_at # {}
      /\ is_terminal(r.status) <=> r.completed_at # {}
  BY DEF validate_job_update_against, validate_job_lifecycle_update
<1>2. /\ c.created_at \in Int /\ c.updated_at \in Int /\ r.updated_at \in Int
      /\ c.started_at \in SUBSET Int /\ c.completed_at \in SUBSET Int
      /\ r.started_at \in SUBSET Int /\ r.completed_at \in SUBSET Int
      /\ c.status \in JobStatus /\ r.status \in JobStatus
  BY DEF JobRecord
<1>3. /\ c.created_at <= c.updated_at
      /\ \A t \in c.started_at \cup c.completed_at : c.created_at <= t /\ t <= c.updated_at
      /\ \A s \in c.started_at, d \in c.completed_at : s <= d
      /\ is_terminal(c.status) <=> c.completed_at # {}
  BY DEF Ordered, validate_loaded_job_record, validate_loaded_submit_job_receipt_job
<1>5. r.created_at <= r.updated_at
  BY <1>1, <1>2, <1>3
<1>4. /\ \A t \in r.started_at \cup r.completed_at : r.created_at <= t /\ t <= r.updated_at
      /\ \A s \in r.started_at, d \in r.completed_at : s <= d
  <2>1. CASE r.status = c.status
    <3>1. r.started_at = c.started_at /\ r.completed_at = c.completed_at
      BY <2>1 DEF validate_job_update_against, validate_job_lifecycle_update
    <3> QED
      BY <3>1, <1>1, <1>2, <1>3
  <2>2. CASE r.status # c.status
    <3>1. PICK e \in transition_status(c, r.status, r.updated_at) :
            r.started_at = e.started_at /\ r.completed_at = e.completed_at
      BY <2>2 DEF validate_job_update_against, validate_job_lifecycle_update
    <3>2. /\ can_transition_to(c.status, r.status)
          /\ \A t \in c.started_at \cup c.completed_at : t <= r.updated_at
      BY <3>1, TransitionGuard
    <3>6. /\ r.started_at = StartedAfter(c.started_at, r.status, r.updated_at)
          /\ r.completed_at = CompletedAfter(c.completed_at, r.status, r.updated_at)
      BY <3>1, <1>2, TransitionRecord
    <3>3. c.completed_at = {}
      BY <3>2, <2>2, <1>2, <1>3 DEF can_transition_to, is_terminal, JobStatus
    <3>4. \A t \in r.started_at \cup r.completed_at : r.created_at <= t /\ t <= r.updated_at
      <4>1. \A t \in r.started_at \cup r.completed_at : t = r.updated_at \/ t \in c.started_at
        BY <3>6, <3>3 DEF StartedAfter, CompletedAfter
      <4> QED
        BY <4>1, <3>2, <1>1, <1>2, <1>3, <1>5
    <3>5. \A s \in r.started_at, d \in r.completed_at : s <= d
      BY <3>6, <3>3, <3>4, <1>2 DEF StartedAfter, CompletedAfter
    <3> QED
      BY <3>4, <3>5
  <2> QED
    BY <2>1, <2>2
<1> QED
  BY <1>1, <1>4, <1>5 DEF Ordered, validate_loaded_job_record, validate_loaded_submit_job_receipt_job

\* What the run derives from a stored job is what the store's rules allow.
LEMMA TransitionsAreAllowed ==
  ASSUME NEW c \in JobRecord, Ordered(c), NEW next \in JobStatus, NEW at \in Int,
         NEW base \in JobRecord,
         base.status = c.status, base.created_at = c.created_at,
         base.updated_at = c.updated_at, base.started_at = c.started_at,
         base.completed_at = c.completed_at,
         NEW e \in transition_status(base, next, at)
  PROVE  validate_job_update_against(c, e)
<1>1. /\ can_transition_to(c.status, next)
      /\ c.updated_at <= at
      /\ \A t \in c.started_at \cup c.completed_at : t <= at
  BY TransitionGuard
<1>2. /\ e.status = next /\ e.created_at = c.created_at /\ e.updated_at = at
      /\ e.started_at = StartedAfter(c.started_at, next, at)
      /\ e.completed_at = CompletedAfter(c.completed_at, next, at)
  BY TransitionRecord
<1>3. /\ c.status = "Running" => c.started_at # {}
      /\ is_terminal(c.status) <=> c.completed_at # {}
  BY DEF Ordered, validate_loaded_job_record
<1>4. ~is_terminal(next) => ~is_terminal(c.status)
  BY <1>1 DEF can_transition_to, is_terminal
<1>5. /\ next = "Running" => e.started_at # {}
      /\ is_terminal(next) <=> e.completed_at # {}
  BY <1>2, <1>3, <1>4 DEF StartedAfter, CompletedAfter
<1>6. CASE next = c.status
  <2>1. e.started_at = c.started_at /\ e.completed_at = c.completed_at
    BY <1>2, <1>3, <1>6 DEF StartedAfter, CompletedAfter
  <2> QED
    BY <2>1, <1>1, <1>2, <1>5, <1>6 DEF validate_job_update_against, validate_job_lifecycle_update
<1>7. CASE next # c.status
  <2> DEFINE f == [c EXCEPT !.status = next, !.updated_at = at,
                            !.started_at = IF next = "Running" /\ @ = {} THEN {at} ELSE @,
                            !.completed_at = IF is_terminal(next) /\ @ = {} THEN {at} ELSE @]
  <2>1. ensure_monotonic_transition_timestamp(c, at)
    BY <1>1 DEF ensure_monotonic_transition_timestamp
  <2>2. f \in transition_status(c, next, at)
    BY <2>1, <1>1 DEF transition_status
  <2> HIDE DEF f
  <2>3. e.started_at = f.started_at /\ e.completed_at = f.completed_at
    BY <2>2, <1>2, TransitionRecord
  <2> QED
    BY <2>2, <2>3, <1>1, <1>2, <1>5, <1>7, Zenon DEF validate_job_update_against, validate_job_lifecycle_update
<1> QED
  BY <1>6, <1>7

\* The order of a job's times has nothing to do with its events.
LEMMA OrderIgnoresEvents ==
  ASSUME NEW r \in JobRecord, Ordered(r), NEW n \in Int
  PROVE  /\ [r EXCEPT !.latest_event_id = n] \in JobRecord
         /\ [r EXCEPT !.latest_event_id = n].latest_event_id = n
         /\ Ordered([r EXCEPT !.latest_event_id = n])
<1> DEFINE a == [r EXCEPT !.latest_event_id = n]
<1>1. /\ a \in JobRecord /\ a.latest_event_id = n /\ a.status = r.status
      /\ a.created_at = r.created_at /\ a.updated_at = r.updated_at
      /\ a.started_at = r.started_at /\ a.completed_at = r.completed_at
  BY DEF JobRecord
<1> HIDE DEF a
<1>2. Ordered(a)
  BY <1>1 DEF Ordered, validate_loaded_job_record, validate_loaded_submit_job_receipt_job
<1> QED
  BY <1>1, <1>2 DEF a

\* The steps of the run after it has submitted the job.
Later == {"Decide", "Block", "Start", "Invoke", "Finish", "Ended"}

\* A step that stores a record keeps the invariant if the store's lifecycle
\* rules allow the record whenever it is derived from the stored job.
LEMMA StoreKeepsInvariant ==
  ASSUME ClockInv, pc # "Submit", NEW record \in JobRecord, NEW next \in Later,
         record.latest_event_id = job.latest_event_id,
         \A c \in stored : job = c => validate_job_update_against(c, record),
         Store(record, next), clock' = clock
  PROVE  ClockInv'
<1>1. PICK c \in stored : stored = {c}
  BY DEF ClockInv
<1>2. /\ c \in JobRecord /\ Ordered(c) /\ job \in JobRecord /\ clock \in Int
      /\ job.latest_event_id <= c.latest_event_id
      /\ job.latest_event_id = c.latest_event_id => job = c
  BY <1>1 DEF ClockInv
<1>3. (CHOOSE s \in stored : TRUE) = c
  BY <1>1
<1> DEFINE fresh == record.latest_event_id = c.latest_event_id
           after == [record EXCEPT !.latest_event_id = @ + 1]
<1>4. fresh => validate_job_update_against(c, record)
  BY <1>1, <1>2
<1>5. CASE fresh
  <2>1. /\ stored' = {after} /\ job' = after /\ pc' = next
        /\ ended' = IF next = "Ended" THEN record.status ELSE None
    BY <1>3, <1>4, <1>5, Zenon DEF Store
  <2>2. Ordered(record)
    BY <1>2, <1>4, <1>5, UpdateKeepsOrder
  <2>3. record.latest_event_id \in Int /\ record.status \in JobStatus
    BY DEF JobRecord
  <2>4. after \in JobRecord /\ Ordered(after)
    BY <2>2, <2>3, OrderIgnoresEvents
  <2>5. after.latest_event_id \in Int
    BY <2>4 DEF JobRecord
  <2>6. ended' # "Lifecycle"
    BY <2>1, <2>3 DEF JobStatus, None
  <2> HIDE DEF after
  <2>7. stored' \in SUBSET JobRecord
    BY <2>1, <2>4
  <2> QED
    BY <1>2, <2>1, <2>4, <2>5, <2>6, <2>7 DEF ClockInv, Later, Ordered, validate_loaded_job_record,
       validate_loaded_submit_job_receipt_job
<1>6. CASE ~fresh
  <2>1. stored' = stored /\ job' = job /\ pc' = "Ended" /\ ended' = "Stale"
    BY <1>3, <1>6, Zenon DEF Store
  <2> QED
    BY <1>1, <2>1 DEF ClockInv, Ordered, validate_loaded_job_record, validate_loaded_submit_job_receipt_job
<1> QED
  BY <1>5, <1>6

\* So does a step that stores the job with another status.
LEMMA ChangeKeepsInvariant ==
  ASSUME ClockInv, pc # "Submit", NEW status \in JobStatus, NEW next \in Later,
         Change(status, next), clock' = clock
  PROVE  ClockInv'
<1>1. job \in JobRecord /\ clock \in Int
  BY DEF ClockInv
<1>2. CASE transition_status(job, status, clock) = {}
  <2>1. pc' = "Ended" /\ ended' = "Clock" /\ stored' = stored /\ job' = job
    BY <1>2 DEF Change
  <2> QED
    BY <2>1 DEF ClockInv, Ordered, validate_loaded_job_record, validate_loaded_submit_job_receipt_job
<1>3. CASE transition_status(job, status, clock) # {}
  <2>1. PICK record \in transition_status(job, status, clock) : Store(record, next)
    BY <1>3 DEF Change
  <2>2. record \in JobRecord /\ record.latest_event_id = job.latest_event_id
    BY <1>1, <2>1, TransitionRecord
  <2>3. \A c \in stored : Ordered(c)
    BY DEF ClockInv
  <2>4. \A c \in stored : job = c => validate_job_update_against(c, record)
    BY <1>1, <2>1, <2>3, TransitionsAreAllowed
  <2> QED
    BY <2>1, <2>2, <2>4, StoreKeepsInvariant
<1> QED
  BY <1>2, <1>3

\* And a step that stores the job with the same status and times.
LEMMA SameKeepsInvariant ==
  ASSUME ClockInv, pc # "Submit", NEW next \in Later, Store(job, next), clock' = clock
  PROVE  ClockInv'
<1>1. job \in JobRecord /\ \A c \in stored : Ordered(c)
  BY DEF ClockInv
<1>2. \A c \in stored : job = c => validate_job_update_against(c, job)
  <2> SUFFICES ASSUME NEW c \in stored, job = c
               PROVE  validate_job_update_against(c, c)
    OBVIOUS
  <2>1. c.updated_at \in Int
    BY <1>1 DEF JobRecord
  <2>2. Ordered(c)
    BY <1>1
  <2> QED
    BY <2>1, <2>2 DEF validate_job_update_against, validate_job_lifecycle_update, Ordered,
       validate_loaded_job_record
<1> QED
  BY <1>1, <1>2, StoreKeepsInvariant

\* A cancellation stores a job with a later event.
LEMMA CancelKeepsInvariant ==
  ASSUME ClockInv, cancel_job
  PROVE  ClockInv'
<1>1. PICK c \in stored :
        \E record \in transition_status([c EXCEPT !.canceled = TRUE], "Canceled", clock) :
           /\ validate_job_update_against(c, record)
           /\ stored' = {[record EXCEPT !.latest_event_id = @ + 2]}
  BY Zenon DEF cancel_job
<1>2. PICK record \in transition_status([c EXCEPT !.canceled = TRUE], "Canceled", clock) :
           /\ validate_job_update_against(c, record)
           /\ stored' = {[record EXCEPT !.latest_event_id = @ + 2]}
  BY <1>1
<1>3. clock' = clock /\ job' = job /\ pc' = pc /\ ended' = ended
  BY DEF cancel_job
<1>4. /\ c \in JobRecord /\ Ordered(c) /\ job \in JobRecord /\ clock \in Int /\ pc # "Submit"
      /\ job.latest_event_id <= c.latest_event_id
  BY DEF ClockInv
<1> DEFINE base == [c EXCEPT !.canceled = TRUE]
           after == [record EXCEPT !.latest_event_id = @ + 2]
<1>5. base \in JobRecord /\ base.latest_event_id = c.latest_event_id
  BY <1>4, Zenon DEF JobRecord
<1>6. "Canceled" \in JobStatus
  BY DEF JobStatus
<1>15. record \in transition_status(base, "Canceled", clock)
  OBVIOUS
<1> HIDE DEF base
<1>7. record \in JobRecord /\ record.latest_event_id = c.latest_event_id
  BY <1>15, <1>4, <1>5, <1>6, TransitionRecord
<1>8. Ordered(record)
  BY <1>2, <1>4, <1>7, UpdateKeepsOrder
<1>9. c.latest_event_id \in Int /\ job.latest_event_id \in Int
  BY <1>4 DEF JobRecord
<1>10. /\ after \in JobRecord /\ Ordered(after)
       /\ after.latest_event_id = c.latest_event_id + 2
  BY <1>7, <1>8, <1>9, OrderIgnoresEvents
<1>11. stored' = {after}
  BY <1>2
<1> HIDE DEF after
<1>12. stored' \in SUBSET JobRecord
  BY <1>10, <1>11
<1>13. /\ job'.latest_event_id <= after.latest_event_id
       /\ job'.latest_event_id # after.latest_event_id
  BY <1>3, <1>4, <1>9, <1>10
<1>14. \A d \in stored' : /\ Ordered(d) /\ job'.latest_event_id <= d.latest_event_id
                          /\ job'.latest_event_id # d.latest_event_id
  BY <1>10, <1>11, <1>13
<1> QED
  BY <1>3, <1>4, <1>11, <1>12, <1>14 DEF ClockInv, Ordered, validate_loaded_job_record,
     validate_loaded_submit_job_receipt_job

\* The invariant holds when the job is submitted: the clock shows anything.
LEMMA SubmitKeepsInvariant ==
  ASSUME ClockInv, Submit
  PROVE  ClockInv'
<1>1. /\ clock \in Int /\ clock' = clock /\ ended' = ended /\ ended # "Lifecycle"
      /\ pc' = "Decide" /\ job' = JobRecordNew(clock) /\ stored' = {job'}
  BY DEF ClockInv, Submit
<1>2. {} \in SUBSET Int /\ "Queued" \in JobStatus
  BY DEF JobStatus
<1>3. job' \in JobRecord
  BY <1>1, <1>2 DEF JobRecordNew, JobRecord
<1>4. /\ job'.status = "Queued" /\ job'.created_at = clock /\ job'.updated_at = clock
      /\ job'.started_at = {} /\ job'.completed_at = {} /\ job'.latest_event_id = 1
  BY <1>1 DEF JobRecordNew
<1>5. Ordered(job')
  BY <1>1, <1>4 DEF Ordered, validate_loaded_job_record, validate_loaded_submit_job_receipt_job,
     is_terminal
<1>6. stored' \in SUBSET JobRecord
  BY <1>1, <1>3
<1>7. \A c \in stored' : Ordered(c) /\ job'.latest_event_id <= c.latest_event_id /\ job' = c
  BY <1>1, <1>4, <1>5
<1> QED
  BY <1>1, <1>3, <1>6, <1>7 DEF ClockInv, Ordered, validate_loaded_job_record,
     validate_loaded_submit_job_receipt_job

\* Every step keeps the invariant.
LEMMA StepKeepsInvariant ==
  ASSUME ClockInv, [Next]_vars
  PROVE  ClockInv'
<1>1. CASE SetClock
  <2>1. /\ stored' = stored /\ job' = job /\ pc' = pc /\ ended' = ended
        /\ \E t \in Time : clock' = t
    BY <1>1 DEF SetClock
  <2>2. clock' \in Int
    BY <2>1 DEF Time
  <2> QED
    BY <2>1, <2>2 DEF ClockInv, Ordered, validate_loaded_job_record, validate_loaded_submit_job_receipt_job
<1>2. CASE Submit
  BY <1>2, SubmitKeepsInvariant
<1>3. CASE Decide
  BY <1>3, SameKeepsInvariant DEF Decide, Later
<1>4. CASE Block
  BY <1>4, ChangeKeepsInvariant DEF Block, Later, JobStatus
<1>5. CASE Start
  BY <1>5, ChangeKeepsInvariant DEF Start, Later, JobStatus
<1>6. CASE Invoke
  BY <1>6, SameKeepsInvariant DEF Invoke, Later
<1>7. CASE Finish
  <2>1. PICK result \in ToolResultStatus : Change(terminal_status(result), "Ended")
    BY <1>7 DEF Finish
  <2>2. terminal_status(result) \in JobStatus
    BY DEF terminal_status, JobStatus
  <2> QED
    BY <1>7, <2>1, <2>2, ChangeKeepsInvariant DEF Finish, Later
<1>8. CASE cancel_job
  BY <1>8, CancelKeepsInvariant
<1>9. CASE Done \/ UNCHANGED vars
  BY <1>9 DEF Done, vars, ClockInv, Ordered, validate_loaded_job_record,
     validate_loaded_submit_job_receipt_job
<1> QED
  BY <1>1, <1>2, <1>3, <1>4, <1>5, <1>6, <1>7, <1>8, <1>9 DEF Next, Run

\* IInv is an invariant.
THEOREM ClockInvariance == Spec => []ClockInv
<1>1. Init => ClockInv
  <2> SUFFICES ASSUME Init PROVE ClockInv
    OBVIOUS
  <2>1. {} \in SUBSET Int /\ "Queued" \in JobStatus /\ {} \in SUBSET JobRecord
    BY DEF JobStatus
  <2>2. job \in JobRecord
    BY <2>1 DEF Init, JobRecordNew, JobRecord
  <2>3. clock \in Int
    BY DEF Init, Time
  <2> QED
    BY <2>1, <2>2, <2>3 DEF Init, ClockInv, None
<1>2. ClockInv /\ [Next]_vars => ClockInv'
  BY StepKeepsInvariant
<1> QED
  BY <1>1, <1>2, PTL DEF Spec

\* Under every clock, the times of the stored job are those that a start accepts,
\* for the job itself and for the receipt of its submission.
THEOREM TimesAlwaysLoad == Spec => []StoredTimesLoad
<1>1. ClockInv => StoredTimesLoad
  BY DEF ClockInv, StoredTimesLoad, Ordered
<1> QED
  BY <1>1, ClockInvariance, PTL

\* Under every clock, the store refuses an update of the run only as stale.
THEOREM RulesAlwaysAgree == Spec => []LifecycleRulesAgree
<1>1. ClockInv => LifecycleRulesAgree
  BY DEF ClockInv, LifecycleRulesAgree
<1> QED
  BY <1>1, ClockInvariance, PTL
=============================================================================
