---------------------------- MODULE LedgerProofs ----------------------------
(***************************************************************************)
(* Facts about the operations of Ledger, for every store value: what a     *)
(* draft keeps of the store it was made from, and which conditions on a    *)
(* store every operation preserves; then, that every commit the runtime    *)
(* and cancel_job make turns a sound store into a sound store and takes    *)
(* nothing back.                                                           *)
(***************************************************************************)
EXTENDS Ledger, TLAPS

\* The statuses of a job that still runs.
Live == {"Queued", "Running"}

\* Log and job records that differ by one event of one job, all else equal.
Appends(s, d, j, rec, ev) ==
  /\ Len(d.events) = Len(s.events) + 1
  /\ d.events[Len(s.events) + 1] = ev
  /\ \A i \in 1 .. Len(s.events) : d.events[i] = s.events[i]
  /\ d.jobs = [s.jobs EXCEPT ![j] = [rec EXCEPT !.latest = Len(s.events) + 1]]
  /\ d.decisions = s.decisions /\ d.invoked = s.invoked
  /\ d.results = s.results /\ d.audited = s.audited
  /\ d.receipts = s.receipts

\* An event says what the update of a job does to its status.
StatusStep(old, new, ev) ==
  IF new # old
    THEN /\ ev.kind = "JobStatusChanged" /\ ev.from = old /\ ev.to = new
         /\ can_transition_to(old, new)
    ELSE ev.kind # "JobStatusChanged"

\* The timestamps that a status needs.
JobShape(rec) ==
  /\ rec.status = "Running" => rec.started
  /\ is_terminal(rec.status) <=> rec.completed

\* The micro step that the commits are made of: one checked event and update of
\* a job that still runs.
LiveAppend(s, d, j, rec, ev) ==
  /\ Appends(s, d, j, rec, ev)
  /\ ev.job = j
  /\ s.jobs[j].status \in Live
  /\ rec.status \in JobStatus
  /\ StatusStep(s.jobs[j].status, rec.status, ev)
  /\ JobShape(rec)
  /\ validate_new_job_event(s, ev)

\* The condition that all operations preserve: types, the records agree with the
\* log, and the snapshot can be loaded.
Good(s) ==
  /\ s \in Store /\ Len(s.events) <= MaxSequence
  /\ RecordsMatchLog(s)
  /\ validate_loaded_store(s)

-----------------------------------------------------------------------------
(* append_event_locked and the update of the job record.                   *)

\* Appending one event and writing the job's record changes one job record and
\* the end of the log, and nothing else.
LEMMA AppendFacts ==
  ASSUME NEW s \in Store, NEW j \in Job, NEW rec \in JobRecord, NEW ev \in JobEvent,
         Len(s.events) + 1 <= MaxSequence
  PROVE  /\ AppendAndUpdate(s, j, rec, ev) \in Store
         /\ Appends(s, AppendAndUpdate(s, j, rec, ev), j, rec, ev)
<1> DEFINE d == AppendAndUpdate(s, j, rec, ev)
           log == Append(s.events, ev)
           jobs == [s.jobs EXCEPT ![j] = [rec EXCEPT !.latest = Len(s.events) + 1]]
<1>1. s.events \in Seq(JobEvent) /\ s.jobs \in [Job -> JobRecord]
  BY DEF Store
<1>2. log \in Seq(JobEvent) /\ Len(log) = Len(s.events) + 1
      /\ log[Len(s.events) + 1] = ev
      /\ \A i \in 1 .. Len(s.events) : log[i] = s.events[i]
  BY <1>1
<1>3. [rec EXCEPT !.latest = Len(s.events) + 1] \in JobRecord
  <2>1. Len(s.events) + 1 \in 0 .. MaxSequence + 1
    BY <1>1, MaxSequenceAssumption
  <2> QED BY <2>1 DEF JobRecord
<1>4. jobs \in [Job -> JobRecord]
  BY <1>1, <1>3
<1>5. /\ d.events = log /\ d.jobs = jobs
      /\ d.decisions = s.decisions /\ d.invoked = s.invoked
      /\ d.results = s.results /\ d.audited = s.audited
      /\ d.receipts = s.receipts
  BY DEF AppendAndUpdate, Store
<1>6. d \in Store
  BY <1>2, <1>4, Zenon DEF AppendAndUpdate, Store
<1> HIDE DEF d, log
<1>7. Appends(s, d, j, rec, ev)
  BY <1>2, <1>5 DEF Appends
<1> QED BY <1>6, <1>7 DEF d

\* The events of a job after an append.
LEMMA AppendChain ==
  ASSUME NEW s \in Store, NEW d \in Store, NEW j \in Job, NEW rec \in JobRecord,
         NEW ev \in JobEvent, Appends(s, d, j, rec, ev), ev.job = j
  PROVE  /\ Len(s.events) \in Nat
         /\ EventChain(d, j) = EventChain(s, j) \cup {Len(s.events) + 1}
         /\ StatusChanges(d, j) =
              StatusChanges(s, j) \cup
                (IF ev.kind = "JobStatusChanged" THEN {Len(s.events) + 1} ELSE {})
         /\ \A i \in Job \ {j} : /\ EventChain(d, i) = EventChain(s, i)
                                 /\ StatusChanges(d, i) = StatusChanges(s, i)
<1>1. s.events \in Seq(JobEvent) /\ d.events \in Seq(JobEvent)
  BY DEF Store
<1>2. Len(s.events) \in Nat /\ 1 .. Len(d.events) = (1 .. Len(s.events)) \cup {Len(s.events) + 1}
  BY <1>1 DEF Appends
<1>3. EventChain(d, j) = EventChain(s, j) \cup {Len(s.events) + 1}
  BY <1>2 DEF Appends, EventChain
<1>4. \A i \in Job \ {j} : EventChain(d, i) = EventChain(s, i)
  BY <1>2 DEF Appends, EventChain
<1>5. \A i \in Job : \A n \in EventChain(s, i) : d.events[n] = s.events[n]
  BY DEF Appends, EventChain
<1>6. d.events[Len(s.events) + 1] = ev
  BY DEF Appends
<1>7. StatusChanges(d, j) =
        StatusChanges(s, j) \cup
          (IF ev.kind = "JobStatusChanged" THEN {Len(s.events) + 1} ELSE {})
  BY <1>3, <1>5, <1>6 DEF StatusChanges
<1>8. \A i \in Job \ {j} : StatusChanges(d, i) = StatusChanges(s, i)
  BY <1>4, <1>5 DEF StatusChanges
<1> QED BY <1>2, <1>3, <1>4, <1>7, <1>8

\* An append that logs what it does to the status keeps the records in step with
\* the log.
LEMMA LiveAppendMatches ==
  ASSUME NEW s \in Store, NEW d \in Store, NEW j \in Job, NEW rec \in JobRecord,
         NEW ev \in JobEvent, LiveAppend(s, d, j, rec, ev), RecordsMatchLog(s)
  PROVE  RecordsMatchLog(d)
<1> DEFINE n == Len(s.events) + 1
<1>1. /\ Appends(s, d, j, rec, ev) /\ ev.job = j
      /\ s.jobs[j].status \in Live /\ rec.status \in JobStatus
      /\ StatusStep(s.jobs[j].status, rec.status, ev)
  BY DEF LiveAppend
<1>2. /\ n \in Nat \ {0}
      /\ EventChain(d, j) = EventChain(s, j) \cup {n}
      /\ StatusChanges(d, j) =
           StatusChanges(s, j) \cup (IF ev.kind = "JobStatusChanged" THEN {n} ELSE {})
      /\ \A i \in Job \ {j} : /\ EventChain(d, i) = EventChain(s, i)
                              /\ StatusChanges(d, i) = StatusChanges(s, i)
  BY <1>1, AppendChain
<1>3. /\ d.events[n] = ev
      /\ \A i \in Job : \A m \in EventChain(s, i) : m \in Nat /\ m < n /\ d.events[m] = s.events[m]
      /\ \A i \in Job : StatusChanges(s, i) \subseteq EventChain(s, i)
      /\ \A i \in Job \ {j} : d.jobs[i] = s.jobs[i]
      /\ d.jobs[j].status = rec.status /\ d.jobs[j].latest = n
  BY <1>1, <1>2 DEF Appends, EventChain, StatusChanges, Store, JobRecord
<1> HIDE DEF n
<1>4. ASSUME NEW i \in Job, i # j
      PROVE  IF d.jobs[i].status = Absent THEN EventChain(d, i) = {}
             ELSE LatestIsLast(d, i) /\ StatusIsLogged(d, i) /\ ChangesAreLinked(d, i)
  <2>1. IF s.jobs[i].status = Absent THEN EventChain(s, i) = {}
        ELSE LatestIsLast(s, i) /\ StatusIsLogged(s, i) /\ ChangesAreLinked(s, i)
    BY DEF RecordsMatchLog
  <2>2. /\ EventChain(d, i) = EventChain(s, i) /\ StatusChanges(d, i) = StatusChanges(s, i)
        /\ d.jobs[i] = s.jobs[i]
        /\ \A m \in StatusChanges(s, i) : d.events[m] = s.events[m]
    BY <1>2, <1>3, <1>4
  <2> QED BY <2>1, <2>2 DEF LatestIsLast, StatusIsLogged, ChangesAreLinked
<1>5. /\ d.jobs[j].status # Absent /\ s.jobs[j].status # Absent
      /\ LatestIsLast(s, j) /\ StatusIsLogged(s, j) /\ ChangesAreLinked(s, j)
  BY <1>1, <1>3 DEF RecordsMatchLog, Live, JobStatus, Absent
<1>6. LatestIsLast(d, j)
  BY <1>2, <1>3, <1>5 DEF LatestIsLast
<1>7. CASE ev.kind = "JobStatusChanged"
  <2>1. /\ StatusChanges(d, j) = StatusChanges(s, j) \cup {n}
        /\ ev.from = s.jobs[j].status /\ ev.to = rec.status
        /\ can_transition_to(ev.from, ev.to)
    BY <1>1, <1>2, <1>7 DEF StatusStep
  <2>2. \A m \in StatusChanges(s, j) : m \in Nat /\ m < n /\ d.events[m] = s.events[m]
    BY <1>3
  <2>3. StatusIsLogged(d, j)
    BY <1>2, <1>3, <2>1, <2>2 DEF StatusIsLogged
  <2>4. ChangesAreLinked(d, j)
    <3> SUFFICES ASSUME NEW m \in StatusChanges(d, j)
                 PROVE  /\ can_transition_to(d.events[m].from, d.events[m].to)
                        /\ \/ /\ d.events[m].from = "Queued"
                              /\ \A i \in StatusChanges(d, j) : i >= m
                           \/ \E i \in StatusChanges(d, j) :
                                /\ i < m /\ d.events[i].to = d.events[m].from
                                /\ \A q \in StatusChanges(d, j) : q <= i \/ q >= m
      BY DEF ChangesAreLinked
    <3>1. CASE m = n
      BY <1>2, <1>3, <1>5, <2>1, <2>2, <3>1 DEF StatusIsLogged
    <3>2. CASE m # n
      BY <1>2, <1>5, <2>1, <2>2, <3>2 DEF ChangesAreLinked
    <3> QED BY <3>1, <3>2
  <2> QED BY <1>6, <2>3, <2>4, <1>4, <1>5 DEF RecordsMatchLog
<1>8. CASE ev.kind # "JobStatusChanged"
  <2>1. StatusChanges(d, j) = StatusChanges(s, j) /\ rec.status = s.jobs[j].status
    BY <1>1, <1>2, <1>8 DEF StatusStep
  <2>2. \A m \in StatusChanges(s, j) : m \in Nat /\ m < n /\ d.events[m] = s.events[m]
    BY <1>3
  <2>3. StatusIsLogged(d, j) /\ ChangesAreLinked(d, j)
    BY <1>3, <1>5, <2>1, <2>2 DEF StatusIsLogged, ChangesAreLinked
  <2> QED BY <1>6, <2>3, <1>4, <1>5 DEF RecordsMatchLog
<1> QED BY <1>7, <1>8

\* What validate_loaded_store asks of one receipt survives when the job of the
\* receipt, its records and its events stay as they are.
LEMMA ReceiptStays ==
  ASSUME NEW s \in Store, NEW d \in Store, NEW r \in Receipt,
         validate_submit_job_idempotency_record(s, r),
         d.jobs[r.id] = s.jobs[r.id], d.decisions[r.id] = s.decisions[r.id],
         s.invoked[r.id] => d.invoked[r.id],
         s.results[r.id] # None => d.results[r.id] # None,
         s.audited[r.id] => d.audited[r.id],
         EventChain(d, r.id) = EventChain(s, r.id)
  PROVE  validate_submit_job_idempotency_record(d, r)
  BY DEF validate_submit_job_idempotency_record

\* A checked append to a running job leaves a snapshot that loads.
LEMMA LiveAppendLoads ==
  ASSUME NEW s \in Store, NEW d \in Store, NEW j \in Job, NEW rec \in JobRecord,
         NEW ev \in JobEvent, LiveAppend(s, d, j, rec, ev), validate_loaded_store(s)
  PROVE  validate_loaded_store(d)
<1> DEFINE n == Len(s.events) + 1
<1>1. /\ Appends(s, d, j, rec, ev) /\ ev.job = j
      /\ s.jobs[j].status \in Live /\ rec.status \in JobStatus
      /\ JobShape(rec) /\ validate_new_job_event(s, ev)
  BY DEF LiveAppend
<1>2. /\ n \in Nat \ {0} /\ Len(d.events) = n
      /\ d.events[n] = ev
      /\ \A m \in 1 .. Len(s.events) : d.events[m] = s.events[m] /\ s.events[m] \in JobEvent
      /\ 1 .. Len(d.events) = (1 .. Len(s.events)) \cup {n}
      /\ \A i \in Job \ {j} : d.jobs[i] = s.jobs[i]
      /\ d.jobs[j].status = rec.status /\ d.jobs[j].latest = n
      /\ d.jobs[j].started = rec.started /\ d.jobs[j].completed = rec.completed
      /\ d.decisions = s.decisions /\ d.invoked = s.invoked
      /\ d.results = s.results /\ d.audited = s.audited
      /\ d.receipts = s.receipts /\ d.receipts \subseteq Receipt
  BY <1>1 DEF Appends, Store, JobRecord
<1>3. d.jobs[j].status # Absent /\ s.jobs[j].status # Absent
  BY <1>1, <1>2 DEF Live, JobStatus, Absent
<1>4. \A i \in Job \ {j} : EventChain(d, i) = EventChain(s, i)
  BY <1>1, AppendChain
<1> HIDE DEF n
<1>5. ASSUME NEW i \in Job
      PROVE  /\ d.jobs[i].status # Absent => validate_loaded_job_record(d, i)
             /\ d.invoked[i] => d.jobs[i].status # Absent /\ d.decisions[i] # None
             /\ d.results[i] # None => d.invoked[i]
             /\ d.audited[i] => d.decisions[i] # None /\ d.invoked[i]
  <2>1. /\ s.jobs[i].status # Absent => validate_loaded_job_record(s, i)
        /\ s.invoked[i] => s.jobs[i].status # Absent /\ s.decisions[i] # None
        /\ s.results[i] # None => s.invoked[i]
        /\ s.audited[i] => s.decisions[i] # None /\ s.invoked[i]
    BY DEF validate_loaded_store
  <2>2. CASE i = j
    BY <1>1, <1>2, <1>3, <2>1, <2>2, ZenonT(40) DEF validate_loaded_job_record, JobShape
  <2>3. CASE i # j
    <3>1. d.jobs[i] = s.jobs[i]
      BY <1>2, <2>3
    <3>2. \A m \in 1 .. Len(s.events) : m \in 1 .. Len(d.events) /\ d.events[m] = s.events[m]
      BY <1>2
    <3>3. validate_loaded_job_record(s, i) => validate_loaded_job_record(d, i)
      BY <3>1, <3>2, Zenon DEF validate_loaded_job_record
    <3> QED BY <1>2, <2>1, <3>1, <3>3
  <2> QED BY <2>2, <2>3
<1>6. ASSUME NEW r \in d.receipts
      PROVE  validate_submit_job_idempotency_record(d, r)
  <2>1. r \in Receipt /\ validate_submit_job_idempotency_record(s, r)
    BY <1>2 DEF validate_loaded_store
  <2>2. r.id \in Job /\ r.id # j
    BY <1>1, <2>1 DEF validate_submit_job_idempotency_record, Receipt, Live
  <2> QED BY <1>2, <1>4, <2>1, <2>2, ReceiptStays
<1>7. ASSUME NEW m \in 1 .. Len(d.events)
      PROVE  validate_new_job_event(d, d.events[m])
  <2>1. CASE m = n
    BY <1>1, <1>2, <1>3, <2>1 DEF validate_new_job_event
  <2>2. CASE m \in 1 .. Len(s.events)
    <3>1. validate_new_job_event(s, s.events[m]) /\ s.events[m] = d.events[m]
          /\ s.events[m].job \in Job
      BY <1>2, <2>2 DEF validate_loaded_store, JobEvent
    <3>2. s.jobs[s.events[m].job].status # Absent => d.jobs[s.events[m].job].status # Absent
      BY <1>2, <1>3, <3>1, SMTT(30)
    <3> QED BY <1>2, <3>1, <3>2 DEF validate_new_job_event
  <2> QED BY <1>2, <2>1, <2>2
<1> QED BY <1>5, <1>6, <1>7 DEF validate_loaded_store

\* A checked append to a running job preserves the common condition.
LEMMA LiveAppendGood ==
  ASSUME NEW s, Good(s), NEW d \in Store, NEW j \in Job, NEW rec \in JobRecord,
         NEW ev \in JobEvent, LiveAppend(s, d, j, rec, ev),
         Len(s.events) + 1 <= MaxSequence
  PROVE  Good(d)
  BY LiveAppendMatches, LiveAppendLoads DEF Good, LiveAppend, Appends

-----------------------------------------------------------------------------
(* What holds of a store between commits and what no commit takes back.    *)

\* What no operation takes back: logged events, terminal records, decisions,
\* invocations, results and receipts.
Extends(s, d) ==
  /\ Len(s.events) <= Len(d.events)
  /\ \A i \in 1 .. Len(s.events) : d.events[i] = s.events[i]
  /\ \A j \in Job :
       /\ is_terminal(s.jobs[j].status) => d.jobs[j] = s.jobs[j]
       /\ s.decisions[j] # None => d.decisions[j] = s.decisions[j]
       /\ s.invoked[j] => d.invoked[j]
       /\ s.results[j] # None => d.results[j] = s.results[j]
  /\ s.receipts \subseteq d.receipts

\* What holds of every store value between two commits.
Sound(s) == Good(s) /\ ResultsAreAtomic(s) /\ CancellationsAreAtomic(s)

\* The updated job of validate_job_update_against logs its status change and has
\* the timestamps of its status.
LEMMA UpdateChecks ==
  ASSUME NEW old \in JobRecord, NEW rec \in JobRecord, NEW ev \in JobEvent,
         validate_job_update_against(old, rec, ev)
  PROVE  /\ StatusStep(old.status, rec.status, ev)
         /\ JobShape(rec)
         /\ ev.kind # "CancellationRequested" => rec.requested = old.requested
  BY DEF validate_job_update_against, validate_job_lifecycle_update, StatusStep,
         JobShape, validate_job_cancellation_update

\* A cancellation stays whole when its job and the logged events stay.
LEMMA CancellationStays ==
  ASSUME NEW s \in Store, NEW d \in Store, NEW i \in Job,
         validate_loaded_store(s), CancellationsAreAtomic(s), s.jobs[i].requested,
         d.jobs[i] = s.jobs[i], d.results[i] = s.results[i],
         \A m \in 1 .. Len(s.events) : d.events[m] = s.events[m]
  PROVE  CanceledInOneCommit(d, i)
<1>1. CanceledInOneCommit(s, i)
  BY DEF CancellationsAreAtomic
<1>2. s.jobs[i].latest \in Nat /\ s.jobs[i].latest > 1
  BY <1>1, MaxSequenceAssumption DEF CanceledInOneCommit, Store, JobRecord
<1>3. s.jobs[i].latest \in 1 .. Len(s.events)
  BY <1>1, <1>2
  DEF CanceledInOneCommit, validate_loaded_store, validate_loaded_job_record, Absent
<1>4. s.jobs[i].latest - 1 \in 1 .. Len(s.events)
  BY <1>2, <1>3 DEF Store
<1>5. /\ d.events[s.jobs[i].latest] = s.events[s.jobs[i].latest]
      /\ d.events[s.jobs[i].latest - 1] = s.events[s.jobs[i].latest - 1]
  BY <1>3, <1>4, SMTT(30)
<1> QED BY <1>1, <1>5 DEF CanceledInOneCommit

\* What a store says about log and jobs depends on nothing else of it.
LEMMA SameLog ==
  ASSUME NEW s, NEW d, d.events = s.events, d.jobs = s.jobs
  PROVE  /\ \A i \in Job : EventChain(d, i) = EventChain(s, i)
         /\ RecordsMatchLog(s) => RecordsMatchLog(d)
         /\ \A i \in Job : validate_loaded_job_record(s, i) => validate_loaded_job_record(d, i)
<1>1. \A i \in Job : /\ EventChain(d, i) = EventChain(s, i)
                     /\ StatusChanges(d, i) = StatusChanges(s, i)
  BY DEF EventChain, StatusChanges
<1>2. ASSUME NEW i \in Job
      PROVE  /\ LatestIsLast(s, i) => LatestIsLast(d, i)
             /\ StatusIsLogged(s, i) => StatusIsLogged(d, i)
             /\ ChangesAreLinked(s, i) => ChangesAreLinked(d, i)
  <2>1. LatestIsLast(s, i) => LatestIsLast(d, i)
    BY <1>1 DEF LatestIsLast
  <2>2. StatusIsLogged(s, i) => StatusIsLogged(d, i)
    BY <1>1 DEF StatusIsLogged
  <2>3. ChangesAreLinked(s, i) => ChangesAreLinked(d, i)
    BY <1>1 DEF ChangesAreLinked
  <2> QED BY <2>1, <2>2, <2>3
<1>3. RecordsMatchLog(s) => RecordsMatchLog(d)
  BY <1>1, <1>2 DEF RecordsMatchLog
<1>4. \A i \in Job : validate_loaded_job_record(s, i) => validate_loaded_job_record(d, i)
  BY DEF validate_loaded_job_record
<1> QED BY <1>1, <1>3, <1>4

\* Nor does what it says about results and cancellations, given the results.
LEMMA SameAtomicity ==
  ASSUME NEW s, NEW d, d.events = s.events, d.jobs = s.jobs,
         d.results = s.results, d.audited = s.audited, Sound(s)
  PROVE  ResultsAreAtomic(d) /\ CancellationsAreAtomic(d)
<1>1. ResultsAreAtomic(s) /\ CancellationsAreAtomic(s)
  BY DEF Sound
<1>2. ResultsAreAtomic(d)
  BY <1>1 DEF ResultsAreAtomic
<1>3. \A i \in Job : CanceledInOneCommit(s, i) => CanceledInOneCommit(d, i)
  BY DEF CanceledInOneCommit
<1>4. CancellationsAreAtomic(d)
  BY <1>1, <1>3 DEF CancellationsAreAtomic
<1> QED BY <1>2, <1>4

\* A commit that adds records and leaves jobs, log and receipts alone.
AddsRecords(s, d) ==
  /\ Good(s) /\ d \in Store
  /\ d.events = s.events /\ d.jobs = s.jobs /\ d.receipts = s.receipts
  /\ \A i \in Job :
       /\ s.decisions[i] # None => d.decisions[i] = s.decisions[i]
       /\ s.invoked[i] => d.invoked[i]
       /\ s.results[i] # None => d.results[i] # None
       /\ s.audited[i] => d.audited[i]
       /\ d.invoked[i] => d.jobs[i].status # Absent /\ d.decisions[i] # None
       /\ d.results[i] # None => d.invoked[i]
       /\ d.audited[i] => d.decisions[i] # None /\ d.invoked[i]

\* Its result is good when the store was.
LEMMA RecordsOnlyGood ==
  ASSUME NEW s, NEW d, AddsRecords(s, d)
  PROVE  Good(d)
<1> USE DEF AddsRecords
<1>1. s \in Store /\ RecordsMatchLog(s) /\ validate_loaded_store(s)
  BY DEF Good
<1>2. \A i \in Job : EventChain(d, i) = EventChain(s, i)
  BY SameLog
<1>3. RecordsMatchLog(d)
  BY <1>1, SameLog
<1>4. \A i \in Job : d.jobs[i].status # Absent => validate_loaded_job_record(d, i)
  <2>1. \A i \in Job : s.jobs[i].status # Absent => validate_loaded_job_record(s, i)
    BY <1>1 DEF validate_loaded_store
  <2> QED BY <2>1, SameLog
<1>5. ASSUME NEW r \in d.receipts PROVE validate_submit_job_idempotency_record(d, r)
  <2>1. r \in Receipt /\ validate_submit_job_idempotency_record(s, r)
    BY <1>1 DEF validate_loaded_store, Store
  <2>2. r.id \in Job /\ s.decisions[r.id] # None
    BY <2>1 DEF Receipt, validate_submit_job_idempotency_record
  <2> QED BY <1>1, <1>2, <2>1, <2>2, ReceiptStays
<1>6. ASSUME NEW m \in 1 .. Len(d.events) PROVE validate_new_job_event(d, d.events[m])
  <2>1. validate_new_job_event(s, s.events[m]) /\ s.events[m] \in JobEvent
    BY <1>1 DEF validate_loaded_store, Store
  <2>2. s.events[m].job \in Job
    BY <2>1 DEF JobEvent
  <2> QED BY <2>1, <2>2 DEF validate_new_job_event
<1>7. validate_loaded_store(d)
  BY <1>4, <1>5, <1>6 DEF validate_loaded_store
<1> QED BY <1>3, <1>7 DEF Good

\* A checked append to a running job takes nothing back.
LEMMA LiveAppendExtends ==
  ASSUME NEW s \in Store, NEW d \in Store, NEW j \in Job, NEW rec \in JobRecord,
         NEW ev \in JobEvent, LiveAppend(s, d, j, rec, ev)
  PROVE  /\ Extends(s, d)
         /\ \A i \in Job : i # j => d.jobs[i] = s.jobs[i]
         /\ d.jobs[j].status = rec.status /\ d.jobs[j].requested = rec.requested
         /\ d.jobs[j].latest = Len(s.events) + 1
<1>1. Appends(s, d, j, rec, ev) /\ s.jobs[j].status \in Live
  BY DEF LiveAppend
<1>2. /\ \A i \in Job : i # j => d.jobs[i] = s.jobs[i]
      /\ d.jobs[j].status = rec.status /\ d.jobs[j].requested = rec.requested
      /\ d.jobs[j].latest = Len(s.events) + 1
  BY <1>1 DEF Appends, Store, JobRecord
<1>3. \A i \in Job : is_terminal(s.jobs[i].status) => d.jobs[i] = s.jobs[i]
  BY <1>1, <1>2 DEF Live, is_terminal
<1>4. Len(s.events) <= Len(d.events)
  BY <1>1 DEF Appends, Store
<1> QED BY <1>1, <1>2, <1>3, <1>4 DEF Extends, Appends

\* What append_event_locked and the update of the record of a job that still
\* runs require, and what they do to the store.
CanAppend(s, d, j, rec, ev) ==
  /\ Good(s) /\ j \in Job /\ rec \in JobRecord /\ ev \in JobEvent
  /\ d = AppendAndUpdate(s, j, rec, ev)
  /\ ev.job = j /\ s.jobs[j].status \in Live /\ rec.status \in JobStatus
  /\ StatusStep(s.jobs[j].status, rec.status, ev) /\ JobShape(rec)
  /\ validate_new_job_event(s, ev) /\ Len(s.events) + 1 <= MaxSequence

Appended(s, d, j, rec, ev) ==
  /\ Good(d) /\ Extends(s, d)
  /\ \A i \in Job : i # j => d.jobs[i] = s.jobs[i]
  /\ d.jobs[j].status = rec.status /\ d.jobs[j].requested = rec.requested
  /\ d.jobs[j].latest = Len(s.events) + 1
  /\ Len(d.events) = Len(s.events) + 1 /\ d.events[Len(s.events) + 1] = ev
  /\ d.results = s.results /\ d.audited = s.audited /\ d.receipts = s.receipts

\* A checked append to a running job keeps the store good and takes nothing back.
LEMMA CheckedAppend ==
  ASSUME NEW s, NEW d, NEW j, NEW rec, NEW ev, CanAppend(s, d, j, rec, ev)
  PROVE  Appended(s, d, j, rec, ev)
<1>1. /\ s \in Store /\ Good(s) /\ j \in Job /\ rec \in JobRecord /\ ev \in JobEvent
      /\ Len(s.events) + 1 <= MaxSequence
  BY DEF CanAppend, Good
<1>2. d \in Store /\ Appends(s, d, j, rec, ev)
  BY <1>1, AppendFacts DEF CanAppend
<1>3. LiveAppend(s, d, j, rec, ev)
  BY <1>2 DEF LiveAppend, CanAppend
<1>4. Good(d)
  BY <1>1, <1>2, <1>3, LiveAppendGood
<1>5. /\ Extends(s, d)
      /\ \A i \in Job : i # j => d.jobs[i] = s.jobs[i]
      /\ d.jobs[j].status = rec.status /\ d.jobs[j].requested = rec.requested
      /\ d.jobs[j].latest = Len(s.events) + 1
  BY <1>1, <1>2, <1>3, LiveAppendExtends
<1> QED BY <1>2, <1>4, <1>5 DEF Appends, Appended

\* Two commits in a row lose nothing that the first one had.
LEMMA ExtendsTransitive ==
  ASSUME NEW s \in Store, NEW d \in Store, NEW e \in Store, Extends(s, d), Extends(d, e)
  PROVE  Extends(s, e)
<1>1. Len(s.events) \in Nat /\ Len(d.events) \in Nat /\ Len(e.events) \in Nat
  BY DEF Store
<1>2. /\ Len(s.events) <= Len(e.events)
      /\ \A i \in 1 .. Len(s.events) : e.events[i] = s.events[i]
  BY <1>1 DEF Extends
<1>3. s.receipts \subseteq e.receipts
  BY DEF Extends
<1>4. ASSUME NEW j \in Job
      PROVE  /\ is_terminal(s.jobs[j].status) => e.jobs[j] = s.jobs[j]
             /\ s.decisions[j] # None => e.decisions[j] = s.decisions[j]
             /\ s.invoked[j] => e.invoked[j]
             /\ s.results[j] # None => e.results[j] = s.results[j]
  BY DEF Extends
<1> QED BY <1>2, <1>3, <1>4 DEF Extends

\* Taking nothing back is reflexive.
LEMMA ExtendsReflexive == ASSUME NEW s \in Store PROVE Extends(s, s)
  BY DEF Extends, Store

\* A job that still runs has no result and no cancellation.
LEMMA LiveHasNoEnd ==
  ASSUME NEW s, Sound(s), NEW j \in Job, s.jobs[j].status \in Live
  PROVE  s.results[j] = None /\ ~s.audited[j] /\ ~s.jobs[j].requested
<1>1. s.results[j] = None /\ ~s.audited[j]
  BY DEF Sound, ResultsAreAtomic, Live, terminal_status
<1>2. ~s.jobs[j].requested
  BY DEF Sound, CancellationsAreAtomic, CanceledInOneCommit, Live
<1> QED BY <1>1, <1>2

\* The store of a new ledger is sound.
LEMMA EmptyStoreSound == Sound(EmptyStore)
<1>1. NewJobRecord \in JobRecord
  BY MaxSequenceAssumption DEF NewJobRecord, JobRecord, JobStatus
<1>2. [NewJobRecord EXCEPT !.status = Absent] \in JobRecord
  BY <1>1 DEF JobRecord
<1>3. EmptyStore \in Store
  BY <1>2 DEF EmptyStore, Store
<1>4. /\ EmptyStore.events = << >> /\ EmptyStore.receipts = {}
      /\ \A j \in Job : /\ EmptyStore.jobs[j].status = Absent
                        /\ ~EmptyStore.jobs[j].requested
                        /\ EmptyStore.results[j] = None
                        /\ ~EmptyStore.invoked[j] /\ ~EmptyStore.audited[j]
  BY DEF EmptyStore, NewJobRecord
<1>5. RecordsMatchLog(EmptyStore)
  BY <1>4 DEF RecordsMatchLog, EventChain
<1>6. validate_loaded_store(EmptyStore)
  BY <1>4 DEF validate_loaded_store
<1>7. ResultsAreAtomic(EmptyStore) /\ CancellationsAreAtomic(EmptyStore)
  BY <1>4 DEF ResultsAreAtomic, CancellationsAreAtomic, Absent
<1>8. Len(EmptyStore.events) <= MaxSequence
  BY <1>4, MaxSequenceAssumption
<1> QED BY <1>3, <1>5, <1>6, <1>7, <1>8 DEF Sound, Good

-----------------------------------------------------------------------------
(* The commits, as relations between a store and the draft that replaces it. *)

CreateJobOp(s, d) ==
  \E j \in Job : /\ create_job_with_initial_event_ok(s, j)
                 /\ d = create_job_with_initial_event(s, j)

DecideOp(s, d) ==
  \E j \in Job, outcome \in PolicyOutcome :
    /\ create_policy_decision_ok(s, j)
    /\ d = create_policy_decision(s, j, outcome)

\* The runtime's appends start from a copy of a job that still runs, and never
\* make it succeed.
AppendOp(s, d) ==
  \E j \in Job, rec \in JobRecord, ev \in JobEvent :
    /\ ev.job = j /\ ev.kind # "CancellationRequested"
    /\ rec.status # "Succeeded"
    /\ ev.kind # "JobStatusChanged" => rec.status \in Live
    /\ append_job_event_and_update_job_ok(s, j, rec, ev)
    /\ d = append_job_event_and_update_job(s, j, rec, ev)

Requested(old) == [old EXCEPT !.requested = TRUE]

CancelOp(s, d) ==
  \E j \in Job, old \in JobRecord :
    LET canceled == transition_status(Requested(old), "Canceled")
        ev1 == Event(j, "CancellationRequested")
        ev2 == StatusChanged(j, old.status, "Canceled")
    IN /\ old.status \in Live
       /\ append_job_events_and_update_job_ok(s, j, Requested(old), ev1, canceled, ev2)
       /\ d = append_job_events_and_update_job(s, j, Requested(old), ev1, canceled, ev2)

InvokeOp(s, d) ==
  \E j \in Job : create_tool_invocation_ok(s, j) /\ d = create_tool_invocation(s, j)

FinishOp(s, d) ==
  \E j \in Job, rec \in JobRecord, result \in ToolResultStatus,
     key \in Key \cup {None}, sig \in Sig \cup {None}, trail \in SUBSET Nat :
    /\ rec.status \in Live /\ (key # None => sig \in Sig)
    /\ record_tool_result_audit_terminal_ok(s, j, rec, result, key, sig, trail)
    /\ d = record_tool_result_audit_terminal(s, j, rec, result, key, sig, trail)

LedgerOp(s, d) ==
  \/ CreateJobOp(s, d) \/ DecideOp(s, d) \/ AppendOp(s, d)
  \/ CancelOp(s, d) \/ InvokeOp(s, d) \/ FinishOp(s, d)

-----------------------------------------------------------------------------

\* create_job_with_initial_event adds a queued job with one event.
LEMMA CreateJobSound ==
  ASSUME NEW s, NEW d, Sound(s), CreateJobOp(s, d)
  PROVE  Sound(d) /\ Extends(s, d)
<1>1. PICK j \in Job : /\ create_job_with_initial_event_ok(s, j)
                       /\ d = create_job_with_initial_event(s, j)
  BY DEF CreateJobOp
<1> DEFINE ev == Event(j, "JobSubmitted")
           n == Len(s.events) + 1
<1>2. /\ s \in Store /\ RecordsMatchLog(s) /\ validate_loaded_store(s)
      /\ ResultsAreAtomic(s) /\ CancellationsAreAtomic(s)
      /\ s.jobs[j].status = Absent /\ Len(s.events) + 1 <= MaxSequence
  BY <1>1 DEF Sound, Good, create_job_with_initial_event_ok, ensure_event_sequence_capacity
<1>3. ev \in JobEvent /\ ev.job = j /\ ev.kind = "JobSubmitted"
  BY DEF Event, JobEvent, JobEventKind
<1>4. NewJobRecord \in JobRecord /\ NewJobRecord.status = "Queued"
      /\ ~NewJobRecord.requested /\ JobShape(NewJobRecord)
  BY MaxSequenceAssumption
  DEF NewJobRecord, JobRecord, JobStatus, JobShape, is_terminal
<1> HIDE DEF ev
<1>5. d \in Store /\ Appends(s, d, j, NewJobRecord, ev)
  BY <1>1, <1>2, <1>3, <1>4, AppendFacts DEF create_job_with_initial_event, ev
<1>6. /\ n \in Nat \ {0} /\ Len(d.events) = n
      /\ d.events[n] = ev
      /\ \A m \in 1 .. Len(s.events) : d.events[m] = s.events[m] /\ s.events[m] \in JobEvent
      /\ 1 .. Len(d.events) = (1 .. Len(s.events)) \cup {n}
      /\ \A i \in Job \ {j} : d.jobs[i] = s.jobs[i]
      /\ d.jobs[j].status = "Queued" /\ d.jobs[j].latest = n
      /\ ~d.jobs[j].requested
      /\ d.jobs[j].started = NewJobRecord.started
      /\ d.jobs[j].completed = NewJobRecord.completed
      /\ d.decisions = s.decisions /\ d.invoked = s.invoked
      /\ d.results = s.results /\ d.audited = s.audited
      /\ d.receipts = s.receipts /\ d.receipts \subseteq Receipt
  BY <1>2, <1>4, <1>5 DEF Appends, Store, JobRecord
<1>7. /\ EventChain(d, j) = EventChain(s, j) \cup {n}
      /\ StatusChanges(d, j) = StatusChanges(s, j)
      /\ \A i \in Job \ {j} : /\ EventChain(d, i) = EventChain(s, i)
                              /\ StatusChanges(d, i) = StatusChanges(s, i)
  <2>0. /\ s \in Store /\ d \in Store /\ NewJobRecord \in JobRecord
        /\ ev \in JobEvent /\ ev.job = j /\ Appends(s, d, j, NewJobRecord, ev)
    BY <1>2, <1>3, <1>4, <1>5
  <2>1. StatusChanges(d, j) =
          StatusChanges(s, j) \cup (IF ev.kind = "JobStatusChanged" THEN {n} ELSE {})
    BY <2>0, AppendChain
  <2>2. StatusChanges(d, j) = StatusChanges(s, j)
    BY <1>3, <2>1
  <2> QED BY <2>0, <2>2, AppendChain
<1>8. EventChain(s, j) = {} /\ StatusChanges(s, j) = {}
  BY <1>2 DEF RecordsMatchLog, StatusChanges
<1>9. \A i \in Job : StatusChanges(s, i) \subseteq 1 .. Len(s.events)
  BY DEF StatusChanges, EventChain
<1> HIDE DEF n
<1>10. RecordsMatchLog(d)
  <2> SUFFICES ASSUME NEW i \in Job
               PROVE  IF d.jobs[i].status = Absent THEN EventChain(d, i) = {}
                      ELSE LatestIsLast(d, i) /\ StatusIsLogged(d, i) /\ ChangesAreLinked(d, i)
    BY DEF RecordsMatchLog
  <2>1. CASE i = j
    BY <1>6, <1>7, <1>8, <2>1
    DEF LatestIsLast, StatusIsLogged, ChangesAreLinked, Absent
  <2>2. CASE i # j
    <3>1. IF s.jobs[i].status = Absent THEN EventChain(s, i) = {}
          ELSE LatestIsLast(s, i) /\ StatusIsLogged(s, i) /\ ChangesAreLinked(s, i)
      BY <1>2 DEF RecordsMatchLog
    <3>2. /\ EventChain(d, i) = EventChain(s, i) /\ StatusChanges(d, i) = StatusChanges(s, i)
          /\ d.jobs[i] = s.jobs[i]
          /\ \A m \in StatusChanges(s, i) : d.events[m] = s.events[m]
      BY <1>6, <1>7, <1>9, <2>2
    <3> QED BY <3>1, <3>2 DEF LatestIsLast, StatusIsLogged, ChangesAreLinked
  <2> QED BY <2>1, <2>2
<1>11. validate_loaded_store(d)
  <2>1. ASSUME NEW i \in Job
        PROVE  /\ d.jobs[i].status # Absent => validate_loaded_job_record(d, i)
               /\ d.invoked[i] => d.jobs[i].status # Absent /\ d.decisions[i] # None
               /\ d.results[i] # None => d.invoked[i]
               /\ d.audited[i] => d.decisions[i] # None /\ d.invoked[i]
    <3>1. CASE i = j
      BY SMTT(30), <1>2, <1>3, <1>4, <1>6, <3>1
      DEF validate_loaded_store, validate_loaded_job_record, JobShape, Absent
    <3>2. CASE i # j
      <4>1. /\ s.jobs[i].status # Absent => validate_loaded_job_record(s, i)
            /\ s.invoked[i] => s.jobs[i].status # Absent /\ s.decisions[i] # None
            /\ s.results[i] # None => s.invoked[i]
            /\ s.audited[i] => s.decisions[i] # None /\ s.invoked[i]
        BY <1>2, Zenon DEF validate_loaded_store
      <4>2. d.jobs[i] = s.jobs[i]
        BY <1>6, <3>2
      <4> QED BY <1>6, <4>1, <4>2, SMTT(30) DEF validate_loaded_job_record
    <3> QED BY SMTT(30), <3>1, <3>2
  <2>2. ASSUME NEW r \in d.receipts PROVE validate_submit_job_idempotency_record(d, r)
    <3>1. r \in Receipt /\ validate_submit_job_idempotency_record(s, r)
      BY <1>2, <1>6 DEF validate_loaded_store
    <3>2. r.id \in Job /\ r.id # j
      BY <1>2, <3>1 DEF validate_submit_job_idempotency_record, Receipt, Absent
    <3> QED BY <1>2, <1>5, <1>6, <1>7, <3>1, <3>2, ReceiptStays, Zenon
  <2>3. ASSUME NEW m \in 1 .. Len(d.events) PROVE validate_new_job_event(d, d.events[m])
    <3>1. CASE m = n
      BY <1>3, <1>6, <3>1 DEF validate_new_job_event, Absent
    <3>2. CASE m \in 1 .. Len(s.events)
      <4>1. validate_new_job_event(s, s.events[m]) /\ s.events[m] = d.events[m]
            /\ s.events[m].job \in Job
        BY <1>2, <1>6, <3>2 DEF validate_loaded_store, JobEvent
      <4>2. s.events[m].job # j
        BY <1>2, <4>1 DEF validate_new_job_event
      <4>3. d.jobs[s.events[m].job] = s.jobs[s.events[m].job]
        BY <1>6, <4>1, <4>2
      <4> QED BY <1>6, <4>1, <4>3, Zenon DEF validate_new_job_event
    <3> QED BY <1>6, <3>1, <3>2
  <2> QED BY <2>1, <2>2, <2>3 DEF validate_loaded_store
<1>12. ResultsAreAtomic(d)
  <2>1. s.results[j] = None
    BY <1>2 DEF validate_loaded_store
  <2> QED BY <1>2, <1>6, <2>1 DEF ResultsAreAtomic
<1>13. CancellationsAreAtomic(d)
  <2> SUFFICES ASSUME NEW i \in Job, d.jobs[i].requested
               PROVE  CanceledInOneCommit(d, i)
    BY DEF CancellationsAreAtomic
  <2>1. i # j /\ d.jobs[i] = s.jobs[i] /\ s.jobs[i].requested
    BY <1>6
  <2> QED BY <1>2, <1>5, <1>6, <2>1, CancellationStays
<1>14. Extends(s, d)
  <2>1. \A i \in Job : is_terminal(s.jobs[i].status) => d.jobs[i] = s.jobs[i]
    BY <1>2, <1>6 DEF is_terminal, Absent
  <2>2. Len(s.events) <= Len(d.events)
    BY <1>6 DEF n
  <2> QED BY <1>6, <2>1, <2>2 DEF Extends
<1> QED BY <1>2, <1>5, <1>6, <1>10, <1>11, <1>12, <1>13, <1>14 DEF Sound, Good, n

\* create_policy_decision only adds a decision.
LEMMA DecideSound ==
  ASSUME NEW s, NEW d, Sound(s), DecideOp(s, d)
  PROVE  Sound(d) /\ Extends(s, d)
<1>1. PICK j \in Job, outcome \in PolicyOutcome :
        s.decisions[j] = None /\ d = [s EXCEPT !.decisions[j] = outcome]
  BY DEF DecideOp, create_policy_decision_ok, create_policy_decision
<1>2. s \in Store /\ Good(s) /\ validate_loaded_store(s) /\ outcome # None
  BY DEF Sound, Good, PolicyOutcome, None
<1>3. /\ d \in Store
      /\ d.events = s.events /\ d.jobs = s.jobs /\ d.receipts = s.receipts
      /\ d.invoked = s.invoked /\ d.results = s.results /\ d.audited = s.audited
      /\ \A i \in Job : s.decisions[i] # None => d.decisions[i] = s.decisions[i]
  BY <1>1, <1>2, Zenon DEF Store
<1>4. \A i \in Job :
        /\ s.invoked[i] => s.jobs[i].status # Absent /\ s.decisions[i] # None
        /\ s.results[i] # None => s.invoked[i]
        /\ s.audited[i] => s.decisions[i] # None /\ s.invoked[i]
  BY <1>2 DEF validate_loaded_store
<1>5. Good(d)
  <2>1. AddsRecords(s, d)
    BY <1>2, <1>3, <1>4 DEF AddsRecords
  <2> QED BY <2>1, RecordsOnlyGood
<1>6. ResultsAreAtomic(d) /\ CancellationsAreAtomic(d)
  BY <1>3, SameAtomicity
<1>7. Extends(s, d)
  BY <1>2, <1>3 DEF Extends, Store
<1> QED BY <1>5, <1>6, <1>7 DEF Sound

\* create_tool_invocation only adds an invocation.
LEMMA InvokeSound ==
  ASSUME NEW s, NEW d, Sound(s), InvokeOp(s, d)
  PROVE  Sound(d) /\ Extends(s, d)
<1>1. PICK j \in Job : /\ s.jobs[j].status # Absent /\ s.decisions[j] # None
                       /\ d = [s EXCEPT !.invoked[j] = TRUE]
  BY Zenon DEF InvokeOp, create_tool_invocation_ok, create_tool_invocation
<1>2. s \in Store /\ Good(s) /\ validate_loaded_store(s)
  BY DEF Sound, Good
<1>3. /\ d \in Store
      /\ d.events = s.events /\ d.jobs = s.jobs /\ d.receipts = s.receipts
      /\ d.decisions = s.decisions /\ d.results = s.results /\ d.audited = s.audited
      /\ d.invoked[j] /\ \A i \in Job : i # j => d.invoked[i] = s.invoked[i]
  <2>1. s.invoked \in [Job -> BOOLEAN] /\ d.invoked = [s.invoked EXCEPT ![j] = TRUE]
    BY <1>1, <1>2 DEF Store
  <2>2. d.invoked[j] /\ \A i \in Job : i # j => d.invoked[i] = s.invoked[i]
    BY <2>1
  <2>3. d \in Store
    BY <1>1, <1>2, <2>1, Zenon DEF Store
  <2> QED BY <1>1, <1>2, <2>2, <2>3, Zenon DEF Store
<1>4. \A i \in Job :
        /\ s.invoked[i] => s.jobs[i].status # Absent /\ s.decisions[i] # None
        /\ s.results[i] # None => s.invoked[i]
        /\ s.audited[i] => s.decisions[i] # None /\ s.invoked[i]
  BY <1>2 DEF validate_loaded_store
<1>5. Good(d)
  <2>1. \A i \in Job :
          /\ s.invoked[i] => d.invoked[i]
          /\ d.invoked[i] => d.jobs[i].status # Absent /\ d.decisions[i] # None
          /\ d.results[i] # None => d.invoked[i]
          /\ d.audited[i] => d.decisions[i] # None /\ d.invoked[i]
    BY <1>1, <1>3, <1>4
  <2>2. AddsRecords(s, d)
    BY <1>2, <1>3, <2>1 DEF AddsRecords
  <2> QED BY <2>2, RecordsOnlyGood
<1>6. ResultsAreAtomic(d) /\ CancellationsAreAtomic(d)
  BY <1>3, SameAtomicity
<1>7. Extends(s, d)
  BY <1>2, <1>3 DEF Extends, Store
<1> QED BY <1>5, <1>6, <1>7 DEF Sound

\* append_job_event_and_update_job, as the runtime uses it.
LEMMA AppendSound ==
  ASSUME NEW s, NEW d, Sound(s), AppendOp(s, d)
  PROVE  Sound(d) /\ Extends(s, d)
<1>1. PICK j \in Job, rec \in JobRecord, ev \in JobEvent :
        /\ ev.job = j /\ ev.kind # "CancellationRequested"
        /\ rec.status # "Succeeded"
        /\ ev.kind # "JobStatusChanged" => rec.status \in Live
        /\ append_job_event_and_update_job_ok(s, j, rec, ev)
        /\ d = append_job_event_and_update_job(s, j, rec, ev)
  BY DEF AppendOp
<1>2. /\ s \in Store /\ Good(s) /\ validate_loaded_store(s)
      /\ ResultsAreAtomic(s) /\ CancellationsAreAtomic(s) /\ s.jobs[j] \in JobRecord
  BY DEF Sound, Good, Store
<1>3. /\ s.jobs[j].status # Absent
      /\ validate_job_update_against(s.jobs[j], rec, ev)
      /\ validate_new_job_event(s, ev) /\ Len(s.events) + 1 <= MaxSequence
  BY <1>1 DEF append_job_event_and_update_job_ok, validate_job_update,
              ensure_event_sequence_capacity
<1>4. /\ StatusStep(s.jobs[j].status, rec.status, ev) /\ JobShape(rec)
      /\ rec.requested = s.jobs[j].requested
  BY <1>1, <1>2, <1>3, UpdateChecks
<1>5. s.jobs[j].status \in Live /\ rec.status \in JobStatus
  BY <1>1, <1>3, <1>4 DEF StatusStep, can_transition_to, Live, JobStatus
<1>6. d = AppendAndUpdate(s, j, rec, ev)
  BY <1>1 DEF append_job_event_and_update_job
<1>7. /\ Good(d) /\ Extends(s, d) /\ d.results = s.results
      /\ \A i \in Job : i # j => d.jobs[i] = s.jobs[i]
      /\ d.jobs[j].status = rec.status /\ d.jobs[j].requested = rec.requested
      /\ d.audited = s.audited
  <2>1. CanAppend(s, d, j, rec, ev)
    BY <1>1, <1>2, <1>3, <1>4, <1>5, <1>6, Zenon DEF CanAppend
  <2>2. Appended(s, d, j, rec, ev)
    BY <2>1, CheckedAppend
  <2> QED BY <2>2 DEF Appended
<1>8. d \in Store
  BY <1>7 DEF Good
<1>9. s.results[j] = None /\ ~s.audited[j] /\ ~s.jobs[j].requested
  BY <1>5, LiveHasNoEnd
<1>10. ResultsAreAtomic(d)
  <2> SUFFICES ASSUME NEW i \in Job
               PROVE  /\ d.results[i] # None <=> d.audited[i]
                      /\ d.results[i] # None => d.jobs[i].status = terminal_status(d.results[i])
                      /\ d.jobs[i].status = "Succeeded" => d.results[i] # None
    BY DEF ResultsAreAtomic
  <2>1. CASE i = j
    BY <1>1, <1>7, <1>9, <2>1
  <2>2. CASE i # j
    BY <1>2, <1>7, <2>2 DEF ResultsAreAtomic
  <2> QED BY <2>1, <2>2
<1>11. CancellationsAreAtomic(d)
  <2> SUFFICES ASSUME NEW i \in Job, d.jobs[i].requested
               PROVE  CanceledInOneCommit(d, i)
    BY DEF CancellationsAreAtomic
  <2>1. i # j /\ d.jobs[i] = s.jobs[i] /\ s.jobs[i].requested
    BY <1>4, <1>7, <1>9
  <2> QED BY <1>2, <1>7, <1>8, <2>1, CancellationStays DEF Extends
<1> QED BY <1>7, <1>10, <1>11 DEF Sound

\* append_job_events_and_update_job, as cancel_job uses it.
LEMMA CancelSound ==
  ASSUME NEW s, NEW d, Sound(s), CancelOp(s, d)
  PROVE  Sound(d) /\ Extends(s, d)
<1>1. PICK j \in Job, old \in JobRecord :
        LET canceled == transition_status(Requested(old), "Canceled")
            ev1 == Event(j, "CancellationRequested")
            ev2 == StatusChanged(j, old.status, "Canceled")
        IN /\ old.status \in Live
           /\ append_job_events_and_update_job_ok(s, j, Requested(old), ev1, canceled, ev2)
           /\ d = append_job_events_and_update_job(s, j, Requested(old), ev1, canceled, ev2)
  BY DEF CancelOp
<1> DEFINE rec1 == Requested(old)
           rec2 == transition_status(rec1, "Canceled")
           ev1 == Event(j, "CancellationRequested")
           ev2 == StatusChanged(j, old.status, "Canceled")
           n == Len(s.events)
<1>2. /\ s \in Store /\ Good(s) /\ validate_loaded_store(s) /\ n \in Nat
      /\ ResultsAreAtomic(s) /\ CancellationsAreAtomic(s) /\ s.jobs[j] \in JobRecord
  BY DEF Sound, Good, Store
<1>3. /\ rec1 \in JobRecord /\ rec1.status = old.status
      /\ rec2 \in JobRecord /\ rec2.status = "Canceled"
  BY Zenon DEF Requested, transition_status, JobRecord, JobStatus, is_terminal
<1>4. /\ ev1 \in JobEvent /\ ev1.job = j /\ ev1.kind = "CancellationRequested"
      /\ ev2 \in JobEvent /\ ev2.job = j /\ ev2.kind = "JobStatusChanged"
  BY <1>1 DEF Event, StatusChanged, JobEvent, JobEventKind, Live, JobStatus
<1> HIDE DEF rec1, rec2
<1>5. /\ s.jobs[j].status # Absent /\ old.status \in Live
      /\ validate_job_update_against(s.jobs[j], rec1, ev1)
      /\ validate_job_update_against(rec1, rec2, ev2)
      /\ validate_new_job_event(s, ev1) /\ validate_new_job_event(s, ev2)
      /\ n + 2 <= MaxSequence
      /\ d = AppendAndUpdate(AppendAndUpdate(s, j, rec1, ev1), j, rec2, ev2)
  BY <1>1 DEF append_job_events_and_update_job_ok, append_job_events_and_update_job,
              validate_job_update, ensure_event_sequence_capacity, rec1, rec2
<1> HIDE DEF ev1, ev2
<1>6. /\ StatusStep(s.jobs[j].status, rec1.status, ev1) /\ JobShape(rec1)
      /\ StatusStep(rec1.status, rec2.status, ev2) /\ JobShape(rec2)
  BY <1>2, <1>3, <1>4, <1>5, UpdateChecks, Zenon
<1>7. s.jobs[j].status = old.status /\ rec1.status \in JobStatus /\ rec2.status \in JobStatus
  BY <1>3, <1>4, <1>5, <1>6 DEF StatusStep, Live, JobStatus
<1>8. n + 1 <= MaxSequence
  BY <1>2, <1>5, MaxSequenceAssumption
<1>9. PICK mid : mid = AppendAndUpdate(s, j, rec1, ev1)
  OBVIOUS
<1>10. /\ Good(mid) /\ Extends(s, mid)
       /\ \A i \in Job : i # j => mid.jobs[i] = s.jobs[i]
       /\ mid.jobs[j].status = rec1.status
       /\ Len(mid.events) = n + 1 /\ mid.events[n + 1] = ev1
       /\ mid.results = s.results /\ mid.audited = s.audited
  <2>1. CanAppend(s, mid, j, rec1, ev1)
    BY <1>2, <1>3, <1>4, <1>5, <1>6, <1>7, <1>8, <1>9, Zenon DEF CanAppend
  <2>2. Appended(s, mid, j, rec1, ev1)
    BY <2>1, CheckedAppend
  <2> QED BY <2>2 DEF Appended
<1>11. mid \in Store
  BY <1>10 DEF Good
<1>12. Len(mid.events) + 1 <= MaxSequence
  BY <1>2, <1>5, <1>10
<1>13. validate_new_job_event(mid, ev2)
  BY <1>3, <1>4, <1>5, <1>10, Zenon DEF validate_new_job_event, Live, Absent
<1>14. d = AppendAndUpdate(mid, j, rec2, ev2)
  BY <1>5, <1>9
<1>15. /\ Good(d) /\ Extends(mid, d)
       /\ \A i \in Job : i # j => d.jobs[i] = mid.jobs[i]
       /\ d.jobs[j].status = rec2.status /\ d.jobs[j].latest = Len(mid.events) + 1
       /\ d.events[Len(mid.events) + 1] = ev2
       /\ d.results = mid.results /\ d.audited = mid.audited
  <2>1. mid.jobs[j].status \in Live /\ StatusStep(mid.jobs[j].status, rec2.status, ev2)
    BY <1>3, <1>5, <1>6, <1>10
  <2>2. CanAppend(mid, d, j, rec2, ev2)
    BY <1>3, <1>4, <1>6, <1>7, <1>10, <1>12, <1>13, <1>14, <2>1, Zenon DEF CanAppend
  <2>3. Appended(mid, d, j, rec2, ev2)
    BY <2>2, CheckedAppend
  <2> QED BY <2>3 DEF Appended
<1>16. \A i \in Job : i # j => d.jobs[i] = s.jobs[i]
  BY <1>10, <1>15
<1>17. d \in Store /\ Extends(s, d)
  <2>1. d \in Store
    BY <1>15 DEF Good
  <2> QED BY <1>2, <1>10, <1>11, <1>15, <2>1, ExtendsTransitive
<1>18. s.results[j] = None /\ ~s.audited[j]
  BY <1>5, <1>7, LiveHasNoEnd
<1>19. d.results = s.results /\ d.audited = s.audited
  BY <1>10, <1>15
<1>20. d.jobs[j].status = "Canceled" /\ d.jobs[j].latest = n + 2
  BY <1>2, <1>3, <1>10, <1>15
<1>21. ResultsAreAtomic(d)
  <2> SUFFICES ASSUME NEW i \in Job
               PROVE  /\ d.results[i] # None <=> d.audited[i]
                      /\ d.results[i] # None => d.jobs[i].status = terminal_status(d.results[i])
                      /\ d.jobs[i].status = "Succeeded" => d.results[i] # None
    BY DEF ResultsAreAtomic
  <2>1. CASE i = j
    BY <1>18, <1>19, <1>20, <2>1
  <2>2. CASE i # j
    BY <1>2, <1>16, <1>19, <2>2 DEF ResultsAreAtomic
  <2> QED BY <2>1, <2>2
<1>22. CanceledInOneCommit(d, j)
  <2>1. d.events[n + 1] = ev1
    <3>1. n + 1 \in 1 .. Len(mid.events)
      BY <1>2, <1>10
    <3> QED BY <1>10, <1>15, <3>1, Zenon DEF Extends
  <2>2. d.events[n + 2] = ev2
    BY <1>2, <1>10, <1>15
  <2>3. n + 2 > 1 /\ (n + 2) - 1 = n + 1
    BY <1>2
  <2>4. ev1 = Event(j, "CancellationRequested")
    BY DEF ev1
  <2> HIDE DEF n
  <2> QED BY <1>4, <1>18, <1>19, <1>20, <2>1, <2>2, <2>3, <2>4 DEF CanceledInOneCommit
<1>23. CancellationsAreAtomic(d)
  <2> SUFFICES ASSUME NEW i \in Job, i # j, d.jobs[i].requested
               PROVE  CanceledInOneCommit(d, i)
    BY <1>22 DEF CancellationsAreAtomic
  <2>1. d.jobs[i] = s.jobs[i] /\ s.jobs[i].requested
    BY SMTT(30), <1>16
  <2> QED BY <1>2, <1>17, <1>19, <2>1, CancellationStays, Zenon DEF Extends
<1> QED BY <1>15, <1>17, <1>21, <1>23 DEF Sound

\* The events of the final commit, appended to a draft that already has result
\* and audit record.
ThreeEvents(j, rec, final, ev1, ev2, ev3) ==
  /\ rec \in JobRecord /\ rec.status \in Live /\ JobShape(rec)
  /\ final \in JobRecord /\ final.status \in JobStatus /\ JobShape(final)
  /\ ev1 \in JobEvent /\ ev1.job = j /\ ev1.kind = "ToolResultRecorded"
  /\ ev2 \in JobEvent /\ ev2.job = j /\ ev2.kind = "AuditRecorded"
  /\ ev3 \in JobEvent /\ ev3.job = j /\ ev3.kind = "JobStatusChanged"
  /\ StatusStep(rec.status, final.status, ev3)

Chain(s, s1, s2, d, j, rec, final, ev1, ev2, ev3) ==
  /\ Good(s) /\ j \in Job /\ s.jobs[j].status = rec.status
  /\ s.results[j] # None /\ s.audited[j] /\ Len(s.events) + 3 <= MaxSequence
  /\ s1 = AppendAndUpdate(s, j, rec, ev1)
  /\ s2 = AppendAndUpdate(s1, j, rec, ev2)
  /\ d = AppendAndUpdate(s2, j, final, ev3)

ThreeAppended(s, d, j, final) ==
  /\ Good(d) /\ Extends(s, d)
  /\ \A i \in Job : i # j => d.jobs[i] = s.jobs[i]
  /\ d.jobs[j].status = final.status /\ d.jobs[j].requested = final.requested
  /\ d.results = s.results /\ d.audited = s.audited /\ d.receipts = s.receipts

\* They turn a good draft into a good draft and take nothing back.
LEMMA ThreeAppends ==
  ASSUME NEW j, NEW rec, NEW final, NEW ev1, NEW ev2, NEW ev3,
         ThreeEvents(j, rec, final, ev1, ev2, ev3),
         NEW s, NEW s1, NEW s2, NEW d, Chain(s, s1, s2, d, j, rec, final, ev1, ev2, ev3)
  PROVE  ThreeAppended(s, d, j, final)
<1> USE DEF Chain
<1>1. s \in Store /\ Len(s.events) \in Nat
  BY DEF Good, Store
<1>2. /\ Len(s.events) + 1 <= MaxSequence /\ Len(s.events) + 1 + 1 <= MaxSequence
      /\ Len(s.events) + 1 + 1 + 1 <= MaxSequence
  BY <1>1, MaxSequenceAssumption
<1>3. rec.status \in JobStatus /\ rec.status # Absent
  BY DEF ThreeEvents, Live, JobStatus, Absent
<1>4. StatusStep(rec.status, rec.status, ev1) /\ StatusStep(rec.status, rec.status, ev2)
  BY DEF ThreeEvents, StatusStep
<1>5. validate_new_job_event(s, ev1)
  BY <1>3 DEF ThreeEvents, validate_new_job_event
<1>6. /\ Good(s1) /\ Extends(s, s1)
      /\ \A i \in Job : i # j => s1.jobs[i] = s.jobs[i]
      /\ s1.jobs[j].status = rec.status /\ Len(s1.events) = Len(s.events) + 1
      /\ s1.results = s.results /\ s1.audited = s.audited /\ s1.receipts = s.receipts
  <2>1. CanAppend(s, s1, j, rec, ev1)
    BY <1>2, <1>3, <1>4, <1>5, Zenon DEF CanAppend, ThreeEvents
  <2>2. Appended(s, s1, j, rec, ev1)
    BY <2>1, CheckedAppend
  <2> QED BY <2>2 DEF Appended
<1>7. validate_new_job_event(s1, ev2)
  BY <1>3, <1>6, Zenon DEF ThreeEvents, validate_new_job_event
<1>8. /\ Good(s2) /\ Extends(s1, s2)
      /\ \A i \in Job : i # j => s2.jobs[i] = s1.jobs[i]
      /\ s2.jobs[j].status = rec.status /\ Len(s2.events) = Len(s1.events) + 1
      /\ s2.results = s1.results /\ s2.audited = s1.audited /\ s2.receipts = s1.receipts
  <2>1. CanAppend(s1, s2, j, rec, ev2)
    BY <1>2, <1>3, <1>4, <1>6, <1>7, Zenon DEF CanAppend, ThreeEvents
  <2>2. Appended(s1, s2, j, rec, ev2)
    BY <2>1, CheckedAppend
  <2> QED BY <2>2 DEF Appended
<1>9. validate_new_job_event(s2, ev3)
  BY <1>3, <1>8, ZenonT(40) DEF ThreeEvents, validate_new_job_event
<1>10. /\ Good(d) /\ Extends(s2, d)
       /\ \A i \in Job : i # j => d.jobs[i] = s2.jobs[i]
       /\ d.jobs[j].status = final.status /\ d.jobs[j].requested = final.requested
       /\ d.results = s2.results /\ d.audited = s2.audited /\ d.receipts = s2.receipts
  <2>1. CanAppend(s2, d, j, final, ev3)
    BY <1>2, <1>6, <1>8, <1>9, Zenon DEF CanAppend, ThreeEvents
  <2>2. Appended(s2, d, j, final, ev3)
    BY <2>1, CheckedAppend
  <2> QED BY <2>2 DEF Appended
<1>11. s1 \in Store /\ s2 \in Store /\ d \in Store
  BY <1>6, <1>8, <1>10, Zenon DEF Good
<1>12. Extends(s, d)
  <2>1. Extends(s, s2)
    BY <1>1, <1>6, <1>8, <1>11, ExtendsTransitive
  <2> QED BY <1>1, <1>10, <1>11, <2>1, ExtendsTransitive, Zenon
<1> QED BY <1>6, <1>8, <1>10, <1>12 DEF ThreeAppended

\* What record_tool_result_audit_terminal checks before it makes its draft.
CanFinish(s, d, j, rec, result) ==
  /\ j \in Job /\ rec \in JobRecord /\ rec.status \in Live /\ result \in ToolResultStatus
  /\ s.jobs[j].status # Absent /\ s.invoked[j] /\ s.decisions[j] # None
  /\ s.results[j] = None /\ ~s.audited[j] /\ Len(s.events) + 3 <= MaxSequence
  /\ validate_job_update_against(s.jobs[j], rec, Event(j, "ToolResultRecorded"))
  /\ LET final == transition_status(rec, terminal_status(result))
     IN validate_job_update_against(rec, final, StatusChanged(j, rec.status, final.status))
  /\ d = WithResultAuditTerminal(s, j, rec, result)

\* The draft of the final commit, before the receipt is inserted.
IsFinalDraft(s, d, j, result) ==
  /\ Good(d) /\ Extends(s, d)
  /\ \A i \in Job : i # j => d.jobs[i] = s.jobs[i]
  /\ d.jobs[j].status = terminal_status(result)
  /\ d.jobs[j].requested = s.jobs[j].requested
  /\ d.results = [s.results EXCEPT ![j] = result]
  /\ d.audited = [s.audited EXCEPT ![j] = TRUE]
  /\ d.receipts = s.receipts

\* It is good, takes nothing back and gives the job the result's status.
LEMMA FinalDraft ==
  ASSUME NEW s, NEW d, NEW j, NEW rec, NEW result, Sound(s), CanFinish(s, d, j, rec, result)
  PROVE  IsFinalDraft(s, d, j, result)
<1>0. /\ j \in Job /\ rec \in JobRecord /\ rec.status \in Live /\ result \in ToolResultStatus
      /\ s.jobs[j].status # Absent /\ s.invoked[j] /\ s.decisions[j] # None
      /\ s.results[j] = None /\ ~s.audited[j] /\ Len(s.events) + 3 <= MaxSequence
  BY DEF CanFinish
<1>1. s \in Store /\ Good(s) /\ validate_loaded_store(s)
  BY DEF Sound, Good
<1>2. s.jobs[j] \in JobRecord
  BY <1>0, <1>1 DEF Store
<1>3. /\ terminal_status(result) \in JobStatus /\ terminal_status(result) \notin Live
      /\ result # None
  BY <1>0 DEF terminal_status, JobStatus, Live, ToolResultStatus, None
<1>4. PICK final : final = transition_status(rec, terminal_status(result))
  OBVIOUS
<1>5. PICK ev1, ev2, ev3 : /\ ev1 = Event(j, "ToolResultRecorded")
                           /\ ev2 = Event(j, "AuditRecorded")
                           /\ ev3 = StatusChanged(j, rec.status, final.status)
  OBVIOUS
<1>6. PICK s0 : s0 = [s EXCEPT !.results[j] = result, !.audited[j] = TRUE]
  OBVIOUS
<1>7. PICK s1, s2 : /\ s1 = AppendAndUpdate(s0, j, rec, ev1)
                    /\ s2 = AppendAndUpdate(s1, j, rec, ev2)
  OBVIOUS
<1>8. d = AppendAndUpdate(s2, j, final, ev3)
  BY <1>4, <1>5, <1>6, <1>7 DEF CanFinish, WithResultAuditTerminal
<1>9. /\ final \in JobRecord /\ final.status = terminal_status(result)
      /\ final.requested = rec.requested
  BY <1>0, <1>3, <1>4, ZenonT(40) DEF transition_status, JobRecord, is_terminal
<1>10. /\ ev1 \in JobEvent /\ ev1.job = j /\ ev1.kind = "ToolResultRecorded"
       /\ ev2 \in JobEvent /\ ev2.job = j /\ ev2.kind = "AuditRecorded"
       /\ ev3 \in JobEvent /\ ev3.job = j /\ ev3.kind = "JobStatusChanged"
  BY <1>0, <1>3, <1>5, <1>9 DEF Event, StatusChanged, JobEvent, JobEventKind, Live, JobStatus
<1>11. /\ validate_job_update_against(s.jobs[j], rec, ev1)
       /\ validate_job_update_against(rec, final, ev3)
  BY <1>4, <1>5 DEF CanFinish
<1>12. /\ StatusStep(s.jobs[j].status, rec.status, ev1) /\ JobShape(rec)
       /\ rec.requested = s.jobs[j].requested
       /\ StatusStep(rec.status, final.status, ev3) /\ JobShape(final)
  BY <1>0, <1>2, <1>9, <1>10, <1>11, UpdateChecks, Zenon
<1>13. s.jobs[j].status = rec.status
  BY <1>10, <1>12, Zenon DEF StatusStep
<1>14. /\ s0 \in Store
       /\ s0.events = s.events /\ s0.jobs = s.jobs /\ s0.receipts = s.receipts
       /\ s0.decisions = s.decisions /\ s0.invoked = s.invoked
       /\ s0.results = [s.results EXCEPT ![j] = result]
       /\ s0.audited = [s.audited EXCEPT ![j] = TRUE]
  BY <1>0, <1>1, <1>6, Zenon DEF Store
<1>15. /\ s0.results[j] = result /\ s0.audited[j]
       /\ \A i \in Job : i # j => s0.results[i] = s.results[i] /\ s0.audited[i] = s.audited[i]
  BY <1>0, <1>1, <1>14 DEF Store
<1>16. Good(s0)
  <2>1. \A i \in Job :
          /\ s.invoked[i] => s.jobs[i].status # Absent /\ s.decisions[i] # None
          /\ s.results[i] # None => s.invoked[i]
          /\ s.audited[i] => s.decisions[i] # None /\ s.invoked[i]
    BY <1>1, Zenon DEF validate_loaded_store
  <2>2. \A i \in Job :
          /\ s.results[i] # None => s0.results[i] # None
          /\ s.audited[i] => s0.audited[i]
          /\ s0.results[i] # None => s0.invoked[i]
          /\ s0.audited[i] => s0.decisions[i] # None /\ s0.invoked[i]
    <3> SUFFICES ASSUME NEW i \in Job
                 PROVE  /\ s.results[i] # None => s0.results[i] # None
                        /\ s.audited[i] => s0.audited[i]
                        /\ s0.results[i] # None => s0.invoked[i]
                        /\ s0.audited[i] => s0.decisions[i] # None /\ s0.invoked[i]
      OBVIOUS
    <3>1. s0.decisions = s.decisions /\ s0.invoked = s.invoked
      BY <1>14
    <3>2. CASE i = j
      BY <1>0, <1>3, <1>15, <3>1, <3>2
    <3>3. CASE i # j
      BY <1>15, <2>1, <3>1, <3>3, Zenon
    <3> QED BY <3>2, <3>3
  <2>3. AddsRecords(s, s0)
    BY <1>1, <1>14, <2>1, <2>2, Zenon DEF AddsRecords
  <2> QED BY <2>3, RecordsOnlyGood
<1>17. Extends(s, s0)
  <2>1. \A i \in Job : s.results[i] # None => s0.results[i] = s.results[i]
    BY <1>0, <1>15, Zenon
  <2>2. Len(s.events) <= Len(s0.events)
    BY <1>1, <1>14 DEF Store
  <2> QED BY <1>14, <2>1, <2>2, Zenon DEF Extends
<1>18. /\ Good(d) /\ Extends(s0, d)
       /\ \A i \in Job : i # j => d.jobs[i] = s0.jobs[i]
       /\ d.jobs[j].status = final.status /\ d.jobs[j].requested = final.requested
       /\ d.results = s0.results /\ d.audited = s0.audited /\ d.receipts = s0.receipts
  <2>1. s0.jobs[j].status = rec.status /\ s0.results[j] # None /\ s0.audited[j]
        /\ Len(s0.events) + 3 <= MaxSequence /\ final.status \in JobStatus
    BY <1>0, <1>3, <1>9, <1>13, <1>14, <1>15, Zenon
  <2>2. ThreeEvents(j, rec, final, ev1, ev2, ev3)
    BY <1>0, <1>9, <1>10, <1>12, <2>1, Zenon DEF ThreeEvents
  <2>3. Chain(s0, s1, s2, d, j, rec, final, ev1, ev2, ev3)
    BY <1>0, <1>7, <1>8, <1>16, <2>1, Zenon DEF Chain
  <2>4. ThreeAppended(s0, d, j, final)
    BY <2>2, <2>3, ThreeAppends
  <2> QED BY <2>4, Zenon DEF ThreeAppended
<1>19. Extends(s, d)
  <2>1. d \in Store
    BY <1>18 DEF Good
  <2> QED BY <1>1, <1>14, <1>17, <1>18, <2>1, ExtendsTransitive
<1> QED BY <1>9, <1>12, <1>14, <1>18, <1>19, Zenon DEF IsFinalDraft

\* A receipt that has been checked may be inserted.
CanInsert(s, d, R) ==
  /\ Good(s) /\ R \in SUBSET Receipt
  /\ \A r \in R : validate_submit_job_idempotency_record(s, r)
  /\ d = [s EXCEPT !.receipts = @ \cup R]

\* It leaves all else of the store alone.
LEMMA InsertReceiptGood ==
  ASSUME NEW s, NEW d, NEW R, CanInsert(s, d, R)
  PROVE  /\ Good(d) /\ Extends(s, d)
         /\ d.jobs = s.jobs /\ d.events = s.events
         /\ d.results = s.results /\ d.audited = s.audited
<1>1. s \in Store /\ RecordsMatchLog(s) /\ validate_loaded_store(s) /\ Len(s.events) <= MaxSequence
  BY DEF Good, CanInsert
<1>0. R \in SUBSET Receipt /\ d = [s EXCEPT !.receipts = @ \cup R]
  BY DEF CanInsert
<1>2. /\ d \in Store
      /\ d.events = s.events /\ d.jobs = s.jobs /\ d.receipts = s.receipts \cup R
      /\ d.decisions = s.decisions /\ d.invoked = s.invoked
      /\ d.results = s.results /\ d.audited = s.audited
  <2>1. s.receipts \cup R \in SUBSET Receipt
    BY <1>0, <1>1 DEF Store
  <2>2. d \in Store
    BY <1>0, <1>1, <2>1, SMTT(30) DEF Store
  <2>3. /\ d.events = s.events /\ d.jobs = s.jobs /\ d.receipts = s.receipts \cup R
        /\ d.decisions = s.decisions /\ d.invoked = s.invoked
        /\ d.results = s.results /\ d.audited = s.audited
    BY <1>0, <1>1 DEF Store
  <2> QED BY <2>2, <2>3
<1>3. \A i \in Job : EventChain(d, i) = EventChain(s, i)
  BY <1>2, SameLog
<1>4. RecordsMatchLog(d)
  BY <1>1, <1>2, SameLog
<1>5. ASSUME NEW r \in d.receipts PROVE validate_submit_job_idempotency_record(d, r)
  <2>1. r \in Receipt /\ validate_submit_job_idempotency_record(s, r)
    BY <1>0, <1>1, <1>2 DEF validate_loaded_store, Store, CanInsert
  <2>2. r.id \in Job
    BY <2>1 DEF Receipt
  <2> QED BY <1>1, <1>2, <1>3, <2>1, <2>2, ReceiptStays, Zenon
<1>6. ASSUME NEW m \in 1 .. Len(d.events) PROVE validate_new_job_event(d, d.events[m])
  <2>1. validate_new_job_event(s, s.events[m])
    BY <1>1, <1>2, Zenon DEF validate_loaded_store
  <2> QED BY <1>2, <2>1, Zenon DEF validate_new_job_event
<1>7. \A i \in Job :
        /\ d.jobs[i].status # Absent => validate_loaded_job_record(d, i)
        /\ d.invoked[i] => d.jobs[i].status # Absent /\ d.decisions[i] # None
        /\ d.results[i] # None => d.invoked[i]
        /\ d.audited[i] => d.decisions[i] # None /\ d.invoked[i]
  <2>1. \A i \in Job :
          /\ s.jobs[i].status # Absent => validate_loaded_job_record(s, i)
          /\ s.invoked[i] => s.jobs[i].status # Absent /\ s.decisions[i] # None
          /\ s.results[i] # None => s.invoked[i]
          /\ s.audited[i] => s.decisions[i] # None /\ s.invoked[i]
    BY <1>1, Zenon DEF validate_loaded_store
  <2>2. \A i \in Job : validate_loaded_job_record(s, i) => validate_loaded_job_record(d, i)
    BY <1>2, SameLog
  <2> QED BY <1>2, <2>1, <2>2
<1>8. validate_loaded_store(d)
  BY <1>5, <1>6, <1>7, Zenon DEF validate_loaded_store
<1>9. Extends(s, d)
  BY <1>1, <1>2 DEF Extends, Store
<1>10. Good(d)
  BY <1>1, <1>2, <1>4, <1>8 DEF Good
<1> QED BY <1>2, <1>9, <1>10

\* record_tool_result_audit_terminal: result, audit record, terminal job and
\* receipt in one commit.
LEMMA FinishSound ==
  ASSUME NEW s, NEW d, Sound(s), FinishOp(s, d)
  PROVE  Sound(d) /\ Extends(s, d)
<1>1. PICK j \in Job, rec \in JobRecord, result \in ToolResultStatus,
           key \in Key \cup {None}, sig \in Sig \cup {None}, trail \in SUBSET Nat :
        /\ rec.status \in Live /\ (key # None => sig \in Sig)
        /\ record_tool_result_audit_terminal_ok(s, j, rec, result, key, sig, trail)
        /\ d = record_tool_result_audit_terminal(s, j, rec, result, key, sig, trail)
  BY DEF FinishOp
<1>0. PICK draft : draft = WithResultAuditTerminal(s, j, rec, result)
  OBVIOUS
<1> DEFINE receipt == FinalReceipt(s, j, key, sig, draft, trail)
           R == IF HasReceipt(result, key) THEN {receipt} ELSE {}
<1>2. /\ s \in Store /\ validate_loaded_store(s) /\ s.jobs[j] \in JobRecord
      /\ ResultsAreAtomic(s) /\ CancellationsAreAtomic(s) /\ Len(s.events) \in Nat
  <2>1. /\ s \in Store /\ validate_loaded_store(s)
        /\ ResultsAreAtomic(s) /\ CancellationsAreAtomic(s)
    BY DEF Sound, Good
  <2> QED BY <2>1 DEF Store
<1>3. /\ s.jobs[j].status # Absent /\ s.invoked[j] /\ s.decisions[j] # None
      /\ s.results[j] = None /\ ~s.audited[j] /\ Len(s.events) + 3 <= MaxSequence
      /\ validate_job_update_against(s.jobs[j], rec, Event(j, "ToolResultRecorded"))
      /\ validate_job_update_against(rec, transition_status(rec, terminal_status(result)),
           StatusChanged(j, rec.status, transition_status(rec, terminal_status(result)).status))
      /\ HasReceipt(result, key) => validate_submit_job_idempotency_record(draft, receipt)
  BY <1>0, <1>1, Zenon DEF record_tool_result_audit_terminal_ok, validate_job_update,
              ensure_event_sequence_capacity, insert_submit_job_idempotency_ok
<1>4. d = [draft EXCEPT !.receipts = @ \cup R]
  BY SMTT(30), <1>0, <1>1 DEF record_tool_result_audit_terminal
<1>5. /\ Good(draft) /\ Extends(s, draft)
      /\ \A i \in Job : i # j => draft.jobs[i] = s.jobs[i]
      /\ draft.jobs[j].status = terminal_status(result)
      /\ draft.jobs[j].requested = s.jobs[j].requested
      /\ draft.results = [s.results EXCEPT ![j] = result]
      /\ draft.audited = [s.audited EXCEPT ![j] = TRUE]
  <2>1. CanFinish(s, draft, j, rec, result)
    BY <1>0, <1>1, <1>3, Zenon DEF CanFinish
  <2>2. IsFinalDraft(s, draft, j, result)
    BY <2>1, FinalDraft
  <2> QED BY <2>2 DEF IsFinalDraft
<1>6. R \in SUBSET Receipt
  <2> SUFFICES ASSUME HasReceipt(result, key) PROVE receipt \in Receipt
    OBVIOUS
  <2>1. key \in Key /\ sig \in Sig
    BY <1>1 DEF HasReceipt
  <2>2. draft.jobs[j] \in JobRecord
    BY <1>5, Zenon DEF Good, Store
  <2>3. trail \cup ((Len(s.events) + 1) .. (Len(s.events) + 3)) \in SUBSET Nat
    <3>1. \A x \in (Len(s.events) + 1) .. (Len(s.events) + 3) : x \in Nat
      BY <1>2
    <3>2. \A x \in trail : x \in Nat
      OBVIOUS
    <3> QED BY <3>1, <3>2, Zenon
  <2> QED BY <2>1, <2>2, <2>3 DEF FinalReceipt, Receipt
<1>7. \A r \in R : validate_submit_job_idempotency_record(draft, r)
  BY <1>3, Zenon
<1> HIDE DEF R
<1>8. /\ Good(d) /\ Extends(draft, d)
      /\ d.jobs = draft.jobs /\ d.events = draft.events
      /\ d.results = draft.results /\ d.audited = draft.audited
  <2>1. CanInsert(draft, d, R)
    BY <1>4, <1>5, <1>6, <1>7 DEF CanInsert
  <2> QED BY <2>1, InsertReceiptGood, Zenon
<1>9. d \in Store /\ draft \in Store
  BY <1>5, <1>8, Zenon DEF Good
<1>10. Extends(s, d)
  BY <1>2, <1>5, <1>8, <1>9, ExtendsTransitive, Zenon
<1>11. s.jobs[j].status = rec.status
  <2>1. Event(j, "ToolResultRecorded") \in JobEvent
        /\ Event(j, "ToolResultRecorded").kind = "ToolResultRecorded"
    BY DEF Event, JobEvent, JobEventKind
  <2>2. StatusStep(s.jobs[j].status, rec.status, Event(j, "ToolResultRecorded"))
    BY <1>2, <1>3, <2>1, UpdateChecks, Zenon
  <2> QED BY <2>1, <2>2 DEF StatusStep
<1>12. ~s.jobs[j].requested
  BY <1>1, <1>11, LiveHasNoEnd, Zenon
<1>13. /\ d.results[j] = result /\ d.audited[j] /\ result # None
       /\ \A i \in Job : i # j => d.results[i] = s.results[i] /\ d.audited[i] = s.audited[i]
  BY <1>2, <1>5, <1>8 DEF Store, ToolResultStatus, None
<1>14. ResultsAreAtomic(d)
  <2> SUFFICES ASSUME NEW i \in Job
               PROVE  /\ d.results[i] # None <=> d.audited[i]
                      /\ d.results[i] # None => d.jobs[i].status = terminal_status(d.results[i])
                      /\ d.jobs[i].status = "Succeeded" => d.results[i] # None
    BY DEF ResultsAreAtomic
  <2>1. CASE i = j
    BY <1>5, <1>8, <1>13, <2>1, Zenon
  <2>2. CASE i # j
    <3>1. d.jobs[i] = s.jobs[i]
      BY <1>5, <1>8, <2>2, Zenon
    <3>2. d.results[i] = s.results[i] /\ d.audited[i] = s.audited[i]
      BY SMTT(30), <1>13, <2>2
    <3> QED BY <1>2, <3>1, <3>2 DEF ResultsAreAtomic
  <2> QED BY <2>1, <2>2, Zenon
<1>15. CancellationsAreAtomic(d)
  <2> SUFFICES ASSUME NEW i \in Job, d.jobs[i].requested
               PROVE  CanceledInOneCommit(d, i)
    BY DEF CancellationsAreAtomic
  <2>1. i # j /\ d.jobs[i] = s.jobs[i] /\ s.jobs[i].requested /\ d.results[i] = s.results[i]
    BY <1>5, <1>8, <1>12, <1>13, Zenon
  <2> QED BY <1>2, <1>9, <1>10, <2>1, CancellationStays DEF Extends
<1> QED BY <1>8, <1>10, <1>14, <1>15 DEF Sound

-----------------------------------------------------------------------------

\* Every commit of the runtime or of cancel_job turns a sound store into a sound
\* store and takes nothing back.
THEOREM CommitsAreSound ==
  ASSUME NEW s, NEW d, Sound(s), LedgerOp(s, d)
  PROVE  Sound(d) /\ Extends(s, d)
  BY CreateJobSound, DecideSound, AppendSound, CancelSound, InvokeSound, FinishSound
  DEF LedgerOp

\* A key has at most one receipt (insert_submit_job_idempotency).
OneReceiptPerKey(s) == \A r1, r2 \in s.receipts : r1.key = r2.key => r1 = r2

\* An append leaves the receipts alone.
LEMMA AppendKeepsReceipts ==
  ASSUME NEW s, "receipts" \in DOMAIN s, NEW j, NEW rec, NEW ev
  PROVE  LET d == AppendAndUpdate(s, j, rec, ev)
         IN "receipts" \in DOMAIN d /\ d.receipts = s.receipts
  BY DEF AppendAndUpdate

\* Of the commits only the last one of a run adds a receipt, and the checks of
\* the insertion see all receipts of the draft it goes into.
LEMMA ReceiptsStayUnique ==
  ASSUME NEW s \in Store, NEW d, OneReceiptPerKey(s), LedgerOp(s, d)
  PROVE  OneReceiptPerKey(d)
<1>0. "receipts" \in DOMAIN s
  BY Zenon DEF Store
<1>1. d.receipts = s.receipts => OneReceiptPerKey(d)
  BY Zenon DEF OneReceiptPerKey
<1>2. CASE CreateJobOp(s, d)
  BY <1>0, <1>1, <1>2, AppendKeepsReceipts DEF CreateJobOp, create_job_with_initial_event
<1>3. CASE DecideOp(s, d)
  BY <1>1, <1>3 DEF DecideOp, create_policy_decision, Store
<1>4. CASE AppendOp(s, d)
  BY <1>0, <1>1, <1>4, AppendKeepsReceipts DEF AppendOp, append_job_event_and_update_job
<1>5. CASE CancelOp(s, d)
  BY <1>0, <1>1, <1>5, AppendKeepsReceipts DEF CancelOp, append_job_events_and_update_job
<1>6. CASE InvokeOp(s, d)
  BY <1>1, <1>6 DEF InvokeOp, create_tool_invocation, Store
<1>7. CASE FinishOp(s, d)
  <2>1. PICK j \in Job, rec \in JobRecord, result \in ToolResultStatus,
             key \in Key \cup {None}, sig \in Sig \cup {None}, trail \in SUBSET Nat :
          /\ record_tool_result_audit_terminal_ok(s, j, rec, result, key, sig, trail)
          /\ d = record_tool_result_audit_terminal(s, j, rec, result, key, sig, trail)
    BY <1>7 DEF FinishOp
  <2> DEFINE draft == WithResultAuditTerminal(s, j, rec, result)
             receipt == FinalReceipt(s, j, key, sig, draft, trail)
  <2>2. "receipts" \in DOMAIN draft /\ draft.receipts = s.receipts
    <3> DEFINE recorded == [s EXCEPT !.results[j] = result, !.audited[j] = TRUE]
    <3>1. "receipts" \in DOMAIN recorded /\ recorded.receipts = s.receipts
      BY SMTT(30) DEF Store
    <3> DEFINE s1 == AppendAndUpdate(recorded, j, rec, Event(j, "ToolResultRecorded"))
               s2 == AppendAndUpdate(s1, j, rec, Event(j, "AuditRecorded"))
    <3>2. "receipts" \in DOMAIN s1 /\ s1.receipts = s.receipts
      <4> HIDE DEF recorded
      <4> QED BY <3>1, AppendKeepsReceipts
    <3>3. "receipts" \in DOMAIN s2 /\ s2.receipts = s.receipts
      <4> HIDE DEF s1
      <4> QED BY <3>2, AppendKeepsReceipts
    <3>4. ASSUME NEW final, NEW ev
          PROVE  LET x == AppendAndUpdate(s2, j, final, ev)
                 IN "receipts" \in DOMAIN x /\ x.receipts = s.receipts
      <4> HIDE DEF s2
      <4> QED BY <3>3, AppendKeepsReceipts
    <3> QED BY <3>4 DEF WithResultAuditTerminal
  <2>3. HasReceipt(result, key) => \A r2 \in draft.receipts : r2.key = receipt.key => r2 = receipt
    BY <2>1, Zenon DEF record_tool_result_audit_terminal_ok, insert_submit_job_idempotency_ok
  <2>4. d = [draft EXCEPT !.receipts =
               @ \cup (IF HasReceipt(result, key) THEN {receipt} ELSE {})]
    BY <2>1 DEF record_tool_result_audit_terminal
  <2> HIDE DEF draft, receipt
  <2>5. d.receipts = draft.receipts \cup (IF HasReceipt(result, key) THEN {receipt} ELSE {})
    BY <2>2, <2>4
  <2> QED BY <2>2, <2>3, <2>5, Zenon DEF OneReceiptPerKey
<1> QED BY <1>2, <1>3, <1>4, <1>5, <1>6, <1>7 DEF LedgerOp
=============================================================================
