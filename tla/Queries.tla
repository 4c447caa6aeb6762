------------------------------- MODULE Queries -------------------------------
(***************************************************************************)
(* What clients read of the ledger while it changes: pages of jobs and     *)
(* events, replays from a cursor, the project status they resume from, and *)
(* who cancelled a job (ateliad/src/rpc.rs and service.rs over             *)
(* atelia-core/src/store.rs).  A page is read under the store's mutex;     *)
(* between two pages of a walk jobs are submitted, advance and are         *)
(* cancelled, and the daemon may restart.                                  *)
(***************************************************************************)
EXTENDS Integers, Sequences, FiniteSets, SequencesExt

CONSTANTS JobId,        \* random, and the order of the jobs' BTreeMap
          Repository, Actor, Client,
          JobQueries,   \* JobQuery without its token
          EventQueries, \* EventQuery without its token
          RecentLimit,  \* PROJECT_STATUS_RECENT_LIMIT
          MaxPage,      \* MAX_WATCH_EVENTS_PAGE
          MaxEvents     \* bound: events of a behaviour

VARIABLES jobs, events, requesters, cancels, canceler, told, walk

store == <<jobs, events>>

vars == <<jobs, events, requesters, cancels, canceler, told, walk>>

NoWalk == [mode |-> "none"]

Init ==
  /\ jobs = << >>
  /\ events = << >>
  /\ requesters = << >>
  /\ cancels = [c \in Client |-> {}]
  /\ canceler = << >>
  /\ told = << >>
  /\ walk = [c \in Client |-> NoWalk]

With(f, k, v) == [x \in DOMAIN f \cup {k} |-> IF x = k THEN v ELSE f[x]]

----------------------------------------------------------------------------
(* The ledger: jobs and their events.  A sequence number is an index.      *)
(* `canceler` and `told` are history: who cancelled each job, and who was  *)
(* answered so by the daemon that runs.                                    *)

\* subject is the job, or 0 for an event about one of its records
Event(id, job, kind, subject, to, severity) ==
  [job_id |-> id, repository_id |-> job.repository_id, kind |-> kind, subject |-> subject,
   to |-> to, severity |-> severity]

\* updated_at is the length of the log: times grow with it.
Append1(id, job, event) ==
  /\ Len(events) < MaxEvents
  /\ events' = Append(events, event)
  /\ jobs' = With(jobs, id, [job EXCEPT !.updated_at = Len(events) + 1])

submit_job(id) ==
  /\ id \notin DOMAIN jobs
  /\ \E r \in Repository, a \in Actor :
       LET job == [repository_id |-> r, requester |-> a, status |-> "Queued", updated_at |-> 0,
                  completed_at |-> {}, cancellation_state |-> "not_requested"]
       IN  Append1(id, job, Event(id, job, "JobSubmitted", id, "Queued", "Info"))
  /\ UNCHANGED <<requesters, cancels, canceler, told, walk>>

\* The events of a run (module JobRuntime).
AdvanceJob(id) ==
  /\ id \in DOMAIN jobs
  /\ \/ \E s \in [Queued |-> {"Running"}, Running |-> {"Succeeded", "Failed"}, Succeeded |-> {},
                  Failed |-> {}, Canceled |-> {}][jobs[id].status] :
          Append1(id, [jobs[id] EXCEPT !.status = s,
                         !.completed_at = IF s = "Running" THEN {} ELSE {Len(events) + 1}],
                  Event(id, jobs[id], "JobStatusChanged", id, s,
                        IF s = "Failed" THEN "Error" ELSE "Info"))
     \/ /\ jobs[id].status = "Running"
        /\ Append1(id, jobs[id], Event(id, jobs[id], "ToolInvoked", 0, "None", "Info"))
  /\ UNCHANGED <<requesters, cancels, canceler, told, walk>>

----------------------------------------------------------------------------
(* cancel_job: the store commits the cancellation, then the service notes  *)
(* who asked for it.  A cancellation of an ended job is refused and notes  *)
(* nothing.                                                                *)

cancel_job(c, a, id) ==
  /\ cancels[c] = {}
  /\ id \in DOMAIN jobs /\ jobs[id].status \in {"Queued", "Running"}
  /\ Len(events) + 2 <= MaxEvents
  /\ LET job == [jobs[id] EXCEPT !.status = "Canceled", !.cancellation_state = "requested",
                                 !.updated_at = Len(events) + 2, !.completed_at = {Len(events) + 2}]
     IN  /\ events' = events \o <<Event(id, job, "CancellationRequested", id, "None", "Warning"),
                                  Event(id, job, "JobStatusChanged", id, "Canceled", "Warning")>>
         /\ jobs' = With(jobs, id, job)
  /\ canceler' = With(canceler, id, a)
  /\ cancels' = [cancels EXCEPT ![c] = {[id |-> id, actor |-> a]}]
  /\ UNCHANGED <<requesters, told, walk>>

CancelRefused(c, a, id) ==
  /\ cancels[c] = {}
  /\ id \in DOMAIN jobs /\ jobs[id].status \notin {"Queued", "Running"}
  /\ UNCHANGED vars

\* ... and answers.
NoteRequester(c) ==
  /\ \E n \in cancels[c] : /\ requesters' = With(requesters, n.id, n.actor)
                           /\ told' = With(told, n.id, n.actor)
  /\ cancels' = [cancels EXCEPT ![c] = {}]
  /\ UNCHANGED <<store, canceler, walk>>

cancellation_requester(id) == {requesters[i] : i \in {id} \cap DOMAIN requesters}

\* Only the map of requesters is not durable.
Restart ==
  /\ requesters' = << >> /\ told' = << >>
  /\ cancels' = [c \in Client |-> {}]
  /\ walk' = [c \in Client |-> IF walk[c].mode = "job" THEN NoWalk ELSE walk[c]]
  /\ UNCHANGED <<store, canceler>>

----------------------------------------------------------------------------
(* Pages.  The empty set is an absent option.                              *)

page_records(records, start, size) ==
  LET end == IF start + size > Len(records) THEN Len(records) ELSE start + size
  IN  [records |-> SubSeq(records, start + 1, end),
       next |-> IF size > 0 /\ start + size < Len(records) THEN {start + size} ELSE {}]

page_start(token) == IF token = {} THEN 0 ELSE CHOOSE n \in token : TRUE

JobMatches(job, q) ==
  /\ q.repository_id \subseteq {job.repository_id}
  /\ q.status \subseteq {job.status}
  /\ q.requester \subseteq {job.requester}

MatchingJobs(q) ==
  SetToSortSeq({id \in DOMAIN jobs : JobMatches(jobs[id], q)}, <)

query_jobs(q, token) == page_records(MatchingJobs(q), page_start(token), q.page_size)

severity_rank(s) == [Debug |-> 0, Info |-> 1, Warning |-> 2, Error |-> 3][s]

matches_event_query(e, q) ==
  /\ q.repository_id \subseteq {e.repository_id}
  /\ q.subject_ids = {} \/ e.subject \in q.subject_ids
  /\ q.job_ids = {} \/ e.job_id \in q.job_ids
  /\ \A s \in q.min_severity : severity_rank(e.severity) >= severity_rank(s)

event_cursor_sequence(cursor) == IF cursor = {} THEN 0 ELSE CHOOSE n \in cursor : TRUE

\* The sequence numbers after the cursor of the events that match.
MatchingEvents(q, cursor) ==
  SetToSortSeq({i \in 1..Len(events) : i > event_cursor_sequence(cursor)
                                       /\ matches_event_query(events[i], q)}, <)

\* Mutant: the token counts the events that were scanned.
PageOfScanned(q, cursor, token) ==
  LET page == page_records(MatchingEvents(q, cursor), page_start(token), q.page_size)
  IN  [page EXCEPT !.next = IF page.next = {} THEN {} ELSE {page.records[Len(page.records)]}]

collect_paginated_filtered_job_events(q, cursor, token) ==
  page_records(MatchingEvents(q, cursor), page_start(token), q.page_size)

----------------------------------------------------------------------------
(* The walks of a client.  `seen` is all it got, `start` what there was.   *)

Walks(c, w) ==
  /\ walk' = [walk EXCEPT ![c] = w]
  /\ UNCHANGED <<store, requesters, cancels, canceler, told>>

StartJobWalk(c) ==
  /\ walk[c].mode = "none"
  /\ \E q \in JobQueries :
       Walks(c, [mode |-> "jobs", query |-> q, token |-> {}, seen |-> << >>, done |-> FALSE,
                 start |-> {id \in DOMAIN jobs : JobMatches(jobs[id], q)}])

list_jobs(c) ==
  /\ walk[c].mode = "jobs" /\ ~walk[c].done
  /\ LET page == query_jobs(walk[c].query, walk[c].token)
     IN  Walks(c, [walk[c] EXCEPT !.seen = @ \o page.records, !.token = page.next,
                                  !.done = page.next = {}])

\* parse_event_query: a page is never empty by request, nor longer than MaxPage.
StartEventWalk(c) ==
  /\ walk[c].mode = "none"
  /\ \E q \in EventQueries, cursor \in {{}} \cup {{n} : n \in 1..Len(events)} :
       /\ q.page_size > 0
       /\ Walks(c, [mode |-> "events", cursor |-> cursor, token |-> {}, seen |-> << >>,
                    query |-> [q EXCEPT !.page_size = IF @ > MaxPage THEN MaxPage ELSE @],
                    done |-> FALSE, start |-> Len(events)])

list_events(c) ==
  /\ walk[c].mode = "events" /\ ~walk[c].done
  /\ LET page == collect_paginated_filtered_job_events(walk[c].query, walk[c].cursor, walk[c].token)
     IN  Walks(c, [walk[c] EXCEPT !.seen = @ \o page.records, !.token = page.next,
                                  !.done = page.next = {}])

StartReplay(c) ==
  /\ walk[c].mode = "none"
  /\ \E q \in EventQueries, cursor \in {{}} \cup {{n} : n \in 0..MaxEvents} :
       /\ q.page_size > 0
       /\ Walks(c, [mode |-> "replay", first |-> cursor, cursor |-> cursor, seen |-> << >>,
                    query |-> [q EXCEPT !.page_size = IF @ > MaxPage THEN MaxPage ELSE @]])

ReplayCursor(c, page) ==
  IF page.records # << >> THEN {page.records[Len(page.records)]} ELSE walk[c].cursor

\* The rest of the snapshot is not asked for: the next call resumes from the cursor.
watch_events(c) ==
  /\ walk[c].mode = "replay"
  /\ LET page == collect_paginated_filtered_job_events(walk[c].query, walk[c].cursor, {})
     IN  Walks(c, [walk[c] EXCEPT !.seen = @ \o page.records, !.cursor = ReplayCursor(c, page)])

\* get_job reads the record, and then who cancelled the job.
get_job(c, id) ==
  /\ walk[c].mode = "none" /\ id \in DOMAIN jobs
  /\ Walks(c, [mode |-> "job", id |-> id, record |-> jobs[id], answer |-> << >>,
               told |-> {told[i] : i \in {id} \cap DOMAIN told}])

job_cancellation_from_record(w) ==
  [status |-> w.record.status, state |-> w.record.cancellation_state,
   requested_by |-> cancellation_requester(w.id),
   completed_at |-> IF w.record.cancellation_state = "completed" THEN w.record.completed_at ELSE {}]

AnswerJob(c) ==
  /\ walk[c].mode = "job" /\ walk[c].answer = << >>
  /\ Walks(c, [walk[c] EXCEPT !.answer = job_cancellation_from_record(walk[c])])

EndWalk(c) ==
  /\ walk[c].mode # "none"
  /\ Walks(c, NoWalk)

----------------------------------------------------------------------------
(* get_project_status, and a client that follows the repository from it.   *)

latest_job_event_for_repository(r) ==
  LET is == {i \in 1..Len(events) : events[i].repository_id = r}
  IN  {i \in is : \A j \in is : j <= i}

recent_jobs(r) ==
  LET ids == {id \in DOMAIN jobs : jobs[id].repository_id = r}
      newest == SetToSortSeq(ids, LAMBDA i, j : jobs[i].updated_at > jobs[j].updated_at)
  IN  {newest[n] : n \in 1..(IF Len(newest) > RecentLimit THEN RecentLimit ELSE Len(newest))}

get_project_status(c) ==
  /\ walk[c].mode = "none"
  /\ \E r \in Repository :
       Walks(c, [mode |-> "status", repository |-> r,
                 cursor |-> latest_job_event_for_repository(r),
                 view |-> [id \in recent_jobs(r) |-> jobs[id].status]])

\* The client applies the status changes of the jobs it shows.
FollowStatus(c) ==
  /\ walk[c].mode = "status"
  /\ LET q == [repository_id |-> {walk[c].repository}, subject_ids |-> {}, job_ids |-> {},
               min_severity |-> {}, page_size |-> 1]
         page == collect_paginated_filtered_job_events(q, walk[c].cursor, {})
     IN  /\ page.records # << >>
         /\ LET e == events[page.records[1]]
            IN  Walks(c, [walk[c] EXCEPT
                    !.cursor = {page.records[1]},
                    !.view = IF e.job_id \in DOMAIN @ /\ e.to # "None"
                             THEN [@ EXCEPT ![e.job_id] = e.to] ELSE @])

Next ==
  \/ \E id \in JobId : submit_job(id) \/ AdvanceJob(id)
  \/ \E c \in Client, a \in Actor, id \in JobId : cancel_job(c, a, id) \/ CancelRefused(c, a, id)
  \/ Restart
  \/ \E c \in Client : \/ NoteRequester(c)
                       \/ StartJobWalk(c) \/ list_jobs(c)
                       \/ StartEventWalk(c) \/ list_events(c)
                       \/ StartReplay(c) \/ watch_events(c)
                       \/ \E id \in JobId : get_job(c, id)
                       \/ AnswerJob(c)
                       \/ get_project_status(c) \/ FollowStatus(c)
                       \/ EndWalk(c)

Spec == Init /\ [][Next]_vars

----------------------------------------------------------------------------
(* Properties.                                                             *)

Walking(mode) == {walk[c] : c \in {d \in Client : walk[d].mode = mode}}

\* Pages of events resumed with their tokens give every event that matches once, in
\* the order of the log, and at the end all that there were when the walk began,
\* although the log grows between the pages (collect_paginated_filtered_job_events).
EventWalkIsExact ==
  \A w \in Walking("events") :
    /\ IsPrefix(w.seen, MatchingEvents(w.query, w.cursor))
    /\ w.done => \A i \in 1..w.start :
         i \in Range(MatchingEvents(w.query, w.cursor)) => i \in Range(w.seen)

\* Replays resumed from the cursor that the last one answered lose and repeat no
\* event (SecretaryRpcServer::watch_events).
ReplayIsExact ==
  \A w \in Walking("replay") : IsPrefix(w.seen, MatchingEvents(w.query, w.first))

\* Jobs of random ids are inserted anywhere in the order that the tokens count in: a
\* walk without a status filter still shows each job that was there when it began.
JobWalkMissesNone ==
  \A w \in Walking("jobs") :
    w.done /\ w.query.status = {} /\ w.query.page_size > 0 => w.start \subseteq Range(w.seen)

\* A client that takes the project status and then follows the events after its
\* cursor has, when it has caught up, the status of every job it shows
\* (project_status_snapshot reads jobs and log under one lock).
StatusIsFollowed ==
  \A w \in Walking("status") :
    latest_job_event_for_repository(w.repository) = w.cursor =>
      \A id \in DOMAIN w.view : w.view[id] = jobs[id].status

Stage(s) == [Queued |-> 0, Running |-> 1, Succeeded |-> 2, Failed |-> 2, Canceled |-> 2][s]

JobAnswers == {w \in Walking("job") : w.answer # << >>}

\* The requester that get_job shows for a job is the one whose cancellation the ledger
\* committed, whoever else tried; and once cancel_job has answered, every get_job that
\* begins shows the job cancelled, by that requester, as long as the daemon runs.
RequesterCanceled ==
  \A w \in JobAnswers :
    /\ \A a \in w.answer.requested_by : w.id \in DOMAIN canceler /\ canceler[w.id] = a
    /\ \A a \in w.told : w.answer.status = "Canceled" /\ w.answer.requested_by = {a}

\* What clients are told of jobs and events is what the ledger holds: the properties above
\* together.
ReadsAreExact ==
  EventWalkIsExact /\ ReplayIsExact /\ JobWalkMissesNone /\ StatusIsFollowed /\ RequesterCanceled
=============================================================================
