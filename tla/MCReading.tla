----------------------------- MODULE MCReading ------------------------------
(* What clients read while it changes: the times of a job, the live watch of  *)
(* the log, the pages of jobs and events with the project status, and the     *)
(* tool output settings with their history.  They share no state here, so a   *)
(* behaviour follows one of them, its part.                                   *)
EXTENDS JobClock, Sequences, FiniteSets, SequencesExt, TLC

CONSTANTS r1, r2, u1, u2, c1, c2

VARIABLES
  part,
  log, sent, wpc, cursor, next, cutoff, scan, found, hand, buf, fwd, replayed, out, \* LiveWatch
  jobs, events, requesters, cancels, canceler, told, walk,                          \* Queries
  settings, changes, loaded, named, page                                            \* Settings

watchVars == <<log, sent, wpc, cursor, next, cutoff, scan, found, hand, buf, fwd, replayed, out>>

queryVars == <<jobs, events, requesters, cancels, canceler, told, walk>>

settingsVars == <<settings, changes, loaded, named, page>>

-----------------------------------------------------------------------------
Watch == INSTANCE LiveWatch WITH
  pc <- wpc, MaxLog <- 5, MaxCommit <- 2, RingSize <- 2, FilterBuffer <- 1,
  SnapshotLimit <- 2, ScanBatch <- 2

-----------------------------------------------------------------------------
JobQuery(r, s, a, n) == [repository_id |-> r, status |-> s, requester |-> a, page_size |-> n]

EventQuery(r, subjects, ids, severity, n) ==
  [repository_id |-> r, subject_ids |-> subjects, job_ids |-> ids, min_severity |-> severity,
   page_size |-> n]

SomeJobQueries ==
  {JobQuery({r1}, {}, {}, 1), JobQuery({}, {}, {}, 2), JobQuery({}, {"Queued"}, {}, 1),
   JobQuery({}, {}, {u1}, 1), JobQuery({}, {}, {}, 0)}

SomeEventQueries ==
  {EventQuery({r1}, {}, {}, {}, 0), EventQuery({r1}, {}, {}, {}, 3),
   EventQuery({}, {1}, {}, {}, 1), EventQuery({}, {}, {2}, {}, 1),
   EventQuery({r1}, {}, {}, {"Warning"}, 1)}

\* One client walks; three jobs of two repositories.
Walks == INSTANCE Queries WITH
  JobId <- {1, 2, 3}, Repository <- {r1, r2}, Actor <- {u1}, Client <- {c1},
  JobQueries <- SomeJobQueries, EventQueries <- SomeEventQueries,
  RecentLimit <- 1, MaxPage <- 2, MaxEvents <- 4

\* Two clients cancel one job and ask who did.
Cancels == INSTANCE Queries WITH
  JobId <- {1}, Repository <- {r1}, Actor <- {u1, u2}, Client <- {c1, c2},
  JobQueries <- {}, EventQueries <- {}, RecentLimit <- 1, MaxPage <- 2, MaxEvents <- 4

-----------------------------------------------------------------------------
Name(text) == [text |-> text, padded |-> FALSE]

WireScope(kind, id, tools) == [kind |-> kind, id |-> id, tool_id |-> tools]

\* The workspace and a repository, with and without a tool, and names that are
\* refused or trimmed.
SomeScopes ==
  {WireScope("Workspace", Name(""), tools) : tools \in {{}, {Name("t")}, {Name("")}}}
  \cup {WireScope("Repository", Name("r"), tools) :
          tools \in {{}, {[text |-> "t", padded |-> TRUE]}}}
  \cup {WireScope("Session", Name(""), {})}

Lines == "max_inline_lines"

Defaults == ("format" :> "toon") @@ (Lines :> 1)

SomeUpdates == {<< >>, "format" :> "json", Lines :> 2, ("format" :> "json") @@ (Lines :> 3)}

History == INSTANCE Settings WITH
  walk <- page, Field <- {"format", Lines}, BaseDefaults <- Defaults, WireScopes <- SomeScopes,
  Updates <- SomeUpdates, Loads <- {<< >>}, Limits <- {0, 1, 3}, Offsets <- {0, 1},
  MinLines <- 1, MaxLines <- 2, MaxHistoryPage <- 2, MaxChanges <- 3

\* What a loaded setting holds: overrides, or full defaults as they were once written.
Stored ==
  {[overrides |-> o, legacy |-> {}] : o \in {<< >>, Lines :> 2}}
  \cup {[overrides |-> << >>, legacy |-> {d}] : d \in {Defaults, [Defaults EXCEPT ![Lines] = 2]}}

\* Settings of up to three of the scopes, in any order; a duplicate scope is refused.
OrderedLoads ==
  UNION {{[i \in 1..Len(o) |-> History!Setting(o[i], f[i].overrides, f[i].legacy)] :
            f \in [1..Len(o) -> Stored]}
         : o \in {o \in SeqOf(History!Scopes, 3) : IsInjective(o)}}
  \cup {[i \in 1..2 |-> History!Setting(History!workspace, << >>, {})]}

Loading == INSTANCE Settings WITH
  walk <- page, Field <- {"format", Lines}, BaseDefaults <- Defaults, WireScopes <- SomeScopes,
  Updates <- {Lines :> 1, Lines :> 2}, Loads <- OrderedLoads, Limits <- {0}, Offsets <- {},
  MinLines <- 1, MaxLines <- 2, MaxHistoryPage <- 2, MaxChanges <- 1

-----------------------------------------------------------------------------
MCInit ==
  /\ part \in {"clock", "watch", "walks", "cancels", "history", "loading"}
  /\ IF part = "clock" THEN Init
     ELSE clock = 0 /\ steps = 0 /\ stored = {} /\ job = JobRecordNew(0) /\ pc = "Submit"
          /\ ended = None
  /\ Watch!Init /\ (part # "watch" => cursor = 0)
  /\ IF part = "cancels" THEN Cancels!Init ELSE Walks!Init
  /\ History!Init

MCNext ==
  /\ \/ part = "clock" /\ Next /\ UNCHANGED <<watchVars, queryVars, settingsVars>>
     \/ part = "watch" /\ Watch!Next /\ UNCHANGED <<vars, queryVars, settingsVars>>
     \/ part = "walks" /\ Walks!Next /\ UNCHANGED <<vars, watchVars, settingsVars>>
     \/ part = "cancels" /\ Cancels!Next /\ UNCHANGED <<vars, watchVars, settingsVars>>
     \/ part = "history" /\ History!Next /\ UNCHANGED <<vars, watchVars, queryVars>>
     \/ part = "loading" /\ Loading!Next /\ UNCHANGED <<vars, watchVars, queryVars>>
  /\ UNCHANGED part

\* The fairness of JobClock and of LiveWatch.
Fairness ==
  /\ WF_vars(part = "clock" /\ Run)
  /\ WF_vars(part = "clock" /\ cancel_job)
  /\ WF_watchVars(part = "watch" /\ Watch!PublishEvent)
  /\ WF_watchVars(part = "watch" /\ Watch!Open)
  /\ WF_watchVars(part = "watch" /\ Watch!Forward)
  /\ WF_watchVars(part = "watch" /\ Watch!Write)

MCSpec ==
  MCInit /\ [][MCNext]_<<part, vars, watchVars, queryVars, settingsVars>> /\ Fairness

-----------------------------------------------------------------------------
\* A job that the clock stopped can be ended by a cancellation once the clock has caught
\* up with the job's times (transition_status, cancel_job).
StoppedJobsEnd == part = "clock" => StoppedJobsCanBeEnded

\* A watch sends what was asked for, in order and without a gap, or expires for a reason
\* (watch_job_events_live, forward_filtered_job_events).
WatchIsExact == Watch!WatchIsExact

\* An event that was asked for is sent, unless the watch expires or the client leaves
\* (forward_filtered_job_events, watch_events_stream_body).
EventsArrive == part = "watch" => Watch!EventsArrive

\* Pages of jobs and events, replays, the followed project status and the requester of a
\* cancellation are those of the ledger (query_jobs, collect_paginated_filtered_job_events,
\* watch_events, get_project_status, get_job).
ReadsAreExact == IF part = "cancels" THEN Cancels!ReadsAreExact ELSE Walks!ReadsAreExact

\* The defaults of every scope are valid and inherited, legacy defaults survive their
\* migration but for the fields of MigratedTooEarly, an update changes what it names and
\* records it, and walks of the history are exact (settings.rs).
SettingsAreCoherent == History!SettingsAreCoherent
=============================================================================
