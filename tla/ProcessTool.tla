---------------------------- MODULE ProcessTool -----------------------------
(***************************************************************************)
(* One run of proc.exec or proc.run (atelia-core/src/tools.rs, the Linux    *)
(* code): the calling thread waits for the child, two threads capture its   *)
(* output streams, and a helper that the child starts may stay in its       *)
(* process group or leave it, and may keep the streams open.  Deadlines     *)
(* pass at any time.  Once the child is reaped and its group is empty the   *)
(* kernel may give its number to a stranger, also in the jiffy in which the *)
(* child ended.  Output is counted in bytes.                                *)
(***************************************************************************)
EXTENDS Naturals, FiniteSets, FiniteSetsExt, Functions

CONSTANTS Stream,        \* the output streams, 1..n in the order of joining
          MaxOutput,     \* max_output_bytes
          BufferSize,    \* bytes that one read takes
          PipeSize,      \* bytes that a pipe holds
          MaxWritten,    \* bound: bytes written in all
          MaxFaults      \* bound: failing system calls

VARIABLES
  main,      \* the calling thread: its step and what it holds in variables
  child, helper, stranger,  \* the processes
  pipe,      \* bytes in each pipe
  written,   \* bytes ever written to each stream
  reader,    \* the capture threads
  file,      \* bytes in each capture file
  capture_after_timeout, stop_immediately,
  faults,
  ghost      \* what the properties remember

vars == <<main, child, helper, stranger, pipe, written, reader, file,
          capture_after_timeout, stop_immediately, faults, ghost>>

processes == <<child, helper, stranger>>
streams == <<pipe, written>>
threads == <<reader, file>>
flags == <<capture_after_timeout, stop_immediately>>

StreamCaptureResult(original, retained) == [original |-> original, retained |-> retained]

NoCapture == StreamCaptureResult(0, 0)

InitialMain ==
  [step |-> "spawn", at |-> 1, expired |-> FALSE, status |-> {}, timed_out |-> FALSE,
   handled |-> FALSE, cutoff |-> FALSE, attempted |-> FALSE,
   capture |-> [s \in Stream |-> NoCapture],
   capture_timed_out |-> [s \in Stream |-> FALSE], outcome |-> {}]

InitialReader == [step |-> "none", got |-> 0, original |-> 0, retained |-> 0, stats |-> 0]

Init ==
  /\ main = InitialMain
  /\ child = [state |-> "none", exit |-> {}]
  /\ helper = [state |-> "none", group |-> FALSE, holds |-> FALSE, fresh |-> FALSE]
  /\ stranger = [state |-> "none", came |-> "never"]
  /\ pipe = [s \in Stream |-> 0]
  /\ written = [s \in Stream |-> 0]
  /\ reader = [s \in Stream |-> InitialReader]
  /\ file = [s \in Stream |-> 0]
  /\ capture_after_timeout = FALSE
  /\ stop_immediately = FALSE
  /\ faults = 0
  /\ ghost = [in_time |-> FALSE, at_exit |-> [s \in Stream |-> 0], quiet |-> {}, struck |-> {}]

----------------------------------------------------------------------------
(* The processes that run outside the daemon.                              *)

\* A process ends and lets go of the streams.
ExitChild ==
  /\ child.state = "running"
  /\ \E code \in {0, 1} : child' = [state |-> "zombie", exit |-> {code}]
  /\ ghost' = [ghost EXCEPT !.in_time = ~main.expired, !.at_exit = written]
  /\ UNCHANGED <<main, helper, stranger, streams, threads, flags, faults>>

Fork ==
  /\ child.state = "running"
  /\ helper.state = "none"
  /\ \E g, h \in BOOLEAN :
       helper' = [state |-> "running", group |-> g, holds |-> h, fresh |-> FALSE]
  /\ UNCHANGED <<main, child, stranger, streams, threads, flags, faults, ghost>>

\* A helper that has ended keeps the number of its group in use until init collects it.
ExitHelper ==
  /\ helper.state = "running"
  /\ helper' = [helper EXCEPT !.state = IF helper.group THEN "zombie" ELSE "dead", !.holds = FALSE]
  /\ UNCHANGED <<main, child, stranger, streams, threads, flags, faults, ghost>>

\* Bound: who has that number is followed from when the child is reaped to the last signal
\* that the call may send.
NumberMatters == child.state = "reaped" /\ main.step \notin {"read", "done"}

CollectHelper ==
  /\ NumberMatters /\ helper.state = "zombie"
  /\ helper' = [helper EXCEPT !.state = "dead"]
  /\ UNCHANGED <<main, child, stranger, streams, threads, flags, faults, ghost>>

\* A helper hands over to a process that it starts, after the jiffy in which the child ended.
HandOver ==
  /\ NumberMatters /\ helper.state = "running" /\ helper.group /\ ~helper.fresh
  /\ helper' = [helper EXCEPT !.fresh = TRUE]
  /\ UNCHANGED <<main, child, stranger, streams, threads, flags, faults, ghost>>

Held == child.state = "running" \/ helper.holds

Write(s) ==
  /\ Held
  /\ pipe[s] < PipeSize
  /\ FoldFunction(+, 0, written) < MaxWritten
  /\ pipe' = [pipe EXCEPT ![s] = @ + 1]
  /\ written' = [written EXCEPT ![s] = @ + 1]
  /\ UNCHANGED <<main, processes, threads, flags, faults, ghost>>

\* The number of the child's group is free and is given to another process: still in the
\* jiffy of the cutoff, as long as no join has waited for its deadline, or later, perhaps
\* just when a kill has been decided.
Recycle ==
  /\ NumberMatters /\ stranger.state = "none"
  /\ ~(helper.state \in {"running", "zombie"} /\ helper.group)
  /\ \E came \in {IF main.step = "member_kill" THEN "after_look" ELSE "late"}
                 \cup (IF main.cutoff /\ ~stop_immediately THEN {"in_jiffy"} ELSE {}) :
       stranger' = [state |-> "running", came |-> came]
  /\ UNCHANGED <<main, child, helper, streams, threads, flags, faults, ghost>>

----------------------------------------------------------------------------
(* Signals.  The number is the child's and its group's.                    *)

Killed == [state |-> "zombie", exit |-> {}]

\* Everything that SIGKILL to the group hits.
KillGroup(reason) ==
  /\ helper' = IF helper.group /\ helper.state = "running"
                 THEN [helper EXCEPT !.state = "zombie", !.holds = FALSE] ELSE helper
  /\ stranger' = [stranger EXCEPT !.state = IF @ = "running" THEN "dead" ELSE @]
  /\ ghost' = [ghost EXCEPT
                 !.struck = IF stranger.state = "running"
                              THEN @ \cup {[by |-> reason, came |-> stranger.came]} ELSE @,
                 !.at_exit = IF child.state = "running" THEN written ELSE @]

kill_process_tree(reason) ==
  /\ KillGroup(reason)
  /\ child' = IF child.state = "running" THEN Killed ELSE child

kill_process_group(reason) == KillGroup(reason) /\ UNCHANGED child

\* The tree is killed and the child waited for.
cleanup_spawned_child(reason) ==
  /\ KillGroup(reason)
  /\ child' = [child EXCEPT !.state = "reaped"]

----------------------------------------------------------------------------
(* The capture threads.                                                    *)

Reader(s, new) == reader' = [reader EXCEPT ![s] = new]

Stop(s) == Reader(s, [reader[s] EXCEPT !.step = "done"])

ReaderOnly == UNCHANGED <<main, processes, streams, file, flags, faults, ghost>>

LoopTop(s) ==
  /\ reader[s].step = "top"
  /\ IF stop_immediately THEN Stop(s) ELSE Reader(s, [reader[s] EXCEPT !.step = "poll"])
  /\ ReaderOnly

\* Nothing to read for as long as poll waits; the end of the stream otherwise.
PollEmpty(s) ==
  /\ reader[s].step = "poll"
  /\ pipe[s] = 0
  /\ IF Held THEN Reader(s, [reader[s] EXCEPT !.step = "quiet"]) ELSE Stop(s)
  /\ ReaderOnly

PollTimedOut(s) ==
  /\ reader[s].step = "quiet"
  /\ IF capture_after_timeout THEN Stop(s) ELSE Reader(s, [reader[s] EXCEPT !.step = "top"])
  /\ ghost' = [ghost EXCEPT !.quiet = IF capture_after_timeout /\ pipe[s] > 0 THEN @ \cup {s} ELSE @]
  /\ UNCHANGED <<main, processes, streams, file, flags, faults>>

Read(s) ==
  LET n == Min({pipe[s], BufferSize})
  IN /\ reader[s].step = "poll"
     /\ pipe[s] > 0
     /\ pipe' = [pipe EXCEPT ![s] = @ - n]
     /\ Reader(s, [reader[s] EXCEPT !.step = "sync", !.got = n, !.original = @ + n])
     /\ UNCHANGED <<main, processes, written, file, flags, faults, ghost>>

Sync(s) ==
  /\ reader[s].step = "sync"
  /\ Reader(s, [reader[s] EXCEPT !.step = "store", !.stats = reader[s].original])
  /\ ReaderOnly

Budget(s) == Min({MaxOutput - reader[s].retained, reader[s].got})

StoreBytes(s) ==
  /\ reader[s].step = "store"
  /\ file' = [file EXCEPT ![s] = @ + Budget(s)]
  /\ Reader(s, [reader[s] EXCEPT !.step = "check", !.got = 0, !.retained = @ + Budget(s)])
  /\ UNCHANGED <<main, processes, streams, flags, faults, ghost>>

CheckFlags(s) ==
  /\ reader[s].step = "check"
  /\ IF \/ /\ capture_after_timeout
           /\ reader[s].original >= MaxOutput /\ reader[s].retained >= MaxOutput
        \/ stop_immediately
       THEN Stop(s)
       ELSE Reader(s, [reader[s] EXCEPT !.step = "top"])
  /\ ReaderOnly

\* fcntl, poll, read or the write to the capture file fails.
ReaderFails(s) ==
  /\ reader[s].step \in {"top", "poll", "store"}
  /\ faults < MaxFaults
  /\ faults' = faults + 1
  /\ Reader(s, [reader[s] EXCEPT !.step = "error"])
  /\ UNCHANGED <<main, processes, streams, file, flags, ghost>>

capture_stream_to_file(s) ==
  \/ LoopTop(s) \/ PollEmpty(s) \/ PollTimedOut(s) \/ Read(s) \/ Sync(s)
  \/ StoreBytes(s) \/ CheckFlags(s)

----------------------------------------------------------------------------
(* execute_explicit_argv_process.                                          *)

Main(new) == main' = new

MainOnly == UNCHANGED <<processes, streams, threads, flags, faults, ghost>>

\* An error text; the tools turn it into a failed result.
Err == [status |-> "Failed", error |-> TRUE, note |-> FALSE, truncation |-> {},
        stream |-> [s \in Stream |-> [original |-> 0, retained |-> 0, truncated |-> FALSE,
                                      timed_out |-> FALSE]]]

\* argv is empty, the directory is refused, or a capture file or the process
\* cannot be created.
Refuse ==
  /\ main.step = "spawn"
  /\ Main([main EXCEPT !.step = "done", !.outcome = {Err}])
  /\ MainOnly

Spawn ==
  /\ main.step = "spawn"
  /\ Main([main EXCEPT !.step = "setup"])
  /\ child' = [state |-> "running", exit |-> {}]
  /\ UNCHANGED <<helper, stranger, streams, threads, flags, faults, ghost>>

spawn_capture_thread ==
  /\ main.step = "setup"
  /\ Main([main EXCEPT !.step = "wait"])
  /\ reader' = [s \in Stream |-> [reader[s] EXCEPT !.step = "top"]]
  /\ UNCHANGED <<processes, streams, file, flags, faults, ghost>>

\* A writer or a capture thread cannot be created: the child is killed and the
\* threads that were started are told to stop.
SetupFails ==
  /\ main.step = "setup"
  /\ faults < MaxFaults
  /\ faults' = faults + 1
  /\ \E n \in Stream :
       reader' = [s \in Stream |-> IF s < n THEN [reader[s] EXCEPT !.step = "top"] ELSE reader[s]]
  /\ capture_after_timeout' = TRUE
  /\ cleanup_spawned_child("setup")
  /\ Main([main EXCEPT !.step = "done", !.outcome = {Err}])
  /\ UNCHANGED <<streams, file, stop_immediately>>

\* The timeout passes.
Expire ==
  /\ main.step \in {"wait", "clock"}
  /\ ~main.expired
  /\ Main([main EXCEPT !.expired = TRUE])
  /\ MainOnly

\* The child is gone but not reaped: the cutoff is read, if it can be, first.
ChildExited ==
  /\ child.state = "zombie"
  /\ \E cutoff \in IF faults < MaxFaults THEN BOOLEAN ELSE {TRUE} :
       /\ Main([main EXCEPT !.step = "join", !.status = child.exit, !.cutoff = cutoff])
       /\ faults' = IF cutoff THEN faults ELSE faults + 1
  /\ child' = [child EXCEPT !.state = "reaped"]
  /\ UNCHANGED <<helper, stranger, streams, threads, flags, ghost>>

WaitExited == main.step = "wait" /\ ChildExited

WaitRunning ==
  /\ main.step = "wait"
  /\ child.state = "running"
  /\ Main([main EXCEPT !.step = "clock"])
  /\ MainOnly

\* The loop saw no exit; it looks at the clock.
WaitClock ==
  /\ main.step = "clock"
  /\ Main([main EXCEPT !.step = IF main.expired THEN "recheck" ELSE "wait"])
  /\ MainOnly

\* Mutant: the child is killed without a second look.
KillAtOnce ==
  /\ main.step = "recheck"
  /\ Main([main EXCEPT !.step = "kill"])
  /\ MainOnly

Recheck ==
  /\ main.step = "recheck"
  /\ \/ ChildExited
     \/ /\ child.state = "running"
        /\ Main([main EXCEPT !.step = "kill"])
        /\ MainOnly

TimeoutKill ==
  /\ main.step = "kill"
  /\ kill_process_tree("timeout")
  /\ Main([main EXCEPT !.step = "reap", !.handled = TRUE, !.timed_out = TRUE])
  /\ UNCHANGED <<streams, threads, flags, faults>>

TimeoutReap ==
  /\ main.step = "reap"
  /\ child' = [child EXCEPT !.state = "reaped"]
  /\ Main([main EXCEPT !.step = "join", !.status = child.exit])
  /\ capture_after_timeout' = TRUE
  /\ UNCHANGED <<helper, stranger, streams, threads, stop_immediately, faults, ghost>>

Joining(s) == main.step \in {"join", "quiesce"} /\ main.at = s

\* The next stream is joined, or all are.
NextStream(s, new) ==
  Main([new EXCEPT !.step = IF s = Cardinality(Stream) THEN "group" ELSE "join", !.at = s + 1])

JoinDone(s) ==
  /\ Joining(s)
  /\ reader[s].step = "done"
  /\ NextStream(s, [main EXCEPT !.capture[s] =
                      StreamCaptureResult(reader[s].original, reader[s].retained)])
  /\ MainOnly

JoinError(s) ==
  /\ Joining(s)
  /\ reader[s].step = "error"
  /\ capture_after_timeout' = TRUE
  /\ stop_immediately' = TRUE
  /\ cleanup_spawned_child("error")
  /\ Main([main EXCEPT !.step = "done", !.outcome = {Err}])
  /\ UNCHANGED <<streams, threads, faults>>

JoinDeadline(s) ==
  /\ Joining(s)
  /\ main.step = "join"
  /\ reader[s].step \notin {"done", "error"}
  /\ stop_immediately' = TRUE
  /\ Main([main EXCEPT !.step = "quiesce"])
  /\ UNCHANGED <<processes, streams, threads, capture_after_timeout, faults, ghost>>

\* The thread is left behind; its byte count is what it last published.
QuiesceDeadline(s) ==
  /\ Joining(s)
  /\ main.step = "quiesce"
  /\ reader[s].step \notin {"done", "error"}
  /\ NextStream(s, [main EXCEPT !.capture_timed_out[s] = TRUE,
                                !.capture[s] = StreamCaptureResult(reader[s].stats, 0)])
  /\ MainOnly

join_capture_thread(s) == JoinDone(s) \/ JoinError(s) \/ JoinDeadline(s) \/ QuiesceDeadline(s)

CaptureTimedOut == \E s \in Stream : main.capture_timed_out[s]

\* A kill that was already tried is not tried again.
AbortKill ==
  LET needed == CaptureTimedOut \/ stop_immediately
  IN /\ main.step = "group"
     /\ Main([main EXCEPT !.step = "members", !.attempted = needed,
                          !.handled = @ \/ needed])
     /\ IF needed /\ ~main.handled
          THEN kill_process_group("abort")
          ELSE UNCHANGED <<processes, ghost>>
     /\ UNCHANGED <<streams, threads, flags, faults>>

\* A process of the group in /proc, a zombie too, whose start in jiffies is not after the
\* cutoff.
process_group_has_live_member_from_before_exit ==
  \/ helper.state \in {"running", "zombie"} /\ helper.group /\ ~helper.fresh
  \/ stranger.state = "running" /\ stranger.came = "in_jiffy"

\* The look at the group...
MemberLook ==
  /\ main.step = "members"
  /\ Main([main EXCEPT !.step =
             IF ~main.timed_out /\ main.cutoff /\ process_group_has_live_member_from_before_exit
               THEN "member_kill" ELSE "read"])
  /\ MainOnly

\* ... and the kill that follows it.
MemberKill ==
  /\ main.step = "member_kill"
  /\ Main([main EXCEPT !.step = "read", !.attempted = TRUE, !.handled = TRUE])
  /\ IF main.handled THEN UNCHANGED <<processes, ghost>> ELSE kill_process_group("members")
  /\ UNCHANGED <<streams, threads, flags, faults>>

finalize_captured_stream(s) ==
  LET retained == IF main.capture_timed_out[s] THEN Min({file[s], MaxOutput})
                                               ELSE main.capture[s].retained
  IN [original |-> main.capture[s].original, retained |-> retained,
      truncated |-> main.capture[s].original > retained,
      timed_out |-> main.capture_timed_out[s]]

Status ==
  IF main.timed_out THEN "TimedOut" ELSE IF main.status = {0} THEN "Succeeded" ELSE "Failed"

\* The streams for which make_proc_tool_result states a reason.
Truncation(stream) ==
  {s \in Stream : \/ stream[s].timed_out
                  \/ stream[s].truncated /\ stream[s].retained >= MaxOutput}

Finish ==
  LET stream == [s \in Stream |-> finalize_captured_stream(s)]
  IN /\ main.step = "read"
     /\ Main([main EXCEPT !.step = "done",
                !.outcome = {[status |-> Status, error |-> FALSE,
                              note |-> stop_immediately \/ CaptureTimedOut,
                              truncation |-> Truncation(stream), stream |-> stream]}])
     /\ MainOnly

ReadFails ==
  /\ main.step = "read"
  /\ faults < MaxFaults
  /\ faults' = faults + 1
  /\ Main([main EXCEPT !.step = "done", !.outcome = {Err}])
  /\ UNCHANGED <<processes, streams, threads, flags, ghost>>

Step ==
  \/ Spawn \/ spawn_capture_thread \/ WaitExited \/ WaitRunning \/ WaitClock \/ Recheck
  \/ TimeoutKill \/ TimeoutReap \/ AbortKill \/ MemberLook \/ MemberKill \/ Finish
  \/ \E s \in Stream : join_capture_thread(s)

Next ==
  \/ Refuse \/ Step \/ SetupFails \/ ReadFails \/ Expire
  \/ \E s \in Stream : capture_stream_to_file(s) \/ ReaderFails(s) \/ Write(s)
  \/ ExitChild \/ Fork \/ ExitHelper \/ CollectHelper \/ HandOver \/ Recycle

Spec == Init /\ [][Next]_vars

\* The threads are scheduled and time passes; the processes owe nothing.
FairSpec ==
  /\ Spec
  /\ WF_vars(Step)
  /\ WF_vars(Expire)
  /\ \A s \in Stream : WF_vars(capture_stream_to_file(s))

----------------------------------------------------------------------------
Outcome == CHOOSE o \in main.outcome : TRUE

Returned == main.step = "done" /\ main.outcome # {} /\ ~Outcome.error

\* The two ways in which output that a command wrote before its timeout is cut with no sign
\* but the timeout itself: the stream stood at its limit when the capture was told to stop,
\* with more in the pipe, or bytes came after the poll that ended it.
CutByTimeout(s) ==
  /\ Outcome.status = "TimedOut"
  /\ Outcome.stream[s].retained = MaxOutput \/ s \in ghost.quiet

\* Output that the child wrote before it ended and that the result lacks is never missing
\* without a sign of it, a truncated stream or the note about aborted capture in the
\* summary, but for CutByTimeout (execute_explicit_argv_process, capture_stream_to_file).
MissingOutputShows ==
  Returned => \A s \in Stream :
    Outcome.stream[s].retained < ghost.at_exit[s] =>
      \/ Outcome.stream[s].truncated \/ Outcome.stream[s].timed_out
      \/ Outcome.note \/ CutByTimeout(s)

\* A child that ends before the timeout is never reported as timed out, however
\* late the loop sees it (the second look in wait_for_child_with_exit_cutoff).
TimeoutsAreReal == Returned /\ ghost.in_time => Outcome.status # "TimedOut"

\* A process that was given the group's number is hit by none of the kills that are sent
\* before the child is reaped (the timeout's, and the cleanup of a failed setup).  The kill
\* after the look at the group (process_group_has_live_member_from_before_exit) hits it only
\* if it started in the jiffy in which the child ended or after the look.  The kills that
\* ask nobody, after a capture that failed or missed its deadline, can hit it at any time,
\* and a call that sends one says so: it fails, or has the note about aborted capture.
StrangersAreSpared ==
  \A hit \in ghost.struck :
    \/ hit.by = "members" /\ hit.came \in {"in_jiffy", "after_look"}
    \/ hit.by = "error" /\ Outcome.error
    \/ hit.by = "abort" /\ (Returned => Outcome.note)

\* A helper that stayed in the group outlives the call only if no kill was sent, because it
\* was started after the child had ended or the cutoff could not be read
\* (wait_for_child_with_exit_cutoff).
HelpersAreStopped ==
  Returned /\ helper.state = "running" /\ helper.group =>
    ~main.handled /\ (helper.fresh \/ ~main.cutoff)

\* What a call returns tells what became of the command, and the call stops the command's
\* helpers and spares others, each up to the exceptions stated with the properties above:
\* those properties together.
ProcessIsAccountedFor ==
  MissingOutputShows /\ TimeoutsAreReal /\ StrangersAreSpared /\ HelpersAreStopped

\* The call returns even when a helper keeps the streams open for ever.
EveryRunEnds == main.step = "wait" ~> main.step = "done"

\* A capture thread that its call has left behind.
LeftBehind(s) == main.step = "done" /\ reader[s].step \notin {"none", "done", "error"}
=============================================================================
