------------------------------ MODULE LiveWatch -----------------------------
(***************************************************************************)
(* One live watch of the event log: watch_job_events_live and              *)
(* forward_filtered_job_events of atelia-core/src/store.rs, read by        *)
(* watch_events_stream_body of ateliad/src/transport.rs.                   *)
(*                                                                         *)
(* The watch subscribes to the broadcast channel first, then fixes a       *)
(* cutoff and scans the retained events up to it in batches, each batch    *)
(* under the store's mutex.  A forwarder task then moves later events from *)
(* the broadcast channel through the query's filter to a bounded channel,  *)
(* from which the response stream is written.                              *)
(*                                                                         *)
(* An event is its sequence number; log[i] says whether it matches the     *)
(* query.  The log is that of the one repository that the query names,     *)
(* whose events have a broadcast channel of their own.                     *)
(***************************************************************************)
EXTENDS Naturals, Sequences, FiniteSets

CONSTANTS
  MaxLog,          \* events of a behaviour
  MaxCommit,       \* events of one commit
  RingSize,        \* capacity of the broadcast channel
  FilterBuffer,    \* FILTERED_WATCH_EVENT_BUFFER
  SnapshotLimit,   \* MAX_LIVE_WATCH_SNAPSHOT
  ScanBatch        \* LIVE_WATCH_SNAPSHOT_SCAN_BATCH

VARIABLES
  log,      \* the committed events
  sent,     \* how many of them have been broadcast
  pc,       \* where the watch is
  cursor,   \* the sequence number the client resumes after, 0 for the beginning,
            \* or UnknownEvent for an event id that is not in the log
  next,     \* the first event the broadcast receiver has not received
  cutoff,   \* live_cutoff_sequence
  scan,     \* start_sequence of the next batch
  found,    \* the matching events of the scan so far
  hand,     \* the event the forwarder is filtering, 0 for none
  buf,      \* the bounded channel; 0 stands for the CursorExpired error
  fwd,      \* whether the forwarder runs
  replayed, \* replay_max_sequence of the response stream
  out       \* what the client has been sent

logVars == <<log, sent>>
watchVars == <<pc, cursor, next, cutoff, scan, found, hand, buf, fwd,
               replayed, out>>
vars == <<logVars, watchVars>>

Expired == 0

UnknownEvent == MaxLog + 1

TypeOK ==
  /\ log \in Seq(BOOLEAN) /\ Len(log) <= MaxLog
  /\ sent \in 0 .. Len(log)
  /\ pc \in {"new", "subscribed", "scanning", "streaming", "expired", "closed"}
  /\ cursor \in 0 .. UnknownEvent /\ next \in 1 .. MaxLog + 1
  /\ cutoff \in 0 .. MaxLog /\ scan \in 1 .. MaxLog + 1
  /\ found \in Seq(1 .. MaxLog) /\ Len(found) <= SnapshotLimit
  /\ hand \in 0 .. MaxLog
  /\ buf \in Seq(0 .. MaxLog) /\ Len(buf) <= FilterBuffer
  /\ fwd \in BOOLEAN /\ replayed \in 0 .. MaxLog /\ out \in Seq(1 .. MaxLog)

Init ==
  /\ log = << >> /\ sent = 0
  /\ pc = "new" /\ cursor \in 0 .. UnknownEvent
  /\ next = 1 /\ cutoff = 0 /\ scan = 1 /\ found = << >> /\ hand = 0 /\ buf = << >> /\ fwd = FALSE
  /\ replayed = 0 /\ out = << >>

Max2(m, n) == IF m >= n THEN m ELSE n

\* The store's mutex is held from the commit to the last broadcast.
StoreUnlocked == sent = Len(log)

-----------------------------------------------------------------------------
(* mutate_with_published_events                                            *)

CommitEvents ==
  /\ StoreUnlocked
  /\ \E n \in 1 .. MaxCommit : \E matches \in [1 .. n -> BOOLEAN] :
       /\ Len(log) + n <= MaxLog
       /\ log' = log \o matches
  /\ UNCHANGED <<sent, watchVars>>

PublishEvent ==
  /\ sent < Len(log)
  /\ sent' = sent + 1
  /\ UNCHANGED <<log, watchVars>>

-----------------------------------------------------------------------------
(* watch_job_events_live                                                   *)

\* Takes no lock: it may fall between the commit and the broadcast of an event.
Subscribe ==
  /\ pc = "new"
  /\ pc' = "subscribed"
  /\ next' = sent + 1
  /\ UNCHANGED <<logVars, cursor, cutoff, scan, found, hand, buf, fwd, replayed, out>>

RefuseCursor ==
  /\ pc = "subscribed" /\ StoreUnlocked /\ cursor = UnknownEvent
  /\ pc' = "expired"
  /\ UNCHANGED <<logVars, cursor, next, cutoff, scan, found, hand, buf, fwd,
                 replayed, out>>

FixCutoff ==
  /\ pc = "subscribed" /\ StoreUnlocked /\ cursor # UnknownEvent
  /\ cutoff' = Max2(cursor, Len(log))
  /\ scan' = cursor + 1
  /\ pc' = "scanning"
  /\ UNCHANGED <<logVars, cursor, next, found, hand, buf, fwd, replayed, out>>

\* The retained events of the next batch, as far as the cutoff.
Batch == {i \in 1 .. Len(log) : scan <= i /\ i < scan + ScanBatch /\ i <= cutoff}

ScanEvents ==
  /\ pc = "scanning" /\ StoreUnlocked /\ Batch # {}
  /\ LET matching == SelectSeq([i \in 1 .. Cardinality(Batch) |-> scan + i - 1],
                               LAMBDA i : log[i])
     IN IF Len(found) + Len(matching) > SnapshotLimit
          THEN pc' = "expired" /\ UNCHANGED <<scan, found>>
          ELSE /\ found' = found \o matching
               /\ scan' = scan + Cardinality(Batch)
               /\ UNCHANGED pc
  /\ UNCHANGED <<logVars, cursor, next, cutoff, hand, buf, fwd, replayed, out>>

\* What the snapshot has brought the client to, or the cursor has.
watch_events_last_sequence == IF found # << >> THEN found[Len(found)] ELSE cursor

\* Mutant: the broadcast receiver is made when the forwarder starts.
SubscribeAfterScan ==
  /\ pc = "scanning" /\ StoreUnlocked /\ Batch = {}
  /\ pc' = "streaming" /\ fwd' = TRUE
  /\ next' = sent + 1
  /\ out' = found
  /\ replayed' = watch_events_last_sequence
  /\ UNCHANGED <<logVars, cursor, cutoff, scan, found, hand, buf>>

\* The snapshot is the first frame of the response; the stream then skips what
\* it has replayed, or what the cursor says the client has.
StartForwarder ==
  /\ pc = "scanning" /\ StoreUnlocked /\ Batch = {}
  /\ pc' = "streaming" /\ fwd' = TRUE
  /\ out' = found
  /\ replayed' = watch_events_last_sequence
  /\ UNCHANGED <<logVars, cursor, next, cutoff, scan, found, hand, buf>>

-----------------------------------------------------------------------------
(* forward_filtered_job_events                                             *)

Lagged == sent - next + 1 > RingSize

ReceiveEvent ==
  /\ fwd /\ hand = 0 /\ next <= sent /\ ~Lagged
  /\ next' = next + 1
  /\ hand' = IF next <= cutoff THEN 0 ELSE next
  /\ UNCHANGED <<logVars, pc, cursor, cutoff, scan, found, buf, fwd, replayed, out>>

\* Mutant: the forwarder ends without a word.
LaggedSilently ==
  /\ fwd /\ hand = 0 /\ next <= sent /\ Lagged
  /\ fwd' = FALSE
  /\ UNCHANGED <<logVars, pc, cursor, next, cutoff, scan, found, hand, buf,
                 replayed, out>>

ReceiveLagged ==
  /\ fwd /\ hand = 0 /\ next <= sent /\ Lagged
  /\ Len(buf) < FilterBuffer
  /\ buf' = Append(buf, Expired)
  /\ fwd' = FALSE
  /\ UNCHANGED <<logVars, pc, cursor, next, cutoff, scan, found, hand, replayed, out>>

ForwardEvent ==
  /\ fwd /\ hand # 0 /\ StoreUnlocked
  /\ IF log[hand]
       THEN Len(buf) < FilterBuffer /\ buf' = Append(buf, hand)
       ELSE UNCHANGED buf
  /\ hand' = 0
  /\ UNCHANGED <<logVars, pc, cursor, next, cutoff, scan, found, fwd, replayed, out>>

-----------------------------------------------------------------------------
(* watch_events_stream_body                                                *)

WriteEvent ==
  /\ pc = "streaming" /\ buf # << >> /\ Head(buf) # Expired
  /\ buf' = Tail(buf)
  /\ IF Head(buf) <= replayed
       THEN UNCHANGED <<replayed, out>>
       ELSE replayed' = Head(buf) /\ out' = Append(out, Head(buf))
  /\ UNCHANGED <<logVars, pc, cursor, next, cutoff, scan, found, hand, fwd>>

WriteExpired ==
  /\ pc = "streaming" /\ buf # << >> /\ Head(buf) = Expired
  /\ pc' = "expired"
  /\ buf' = Tail(buf)
  /\ UNCHANGED <<logVars, cursor, next, cutoff, scan, found, hand, fwd, replayed, out>>

\* The client goes away: the channel closes and the forwarder ends.
Disconnect ==
  /\ pc = "streaming"
  /\ pc' = "closed"
  /\ buf' = << >> /\ hand' = 0 /\ fwd' = FALSE
  /\ UNCHANGED <<logVars, cursor, next, cutoff, scan, found, replayed, out>>

-----------------------------------------------------------------------------
Open == Subscribe \/ RefuseCursor \/ FixCutoff \/ ScanEvents \/ StartForwarder

Forward == ReceiveEvent \/ ReceiveLagged \/ ForwardEvent

Write == WriteEvent \/ WriteExpired

Next == CommitEvents \/ PublishEvent \/ Open \/ Forward \/ Write \/ Disconnect

Spec == Init /\ [][Next]_vars

\* A request thread, a task and a publisher that can go on do; a client that is
\* connected reads.  Nobody has to commit or to connect.
Fairness ==
  WF_vars(PublishEvent) /\ WF_vars(Open) /\ WF_vars(Forward) /\ WF_vars(Write)

FairSpec == Spec /\ Fairness

-----------------------------------------------------------------------------
\* The events that the client asked for, in order.
Asked == SelectSeq([i \in 1 .. Len(log) |-> i], LAMBDA i : i > cursor /\ log[i])

\* The client sees its events in order, each once and none skipped, wherever the
\* commits fall between the subscription, the cutoff, the batches of the scan and
\* the start of the forwarder: what was sent is a prefix of what was asked for.
SentIsPrefix ==
  /\ Len(out) <= Len(Asked)
  /\ \A n \in DOMAIN out : out[n] = Asked[n]

\* The watch gives up only when it must: the cursor names no event, the snapshot
\* would be too large, or the receiver fell more than a ring behind.
ExpiryIsJustified ==
  pc = "expired" =>
    \/ cursor = UnknownEvent
    \/ Cardinality({i \in 1 .. cutoff : i > cursor /\ i <= Len(log) /\ log[i]}) > SnapshotLimit
    \/ sent - next + 1 > RingSize

\* A watch tells its client the events it asked for, or that it cannot: what it sends is a
\* prefix of them, and it gives up only for one of the reasons above
\* (watch_job_events_live, forward_filtered_job_events).
WatchIsExact == SentIsPrefix /\ ExpiryIsJustified

\* An event that the client asked for is sent, unless the watch expires or the
\* client leaves.
EventsArrive ==
  \A i \in 1 .. MaxLog :
    (pc # "new" /\ i \in 1 .. sent /\ log[i] /\ i > cursor)
      ~> (pc \in {"expired", "closed"} \/ \E n \in DOMAIN out : out[n] = i)
=============================================================================
