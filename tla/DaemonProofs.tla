---------------------------- MODULE DaemonProofs ----------------------------
(***************************************************************************)
(* The daemon as its clients see it.  Transport, for any clients, requests *)
(* and RPC errors: the call is made for the requests that deserve it, and  *)
(* the answer tells.  Startup, for any number of daemons, configurations,  *)
(* starts, read attempts and faults: the daemons that are up with a        *)
(* session token agree with the file and with each other.                  *)
(***************************************************************************)
EXTENDS Transport, DaemonParts, TLAPS

-----------------------------------------------------------------------------
(* The requests of the transport.  What a request went through follows     *)
(* from its step and from the answer it waits with, and a client is in the *)
(* queue of the lock once and only while its request waits: without the    *)
(* queue a lock granted twice would call twice.                            *)

\* The route the handler of a request is taken from.
RouteOf(q) == CHOOSE x \in dispatch_route : x.path = q.path

Refusals == {"unauthorized", "unsupported_endpoint", "method_not_allowed",
             "request_too_large", "invalid_json", "invalid_argument", "request_timeout",
             "transport_error"}

Codes == {"None", "ok", "rpc_error", "cursor_expired"} \cup Refusals

Answers == [status : Nat, code : Codes]

ClientState ==
  [step : {"idle", "body", "waiting", "granted", "streaming", "answered"},
   request : Requests \cup {<<>>}, then : Answers, timed : BOOLEAN, calls : Nat,
   answer : Answers]

\* The request passed the middleware, the router and the check of the method.
Admitted(q) ==
  /\ q \in Requests /\ q.token
  /\ RouteOf(q) \in dispatch_route /\ RouteOf(q).path = q.path
  /\ RouteOf(q).method = q.method

\* Its body, if the handler reads one, came and was not refused before the lock.
Accepted(q) ==
  RouteOf(q).handler.body =>
    q.body \in {"ok", "refused"} /\ ~(q.body = "refused" /\ RouteOf(q).handler.refuses = "early")

\* What a client's request went through follows from its step and the answer it waits with.
Unanswered(s) ==
  s.step \in {"idle", "body", "waiting", "granted"} => s.calls = 0 /\ s.answer = NoAnswer

Promised(s) ==
  /\ s.step = "body" => Admitted(s.request)
  /\ s.step \in {"waiting", "granted"} /\ s.then = NoAnswer
       => Admitted(s.request) /\ Accepted(s.request)
  /\ s.then # NoAnswer => s.then.code \in Refusals /\ s.then.status # 200
  /\ s.then.code = "unsupported_endpoint" => route_for_path(s.request.path) = {}

\* The three properties, of one client.
Tells(s) ==
  /\ s.answer.code \in Refusals => s.calls = 0
  /\ s.answer.status = 200 => s.calls = 1
  /\ s.answer.code = "cursor_expired" => s.calls = 1

Deserves(s) ==
  s.calls > 0 =>
    /\ s.request.token
    /\ \E r \in dispatch_route :
         /\ r.path = s.request.path /\ r.method = s.request.method
         /\ r.handler.body => s.request.body \in {"ok", "refused"}
         /\ s.request.body = "refused" => (~r.handler.body \/ r.handler.refuses = "never")

Routed(s) ==
  s.answer.code = "unsupported_endpoint" => route_for_path(s.request.path) = {}

ClientInv(s) == Unanswered(s) /\ Promised(s) /\ Tells(s) /\ Deserves(s) /\ Routed(s)

\* A client is in the queue once, and only while its request waits.
Queued(q, states) ==
  \A i \in DOMAIN q :
    q[i] # "main" =>
      /\ states[q[i]].step = "waiting"
      /\ \A j \in DOMAIN q : q[j] = q[i] => j = i

Task == Client \cup {"main"}

Absent(q, c) == \A i \in DOMAIN q : q[i] # c

TransportInv ==
  /\ client \in [Client -> ClientState]
  /\ queue \in Seq(Task)
  /\ Queued(queue, client)
  /\ \A c \in Client : ClientInv(client[c])

-----------------------------------------------------------------------------
(* The table of routes.                                                    *)

\* A handler refuses a payload in one of four ways, and the router knows its path.
KnownRoute(r) ==
  /\ r.handler.refuses \in {"early", "requester", "scope", "never"}
  /\ build_router(r.path)

LEMMA GetRoute ==
  ASSUME NEW path, NEW rpc, NEW body, NEW refuses \in {"early", "requester", "scope", "never"},
         build_router(path)
  PROVE  /\ KnownRoute(Get(path, Handler(rpc, body, refuses)))
         /\ KnownRoute(Post(path, Handler(rpc, body, refuses)))
  BY DEF KnownRoute, Get, Post, Handler

LEMMA SingleRouted ==
  /\ build_router(<<"health">>)
  /\ build_router(<<"repositories:list">>)
  /\ build_router(<<"repositories:register">>)
  /\ build_router(<<"repertoire:list">>)
  /\ build_router(<<"package-trust-index:list">>)
  /\ build_router(<<"tool-results:render">>)
  /\ build_router(<<"project-status:get">>)
  BY DEF build_router

LEMMA PairRouted ==
  ASSUME NEW b
  PROVE  /\ b \in {"list", "watch", "replay"} => build_router(<<"events", b>>)
         /\ build_router(<<"jobs", b>>)
         /\ build_router(<<"packages", b>>)
  BY DEF build_router

LEMMA TripleRouted ==
  ASSUME NEW b, NEW d
  PROVE  /\ b = "settings" /\ d \in {"get", "update", "history:list"}
              => build_router(<<"tool-output", b, d>>)
         /\ build_router(<<"jobs", b, d>>)
         /\ build_router(<<"packages", b, d>>)
  BY DEF build_router

LEMMA JobRoutesKnown == \A r \in JobRoutes : KnownRoute(r)
  BY GetRoute, SingleRouted, PairRouted, TripleRouted, Zenon
  DEF JobRoutes, dispatch_health, dispatch_submit_job, dispatch_list_jobs, dispatch_get_job,
      dispatch_list_job_events, dispatch_cancel_job

LEMMA RepositoryRoutesKnown == \A r \in RepositoryRoutes : KnownRoute(r)
  BY GetRoute, SingleRouted, PairRouted, Zenon
  DEF RepositoryRoutes, dispatch_list_repositories, dispatch_register_repository,
      dispatch_list_repertoire, dispatch_list_events, dispatch_watch_events,
      dispatch_replay_events

LEMMA SettingsRoutesKnown == \A r \in SettingsRoutes : KnownRoute(r)
  BY GetRoute, PairRouted, TripleRouted, Zenon
  DEF SettingsRoutes, dispatch_get_tool_output_defaults, dispatch_update_tool_output_defaults,
      dispatch_list_tool_output_settings_history, dispatch_install_extension,
      dispatch_validate_extension, dispatch_update_extension, dispatch_list_extensions

LEMMA PackageRoutesKnown == \A r \in PackageRoutes : KnownRoute(r)
  BY GetRoute, SingleRouted, TripleRouted, Zenon
  DEF PackageRoutes, dispatch_list_package_trust_index, dispatch_package_authoring_flow,
      dispatch_package_remix, dispatch_package_publication,
      dispatch_package_registry_submission, execute_extension, dispatch_render_tool_output

LEMMA LifecycleRoutesKnown == \A r \in LifecycleRoutes : KnownRoute(r)
  BY GetRoute, TripleRouted, Zenon
  DEF LifecycleRoutes, dispatch_extension_status, dispatch_package_inspect,
      dispatch_rollback_extension, dispatch_disable_extension, dispatch_enable_extension,
      dispatch_remove_extension, dispatch_apply_blocklist

LEMMA ListingRoutesKnown == \A r \in ListingRoutes : KnownRoute(r)
  BY GetRoute, SingleRouted, PairRouted, TripleRouted, Zenon
  DEF ListingRoutes, dispatch_list_blocklist, dispatch_list_extension_registry_audit_records,
      dispatch_project_status

LEMMA RoutesKnown == \A r \in dispatch_route : KnownRoute(r)
  BY JobRoutesKnown, RepositoryRoutesKnown, SettingsRoutesKnown, PackageRoutesKnown,
     LifecycleRoutesKnown, ListingRoutesKnown
  DEF dispatch_route

-----------------------------------------------------------------------------
(* The queue of the lock.                                                  *)

\* A client whose request does not wait is not in the queue.
LEMMA NotQueued ==
  ASSUME TransportInv, NEW c \in Client, client[c].step # "waiting"
  PROVE  Absent(queue, c)
  BY ClientAssumption DEF TransportInv, Queued, Absent

\* The queue is no concern of a client that is not in it.
LEMMA QueueKept ==
  ASSUME NEW q \in Seq(Task), NEW states \in [Client -> ClientState], Queued(q, states),
         NEW c \in Client, NEW s \in ClientState, Absent(q, c)
  PROVE  Queued(q, [states EXCEPT ![c] = s])
<1>1. ASSUME NEW i \in DOMAIN q, q[i] # "main"
      PROVE  [states EXCEPT ![c] = s][q[i]] = states[q[i]]
  <2>1. q[i] \in Client /\ q[i] # c
    BY <1>1 DEF Absent, Task
  <2> QED
    BY <2>1
<1> QED
  BY <1>1 DEF Queued

\* state.read().await: one that waits joins at the end.
LEMMA QueueJoined ==
  ASSUME NEW q \in Seq(Task), NEW states \in [Client -> ClientState], Queued(q, states),
         NEW c \in Client, NEW s \in ClientState, Absent(q, c), s.step = "waiting"
  PROVE  Append(q, c) \in Seq(Task) /\ Queued(Append(q, c), [states EXCEPT ![c] = s])
<1> DEFINE new == [states EXCEPT ![c] = s]
           longer == Append(q, c)
<1>1. Queued(q, new)
  BY QueueKept, Zenon
<1>2. /\ longer \in Seq(Task)
      /\ Len(longer) = Len(q) + 1 /\ Len(q) \in Nat
      /\ DOMAIN longer = 1..(Len(q) + 1) /\ DOMAIN q = 1..Len(q)
      /\ \A i \in DOMAIN q : longer[i] = q[i]
      /\ longer[Len(q) + 1] = c
  BY DEF Task
<1>3. new[c].step = "waiting"
  OBVIOUS
<1> HIDE DEF new, longer
<1>4. ASSUME NEW i \in DOMAIN longer, longer[i] # "main"
      PROVE  /\ new[longer[i]].step = "waiting"
             /\ \A j \in DOMAIN longer : longer[j] = longer[i] => j = i
  <2>1. CASE i \in DOMAIN q
    BY <1>1, <1>2, <1>4, <2>1 DEF Queued, Absent
  <2>2. CASE i = Len(q) + 1
    BY <1>2, <1>3, <2>2 DEF Absent
  <2> QED
    BY <1>2, <2>1, <2>2
<1>5. Queued(longer, new)
  BY <1>4 DEF Queued
<1> QED
  BY <1>2, <1>5 DEF new, longer

\* Dropping a future takes its request out of the queue and leaves the others.
LEMMA WithoutFacts ==
  ASSUME TransportInv, NEW c \in Client
  PROVE  Without(c) \in Seq(Task) /\ Queued(Without(c), client) /\ Absent(Without(c), c)
<1>1. CASE \A i \in DOMAIN queue : queue[i] # c
  BY <1>1 DEF TransportInv, Without, Absent
<1>2. CASE \E i \in DOMAIN queue : queue[i] = c
  <2> DEFINE n == CHOOSE i \in DOMAIN queue : queue[i] = c
             at(i) == IF i < n THEN i ELSE i + 1
             rest == [i \in 1..(Len(queue) - 1) |-> queue[at(i)]]
  <2>1. Without(c) = rest
    BY <1>2 DEF Without
  <2>2. n \in DOMAIN queue /\ queue[n] = c
    BY <1>2
  <2>3. /\ queue \in Seq(Task) /\ Len(queue) \in Nat /\ DOMAIN queue = 1..Len(queue)
        /\ Queued(queue, client)
    BY DEF TransportInv
  <2> HIDE DEF n
  <2>4. \A i \in 1..(Len(queue) - 1) : at(i) \in DOMAIN queue /\ at(i) # n
    BY <2>2, <2>3
  <2>5. \A i, j \in 1..(Len(queue) - 1) : at(i) = at(j) => i = j
    BY <2>2, <2>3
  <2>6. Len(queue) - 1 \in Nat
    BY <2>2, <2>3
  <2> HIDE DEF at
  <2>7. \A i \in 1..(Len(queue) - 1) : rest[i] = queue[at(i)] /\ rest[i] \in Task
    BY <2>3, <2>4
  <2>8. rest \in Seq(Task) /\ DOMAIN rest = 1..(Len(queue) - 1)
    BY <2>3, <2>4, <2>6
  <2> HIDE DEF rest
  <2>9. Queued(rest, client)
    <3>1. ASSUME NEW i \in DOMAIN rest, rest[i] # "main"
          PROVE  /\ client[rest[i]].step = "waiting"
                 /\ \A j \in DOMAIN rest : rest[j] = rest[i] => j = i
      <4>1. i \in 1..(Len(queue) - 1) /\ rest[i] = queue[at(i)] /\ at(i) \in DOMAIN queue
        BY <2>4, <2>7, <2>8
      <4>2. client[rest[i]].step = "waiting"
        BY <2>3, <3>1, <4>1 DEF Queued
      <4>3. ASSUME NEW j \in DOMAIN rest, rest[j] = rest[i] PROVE j = i
        <5>1. j \in 1..(Len(queue) - 1) /\ rest[j] = queue[at(j)] /\ at(j) \in DOMAIN queue
          BY <2>4, <2>7, <2>8
        <5>2. at(j) = at(i)
          BY <2>3, <3>1, <4>1, <4>3, <5>1, Zenon DEF Queued
        <5> QED
          BY <2>5, <4>1, <5>1, <5>2
      <4> QED
        BY <4>2, <4>3
    <3> QED
      BY <3>1 DEF Queued
  <2>10. Absent(rest, c)
    <3>1. c # "main"
      BY ClientAssumption
    <3> QED
      BY <2>2, <2>3, <2>4, <2>7, <2>8, <3>1 DEF Queued, Absent
  <2> QED
    BY <2>1, <2>8, <2>9, <2>10
<1> QED
  BY <1>1, <1>2

-----------------------------------------------------------------------------
(* The steps of a request.                                                 *)

LEMMA SetKeeps ==
  ASSUME TransportInv, NEW c \in Client, NEW s \in ClientState, ClientInv(s), Set(c, s)
  PROVE  /\ client' \in [Client -> ClientState]
         /\ client' = [client EXCEPT ![c] = s]
         /\ \A d \in Client : ClientInv(client'[d])
  BY DEF Set, TransportInv

\* A response sets the step and the answer.
Responded(s, a) == [s EXCEPT !.step = "answered", !.answer = a]

LEMMA RespondFields ==
  ASSUME NEW s \in ClientState, NEW a \in Answers
  PROVE  /\ Responded(s, a) \in ClientState
         /\ Responded(s, a).step = "answered" /\ Responded(s, a).answer = a
         /\ Responded(s, a).request = s.request /\ Responded(s, a).then = s.then
         /\ Responded(s, a).calls = s.calls
<1>1. Responded(s, a).step = "answered" /\ Responded(s, a).answer = a
  BY DEF ClientState, Responded
<1>2. /\ Responded(s, a).request = s.request /\ Responded(s, a).then = s.then
      /\ Responded(s, a).calls = s.calls
  BY DEF ClientState, Responded
<1>3. Responded(s, a) \in ClientState
  BY Zenon DEF ClientState, Responded
<1> QED
  BY <1>1, <1>2, <1>3

\* A request that asks for the lock, with its answer or to make its call.
LEMMA ReadKeeps ==
  ASSUME TransportInv, NEW c \in Client, client[c].step # "waiting",
         NEW now \in ClientState, now.step = "body", now.calls = 0, now.answer = NoAnswer,
         NEW then \in Answers,
         then = NoAnswer => Admitted(now.request) /\ Accepted(now.request),
         then # NoAnswer => then.code \in Refusals /\ then.status # 200,
         then.code = "unsupported_endpoint" => route_for_path(now.request.path) = {},
         read(c, now, then)
  PROVE  TransportInv'
<1> DEFINE s == [now EXCEPT !.step = "waiting", !.then = then]
<1>1. /\ s \in ClientState /\ s.step = "waiting" /\ s.then = then
      /\ s.request = now.request /\ s.calls = 0 /\ s.answer = NoAnswer
  BY ZenonT(40) DEF ClientState
<1>2. Set(c, s) /\ queue' = Append(queue, c)
  BY Zenon DEF read
<1> HIDE DEF s
<1>3. NoAnswer.code = "None" /\ NoAnswer.status = 0
  BY DEF NoAnswer, Answer
<1>4. ClientInv(s)
  BY <1>1, <1>3 DEF ClientInv, Unanswered, Promised, Tells, Deserves, Routed, Refusals
<1>5. client' = [client EXCEPT ![c] = s] /\ client' \in [Client -> ClientState]
      /\ \A d \in Client : ClientInv(client'[d])
  BY <1>1, <1>2, <1>4, SetKeeps
<1>6. queue' \in Seq(Task) /\ Queued(queue', client')
  BY <1>1, <1>2, <1>5, NotQueued, QueueJoined, ZenonT(40) DEF TransportInv
<1> QED
  BY <1>5, <1>6 DEF TransportInv

\* A step that does not touch the queue.
LEMMA AsideKeeps ==
  ASSUME TransportInv, NEW c \in Client, client[c].step # "waiting",
         NEW s \in ClientState, ClientInv(s), Set(c, s), queue' = queue
  PROVE  TransportInv'
<1>1. client' = [client EXCEPT ![c] = s] /\ client' \in [Client -> ClientState]
      /\ \A d \in Client : ClientInv(client'[d])
  BY SetKeeps
<1>2. Queued(queue', client')
  BY <1>1, NotQueued, QueueKept, Zenon DEF TransportInv
<1> QED
  BY <1>1, <1>2 DEF TransportInv

LEMMA NoAnswerFacts == NoAnswer \in Answers /\ NoAnswer.code = "None" /\ NoAnswer.status = 0
  BY DEF NoAnswer, Answer, Answers, Codes

\* An answer that refuses a request before its call.
LEMMA RefusalFacts ==
  ASSUME NEW n \in Nat, n # 200, NEW m \in Refusals
  PROVE  /\ Answer(n, m) \in Answers /\ Answer(n, m) # NoAnswer
         /\ Answer(n, m).status = n /\ Answer(n, m).code = m
<1>1. m \in Codes /\ m # "None"
  BY DEF Refusals, Codes
<1>2. /\ Answer(n, m) \in Answers
      /\ Answer(n, m).status = n /\ Answer(n, m).code = m
  BY <1>1 DEF Answer, Answers
<1> QED
  BY <1>1, <1>2, NoAnswerFacts

\* The answer to a call that was made is no refusal.
LEMMA RpcAnswerFacts ==
  ASSUME NEW rpc, NEW error \in RpcErrorCode \cup {"None"}
  PROVE  RpcAnswer(rpc, error) \in Answers /\ RpcAnswer(rpc, error).code \notin Refusals
<1>1. error # "None" => rpc_error_status(error) \in Nat
  BY DEF rpc_error_status, RpcErrorCode
<1>2. \A n \in Nat, m \in {"ok", "rpc_error", "cursor_expired"} :
        Answer(n, m) \in Answers /\ Answer(n, m).code = m
  BY DEF Answer, Answers, Codes
<1> QED
  BY <1>1, <1>2 DEF RpcAnswer, Refusals

LEMMA ReadRefuses ==
  ASSUME TransportInv, NEW c \in Client, client[c].step # "waiting",
         NEW now \in ClientState, now.step = "body", now.calls = 0, now.answer = NoAnswer,
         NEW n \in Nat, n # 200, NEW m \in Refusals,
         m = "unsupported_endpoint" => route_for_path(now.request.path) = {},
         read(c, now, Answer(n, m))
  PROVE  TransportInv'
<1>1. PICK then \in Answers : then = Answer(n, m)
  BY RefusalFacts
<1>2. then # NoAnswer /\ then.status # 200 /\ then.code = m
  BY <1>1, RefusalFacts
<1>3. read(c, now, then)
  BY <1>1
<1> QED
  BY <1>2, <1>3, ReadKeeps

\* A request that arrives is refused, asks for the lock, or waits for its body.
LEMMA ArriveInv ==
  ASSUME TransportInv, NEW c \in Client, Arrive(c)
  PROVE  TransportInv'
<1>1. client[c].step # "waiting"
  BY DEF Arrive
<1>2. PICK q \in Requests :
        LET now == [Idle EXCEPT !.step = "body", !.request = q]
            route == IF build_router(q.path) THEN route_for_path(q.path) ELSE {}
        IN IF ~q.token
             THEN /\ Set(c, [now EXCEPT !.step = "answered",
                                        !.answer = Answer(401, "unauthorized")])
                  /\ UNCHANGED queue
           ELSE IF route = {} THEN read(c, now, Answer(404, "unsupported_endpoint"))
           ELSE IF \E r \in route : r.method # q.method
             THEN read(c, now, Answer(405, "method_not_allowed"))
           ELSE IF \E r \in route : r.handler.body
             THEN Set(c, now) /\ UNCHANGED queue
           ELSE read(c, now, NoAnswer)
  BY Zenon DEF Arrive
<1> DEFINE now == [Idle EXCEPT !.step = "body", !.request = q]
           route == IF build_router(q.path) THEN route_for_path(q.path) ELSE {}
           refused == [now EXCEPT !.step = "answered", !.answer = Answer(401, "unauthorized")]
<1>3. /\ now \in ClientState /\ now.step = "body" /\ now.request = q /\ now.calls = 0
      /\ now.answer = NoAnswer /\ now.then = NoAnswer
  BY NoAnswerFacts, Zenon DEF Idle, ClientState
<1> HIDE DEF now, refused
<1>4. /\ refused \in ClientState /\ refused.step = "answered" /\ refused.request = q
      /\ refused.calls = 0 /\ refused.then = NoAnswer
      /\ refused.answer.code = "unauthorized" /\ refused.answer.status = 401
  <2>1. PICK a \in Answers : a = Answer(401, "unauthorized")
    BY RefusalFacts DEF Refusals
  <2>2. a.code = "unauthorized" /\ a.status = 401
    BY <2>1, RefusalFacts DEF Refusals
  <2>3. refused = Responded(now, a)
    BY <2>1 DEF refused, Responded
  <2> QED
    BY <1>3, <2>2, <2>3, RespondFields
<1>5. route = route_for_path(q.path)
  BY RoutesKnown DEF KnownRoute, route_for_path
<1>6. ASSUME route # {}, ~(\E r \in route : r.method # q.method), q.token
      PROVE  Admitted(q) /\ RouteOf(q) \in route
  <2>1. \E x \in dispatch_route : x.path = q.path
    BY <1>5, <1>6 DEF route_for_path
  <2>2. RouteOf(q) \in dispatch_route /\ RouteOf(q).path = q.path
    BY <2>1 DEF RouteOf
  <2> QED
    BY <1>5, <1>6, <2>2 DEF route_for_path, Admitted
<1>7. CASE ~q.token
  <2>1. ClientInv(refused)
    BY <1>4, NoAnswerFacts DEF ClientInv, Unanswered, Promised, Tells, Deserves, Routed
  <2>2. Set(c, refused) /\ queue' = queue
    BY <1>2, <1>7, Zenon DEF now, refused
  <2> QED
    BY <1>1, <1>4, <2>1, <2>2, AsideKeeps
<1>8. CASE q.token /\ route = {}
  <2>1. read(c, now, Answer(404, "unsupported_endpoint"))
    BY <1>2, <1>8, Zenon DEF now
  <2> QED
    BY <1>1, <1>3, <1>5, <1>8, <2>1, ReadRefuses DEF Refusals
<1>9. CASE q.token /\ route # {} /\ \E r \in route : r.method # q.method
  <2>1. read(c, now, Answer(405, "method_not_allowed"))
    BY <1>2, <1>9, Zenon DEF now
  <2> QED
    BY <1>1, <1>3, <2>1, ReadRefuses DEF Refusals
<1>10. CASE /\ q.token /\ route # {} /\ ~(\E r \in route : r.method # q.method)
            /\ \E r \in route : r.handler.body
  <2>1. Set(c, now) /\ queue' = queue
    BY <1>2, <1>10, Zenon DEF now
  <2>2. ClientInv(now)
    BY <1>3, <1>6, <1>10, NoAnswerFacts
    DEF ClientInv, Unanswered, Promised, Tells, Deserves, Routed, Refusals
  <2> QED
    BY <1>1, <1>3, <2>1, <2>2, AsideKeeps
<1>11. CASE /\ q.token /\ route # {} /\ ~(\E r \in route : r.method # q.method)
            /\ ~(\E r \in route : r.handler.body)
  <2>1. read(c, now, NoAnswer)
    BY <1>2, <1>11, Zenon DEF now
  <2>2. Admitted(q) /\ Accepted(q)
    BY <1>6, <1>11 DEF Accepted
  <2> QED
    BY <1>1, <1>3, <2>1, <2>2, ReadKeeps, NoAnswerFacts
<1> QED
  BY <1>7, <1>8, <1>9, <1>10, <1>11

\* The body is in: the request asks for the lock, refused or accepted.
LEMMA BodyInv ==
  ASSUME TransportInv, NEW c \in Client, body_or_empty_json(c)
  PROVE  TransportInv'
<1>1. PICK now \in ClientState : now = client[c]
  BY DEF TransportInv
<1>2. ClientInv(now) /\ now.step = "body" /\ now.request.body # "never"
  BY <1>1 DEF TransportInv, body_or_empty_json, Is
<1>3. now.calls = 0 /\ now.answer = NoAnswer /\ Admitted(now.request)
  BY <1>2 DEF ClientInv, Unanswered, Promised
<1>4. client[c].step # "waiting"
  BY <1>1, <1>2
<1>5. now.request.body \in Bodies
  BY <1>3, RequestAssumption DEF Admitted
<1>6. Handled(c) = RouteOf(now.request).handler
  BY <1>1 DEF Handled, RouteOf
<1> DEFINE body == now.request.body
<1>7. CASE body = "too_large"
  <2>1. read(c, now, Answer(413, "request_too_large"))
    BY <1>1, <1>7 DEF body_or_empty_json
  <2> QED
    BY <1>2, <1>3, <1>4, <2>1, ReadRefuses DEF Refusals
<1>8. CASE body = "invalid_json"
  <2>1. read(c, now, Answer(400, "invalid_json"))
    BY <1>1, <1>8 DEF body_or_empty_json
  <2> QED
    BY <1>2, <1>3, <1>4, <2>1, ReadRefuses DEF Refusals
<1>9. CASE body = "refused" /\ Handled(c).refuses = "early"
  <2>1. read(c, now, Answer(400, "invalid_argument"))
    BY <1>1, <1>9 DEF body_or_empty_json
  <2> QED
    BY <1>2, <1>3, <1>4, <2>1, ReadRefuses DEF Refusals
<1>10. CASE /\ body # "too_large" /\ body # "invalid_json"
            /\ ~(body = "refused" /\ Handled(c).refuses = "early")
  <2>1. read(c, now, NoAnswer)
    BY <1>1, <1>10 DEF body_or_empty_json
  <2>2. Accepted(now.request)
    BY <1>2, <1>5, <1>6, <1>10 DEF Accepted, Bodies
  <2> QED
    BY <1>2, <1>3, <1>4, <2>1, <2>2, ReadKeeps, NoAnswerFacts
<1> QED
  BY <1>7, <1>8, <1>9, <1>10

\* The timeout drops what the request did and asks for the lock with its own answer.
LEMMA TimeoutInv ==
  ASSUME TransportInv, NEW c \in Client, with_request_timeout(c)
  PROVE  TransportInv'
<1>1. PICK s \in ClientState : s = client[c]
  BY DEF TransportInv
<1>2. ClientInv(s) /\ s.step \in {"body", "waiting"}
  BY <1>1 DEF TransportInv, with_request_timeout
<1>3. s.calls = 0 /\ s.answer = NoAnswer
  BY <1>2 DEF ClientInv, Unanswered
<1>4. PICK a \in Answers : /\ a = Answer(504, "request_timeout")
                          /\ a # NoAnswer /\ a.code = "request_timeout" /\ a.status = 504
  BY RefusalFacts DEF Refusals
<1> DEFINE t == [s EXCEPT !.step = "waiting", !.timed = TRUE, !.then = a]
<1>5. Set(c, t) /\ queue' = Append(Without(c), c)
  BY <1>1, <1>4, Zenon DEF with_request_timeout
<1>6. /\ t.step = "waiting" /\ t.then = a /\ t.calls = s.calls /\ t.answer = s.answer
  BY DEF ClientState
<1>7. t \in ClientState
  BY Zenon DEF ClientState
<1> HIDE DEF t
<1>8. ClientInv(t)
  BY <1>3, <1>4, <1>6, NoAnswerFacts
  DEF ClientInv, Unanswered, Promised, Tells, Deserves, Routed, Refusals
<1>9. /\ client' = [client EXCEPT ![c] = t] /\ client' \in [Client -> ClientState]
      /\ \A d \in Client : ClientInv(client'[d])
  BY <1>5, <1>7, <1>8, SetKeeps
<1>10. queue' \in Seq(Task) /\ Queued(queue', client')
  BY <1>5, <1>6, <1>7, <1>9, WithoutFacts, QueueJoined, Zenon DEF TransportInv
<1> QED
  BY <1>9, <1>10 DEF TransportInv

LEMMA IdleFacts ==
  Idle \in ClientState /\ ClientInv(Idle)
<1>1. /\ Idle.step = "idle" /\ Idle.calls = 0 /\ Idle.answer = NoAnswer
      /\ Idle.then = NoAnswer /\ Idle.request = <<>> /\ Idle.timed = FALSE
  BY DEF Idle
<1>2. Idle \in ClientState
  BY NoAnswerFacts DEF Idle, ClientState
<1>3. ClientInv(Idle)
  BY <1>1, NoAnswerFacts DEF ClientInv, Unanswered, Promised, Tells, Deserves, Routed, Refusals
<1> QED
  BY <1>2, <1>3

\* A client that goes away takes its request out of the queue.
LEMMA DisconnectInv ==
  ASSUME TransportInv, NEW c \in Client, Disconnect(c)
  PROVE  TransportInv'
<1>1. Set(c, Idle) /\ queue' = Without(c)
  BY DEF Disconnect
<1>2. /\ client' = [client EXCEPT ![c] = Idle] /\ client' \in [Client -> ClientState]
      /\ \A d \in Client : ClientInv(client'[d])
  BY <1>1, IdleFacts, SetKeeps
<1>3. queue' \in Seq(Task) /\ Queued(queue', client')
  BY <1>1, <1>2, IdleFacts, WithoutFacts, QueueKept, Zenon DEF TransportInv
<1> QED
  BY <1>2, <1>3 DEF TransportInv

\* The work under the lock answers as was decided, refuses, or makes the one call.
LEMMA RespondInv ==
  ASSUME TransportInv, NEW c \in Client, Respond(c)
  PROVE  TransportInv'
<1>1. PICK s \in ClientState : s = client[c]
  BY DEF TransportInv
<1>2. ClientInv(s) /\ s.step = "granted" /\ queue' = queue
  BY <1>1, Zenon DEF TransportInv, Respond, Is
<1>3. s.calls = 0 /\ s.answer = NoAnswer
  BY <1>2 DEF ClientInv, Unanswered
<1>4. client[c].step # "waiting"
  BY <1>1, <1>2
<1>5. Handled(c) = RouteOf(s.request).handler
  BY <1>1 DEF Handled, RouteOf
<1>6. ASSUME NEW a \in Answers, a.code # "cursor_expired", a.status # 200,
             a.code = "unsupported_endpoint" => route_for_path(s.request.path) = {},
             respond(c, a)
      PROVE  TransportInv'
  <2>1. PICK t : t = Responded(s, a)
    OBVIOUS
  <2>2. Set(c, t)
    BY <1>1, <1>6, <2>1 DEF respond, Responded
  <2>3. /\ t \in ClientState /\ t.step = "answered" /\ t.answer = a
        /\ t.request = s.request /\ t.then = s.then /\ t.calls = s.calls
    BY SMTT(30), <2>1, RespondFields
  <2>4. ClientInv(t)
    BY SMTT(30), <1>2, <1>3, <1>6, <2>3
    DEF ClientInv, Unanswered, Promised, Tells, Deserves, Routed
  <2> QED
    BY <1>2, <1>4, <2>2, <2>3, <2>4, AsideKeeps
<1>7. CASE s.then # NoAnswer
  <2>1. respond(c, s.then)
    BY <1>1, <1>7 DEF Respond
  <2>2. s.then \in Answers
    BY DEF ClientState
  <2> QED
    BY <1>2, <1>6, <1>7, <2>1, <2>2 DEF ClientInv, Promised, Refusals
<1>8. CASE s.then = NoAnswer
  <2>1. Admitted(s.request) /\ Accepted(s.request)
    BY <1>2, <1>8 DEF ClientInv, Promised
  <2> DEFINE h == RouteOf(s.request).handler
  <2>2. IF s.request.body = "refused" /\ h.refuses = "requester"
          THEN respond(c, Answer(rpc_error_status("InvalidArgument"), "rpc_error"))
        ELSE IF s.request.body = "refused" /\ h.refuses = "scope"
          THEN respond(c, Answer(500, "transport_error"))
        ELSE \E error \in RpcErrors :
               Set(c, [s EXCEPT
                         !.step = IF h.rpc = "watch_events_live" /\ error = "None"
                                    THEN "streaming" ELSE "answered",
                         !.calls = @ + 1,
                         !.answer = RpcAnswer(h.rpc, error)])
    BY <1>1, <1>5, <1>8, ZenonT(40) DEF Respond
  <2>3. CASE s.request.body = "refused" /\ h.refuses = "requester"
    <3>1. respond(c, Answer(rpc_error_status("InvalidArgument"), "rpc_error"))
      BY <2>2, <2>3
    <3>2. rpc_error_status("InvalidArgument") = 400
      BY DEF rpc_error_status
    <3>3. Answer(400, "rpc_error") \in Answers
      BY DEF Answer, Answers, Codes
    <3>4. Answer(400, "rpc_error").code = "rpc_error" /\ Answer(400, "rpc_error").status = 400
      BY DEF Answer
    <3> QED
      BY <1>6, <3>1, <3>2, <3>3, <3>4
  <2>4. CASE s.request.body = "refused" /\ h.refuses = "scope"
    <3>1. respond(c, Answer(500, "transport_error"))
      BY <2>2, <2>4
    <3>2. PICK a \in Answers : /\ a = Answer(500, "transport_error")
                              /\ a.code = "transport_error" /\ a.status = 500
      BY RefusalFacts DEF Refusals
    <3>3. respond(c, a)
      BY <3>1, <3>2
    <3> QED
      BY <1>6, <3>2, <3>3
  <2>5. CASE ~(s.request.body = "refused" /\ h.refuses \in {"requester", "scope"})
    <3>1. PICK error \in RpcErrors :
            Set(c, [s EXCEPT
                      !.step = IF h.rpc = "watch_events_live" /\ error = "None"
                                 THEN "streaming" ELSE "answered",
                      !.calls = @ + 1,
                      !.answer = RpcAnswer(h.rpc, error)])
      BY <2>2, <2>5, Zenon
    <3>2. PICK a \in Answers : a = RpcAnswer(h.rpc, error) /\ a.code \notin Refusals
      BY RpcAnswerFacts, ErrorAssumption
    <3>3. PICK step \in {"streaming", "answered"} :
            step = IF h.rpc = "watch_events_live" /\ error = "None"
                     THEN "streaming" ELSE "answered"
      OBVIOUS
    <3> DEFINE t == [s EXCEPT !.step = step, !.calls = @ + 1, !.answer = a]
    <3>4. Set(c, t)
      BY <3>1, <3>2, <3>3
    <3>5. /\ t.step = step /\ t.calls = 1 /\ t.answer = a
          /\ t.request = s.request /\ t.then = s.then
      BY <1>3 DEF ClientState
    <3>6. t \in ClientState
      <4>1. s.calls + 1 \in Nat
        BY <1>3
      <4> QED
        BY <4>1, Zenon DEF ClientState
    <3> HIDE DEF t
    <3>7. h.refuses \in {"early", "requester", "scope", "never"}
      BY <2>1, RoutesKnown DEF Admitted, KnownRoute
    <3>8. Deserves(t)
      <4>1. RouteOf(s.request) \in dispatch_route
        BY <2>1 DEF Admitted
      <4> QED
        BY <2>1, <2>5, <3>5, <3>7, <4>1 DEF Admitted, Accepted, Deserves
    <3>9. ClientInv(t)
      BY <1>2, <3>2, <3>3, <3>5, <3>8, Zenon
      DEF ClientInv, Unanswered, Promised, Tells, Routed, Refusals
    <3> QED
      BY <1>2, <1>4, <3>4, <3>6, <3>9, AsideKeeps
  <2> QED
    BY <2>3, <2>4, <2>5
<1> QED
  BY <1>7, <1>8

-----------------------------------------------------------------------------
(* The lock and the shutdown.                                              *)

\* The lock goes to the first in the queue: to main, or to a client that waits.
LEMMA GrantInv ==
  ASSUME TransportInv, Grant
  PROVE  TransportInv'
<1>1. /\ queue \in Seq(Task) /\ queue # <<>> /\ queue' = Tail(queue)
      /\ Queued(queue, client) /\ client \in [Client -> ClientState]
      /\ \A d \in Client : ClientInv(client[d])
  BY DEF Grant, TransportInv
<1>2. /\ Len(queue) \in Nat /\ Len(queue) > 0 /\ DOMAIN queue = 1..Len(queue)
      /\ Head(queue) = queue[1] /\ Head(queue) \in Task
      /\ queue' \in Seq(Task) /\ DOMAIN queue' = 1..(Len(queue) - 1)
      /\ \A i \in DOMAIN queue' : queue'[i] = queue[i + 1] /\ i + 1 \in DOMAIN queue
  BY <1>1 DEF Task
<1>3. Queued(queue', client)
  BY <1>1, <1>2 DEF Queued
<1>4. CASE Head(queue) = "main"
  <2>1. client' = client
    BY <1>4 DEF Grant
  <2> QED
    BY <1>1, <1>2, <1>3, <2>1 DEF TransportInv
<1>5. CASE Head(queue) # "main"
  <2>1. PICK c \in Client : c = Head(queue)
    BY <1>2, <1>5 DEF Task
  <2>2. PICK s \in ClientState : s = client[c]
    BY <1>1
  <2>3. s.step = "waiting" /\ ClientInv(s)
    BY <1>1, <1>2, <1>5, <2>1, <2>2 DEF Queued
  <2>4. PICK t : t = [s EXCEPT !.step = "granted"]
    BY Zenon
  <2>5. Set(c, t)
    BY <1>5, <2>1, <2>2, <2>4, Zenon DEF Grant
  <2>6. /\ t \in ClientState /\ t.step = "granted" /\ t.request = s.request
        /\ t.then = s.then /\ t.calls = s.calls /\ t.answer = s.answer
    BY <2>4 DEF ClientState
  <2>7. ClientInv(t)
    BY <2>3, <2>6 DEF ClientInv, Unanswered, Promised, Tells, Deserves, Routed
  <2>8. /\ client' = [client EXCEPT ![c] = t] /\ client' \in [Client -> ClientState]
        /\ \A d \in Client : ClientInv(client'[d])
    BY <2>5, <2>6, <2>7, SetKeeps
  <2>9. Absent(queue', c)
    BY <1>1, <1>2, <1>5, <2>1 DEF Queued, Absent
  <2>10. Queued(queue', client')
    BY <1>1, <1>2, <1>3, <2>6, <2>8, <2>9, QueueKept, Zenon
  <2> QED
    BY <1>2, <2>8, <2>10 DEF TransportInv
<1> QED
  BY <1>4, <1>5

\* main joins the queue for the write lock.
LEMMA SignalInv ==
  ASSUME TransportInv, ShutdownSignal
  PROVE  TransportInv'
<1>1. /\ queue \in Seq(Task) /\ queue' = Append(queue, "main") /\ client' = client
      /\ Queued(queue, client)
  BY DEF ShutdownSignal, TransportInv
<1>2. /\ Len(queue) \in Nat /\ DOMAIN queue = 1..Len(queue)
      /\ queue' \in Seq(Task) /\ DOMAIN queue' = 1..(Len(queue) + 1)
      /\ \A i \in DOMAIN queue : queue'[i] = queue[i]
      /\ queue'[Len(queue) + 1] = "main"
  BY <1>1 DEF Task
<1>3. Queued(queue', client')
  BY <1>1, <1>2 DEF Queued
<1> QED
  BY <1>1, <1>2, <1>3 DEF TransportInv

LEMMA InitTransport == Init => TransportInv
<1> SUFFICES ASSUME Init PROVE TransportInv
  OBVIOUS
<1>1. client \in [Client -> ClientState] /\ \A c \in Client : ClientInv(client[c])
  BY IdleFacts DEF Init
<1>2. queue \in Seq(Task) /\ Queued(queue, client)
  BY DEF Init, Queued
<1> QED
  BY <1>1, <1>2 DEF TransportInv

LEMMA NextTransport == TransportInv /\ [Next]_vars => TransportInv'
<1> SUFFICES ASSUME TransportInv, [Next]_vars PROVE TransportInv'
  OBVIOUS
<1>1. CASE client' = client /\ queue' = queue
  BY <1>1 DEF TransportInv
<1>2. CASE \E c \in Client : \/ Arrive(c) \/ body_or_empty_json(c) \/ Respond(c)
                             \/ with_request_timeout(c) \/ Disconnect(c)
  BY <1>2, ArriveInv, BodyInv, RespondInv, TimeoutInv, DisconnectInv
<1>3. run_until_shutdown \/ run_listener \/ UNCHANGED vars => client' = client /\ queue' = queue
  BY DEF run_until_shutdown, run_listener, vars
<1> QED
  BY <1>1, <1>2, <1>3, GrantInv, SignalInv DEF Next

\* Whatever requests arrive, time out and disconnect while the daemon serves and shuts
\* down, the queue of the lock and the answers decided before it stay true to them.
THEOREM TransportInvariance ==
  Spec => []TransportInv
<1>1. Init => TransportInv
  BY InitTransport
<1>2. TransportInv /\ [Next]_vars => TransportInv'
  BY NextTransport
<1> QED
  BY <1>1, <1>2, PTL DEF Spec

\* For any clients, requests and errors: a call is made for the requests that deserve it,
\* by their token, route, body and payload, once, and the answer tells whether it was made.
THEOREM CallsMatchAnswersHold ==
  Spec => []CallsMatchAnswers
<1>1. TransportInv => CallsMatchAnswers
  <2> SUFFICES ASSUME TransportInv PROVE CallsMatchAnswers
    OBVIOUS
  <2>1. AnswersTellTheCall
    BY SMTT(30) DEF TransportInv, ClientInv, Tells, AnswersTellTheCall, Refusals
  <2>2. CallsAreDeserved
    BY DEF TransportInv, ClientInv, Deserves, CallsAreDeserved
  <2>3. KnownPathsAreRouted
    BY Zenon DEF TransportInv, ClientInv, Routed, KnownPathsAreRouted
  <2> QED
    BY <2>1, <2>2, <2>3 DEF CallsMatchAnswers
<1> QED
  BY <1>1, TransportInvariance, PTL

-----------------------------------------------------------------------------
(* The session token.  A daemon is settled once it has created the file or *)
(* read a whole token from it.  A settled daemon of the current file (its  *)
(* epoch is the current one) has that file's token, from the creation on   *)
(* and not only when the token is written; and settled daemons of one      *)
(* epoch have one token, which is what is left to know when the file is    *)
(* deleted.                                                                *)

Steps == {"down", "failed", "auth", "metadata", "create", "write", "read", "listen", "bind", "up"}

DaemonState ==
  [step : Steps, config : SUBSET Configs, fresh : Nat, token : Nat, attempts : Nat, epoch : Nat]

StartTypeOK ==
  /\ file \in [token : Nat, written : 0 .. Start!Complete]
  /\ daemon \in [Daemon -> DaemonState]
  /\ starts \in Nat /\ faults \in Nat /\ epoch \in Nat

Settled(d) ==
  \/ Start!Is(d, "write")
  \/ daemon[d].step \in {"listen", "bind", "up"} /\ Start!Config(d).auth = "session"

\* A start has a token of its own to write, and no daemon is ahead of the deletions.
StartsAreNumbered ==
  \A d \in Daemon :
    /\ ~Start!Is(d, "down") => daemon[d].fresh > 0
    /\ Start!Is(d, "create") => daemon[d].token > 0
    /\ daemon[d].epoch <= epoch

\* The current file is that of every settled daemon of this epoch.
FileIsTheirs ==
  \A d \in Daemon :
    Settled(d) /\ daemon[d].epoch = epoch =>
      /\ file # Start!NoFile
      /\ file.token = daemon[d].token
      /\ ~Start!Is(d, "write") => file.written = Start!Complete

SettledAgree ==
  \A d, e \in Daemon :
    Settled(d) /\ Settled(e) /\ daemon[d].epoch = daemon[e].epoch =>
      daemon[d].token = daemon[e].token

StartInv == StartTypeOK /\ StartsAreNumbered /\ FileIsTheirs /\ SettledAgree

-----------------------------------------------------------------------------
\* At the start there is no file and no daemon.
LEMMA InitStart == Start!Init => StartInv
<1> SUFFICES ASSUME Start!Init PROVE StartInv
  OBVIOUS
<1>1. \A d \in Daemon : daemon[d] = Start!Down
  BY DEF Start!Init
<1>2. Start!Down \in DaemonState /\ Start!Down.step = "down" /\ Start!Down.epoch = 0
  BY Zenon DEF Start!Down, DaemonState, Steps
<1>3. StartTypeOK
  BY <1>2 DEF Start!Init, StartTypeOK, Start!NoFile, Start!Complete
<1>4. \A d \in Daemon : ~Settled(d) /\ ~Start!Is(d, "write")
  BY <1>1, <1>2 DEF Settled, Start!Is
<1>5. StartsAreNumbered
  BY <1>1, <1>2, <1>4 DEF Start!Init, StartsAreNumbered, Start!Is, Start!Down
<1>6. FileIsTheirs
  BY <1>4 DEF Start!Init, FileIsTheirs, Start!NoFile
<1>7. SettledAgree
  BY <1>4 DEF SettledAgree
<1> QED
  BY <1>3, <1>5, <1>6, <1>7 DEF StartInv

\* A step that changes one daemon and leaves file and epoch alone keeps the invariant, if
\* that daemon was settled before, and has its token and epoch still, or is not settled.
LEMMA DaemonStep ==
  ASSUME StartInv, NEW d \in Daemon, NEW new \in DaemonState, Start!Set(d, new),
         UNCHANGED <<file, epoch>>, starts' \in Nat, faults' \in Nat,
         new.step # "down" => new.fresh > 0,
         new.step = "create" => new.token > 0,
         new.epoch <= epoch,
         new.step # "write",
         \/ ~Settled(d)'
         \/ /\ Settled(d) /\ ~Start!Is(d, "write")
            /\ new.token = daemon[d].token /\ new.epoch = daemon[d].epoch
  PROVE  StartInv'
<1> USE DEF StartInv
<1>1. daemon' = [daemon EXCEPT ![d] = new] /\ daemon \in [Daemon -> DaemonState]
  BY DEF Start!Set, StartTypeOK
<1>2. StartTypeOK'
  BY <1>1 DEF StartTypeOK
<1>3. \A e \in Daemon \ {d} : daemon'[e] = daemon[e]
  BY <1>1
<1>4. daemon'[d] = new
  BY <1>1
<1>5. \A e \in Daemon \ {d} : Settled(e)' = Settled(e) /\ Start!Is(e, "write")' = Start!Is(e, "write")
  BY <1>3, Zenon DEF Settled, Start!Is, Start!Config
<1>6. StartsAreNumbered'
  BY <1>3, <1>4 DEF StartsAreNumbered, Start!Is
<1>7. Settled(d)' => /\ Settled(d) /\ ~Start!Is(d, "write") /\ ~Start!Is(d, "write")'
                     /\ new.token = daemon[d].token /\ new.epoch = daemon[d].epoch
  BY SMTT(30), <1>4 DEF Start!Is
<1>8. FileIsTheirs'
  <2> SUFFICES ASSUME NEW e \in Daemon, Settled(e)', daemon'[e].epoch = epoch
               PROVE  /\ file # Start!NoFile /\ file.token = daemon'[e].token
                      /\ ~Start!Is(e, "write")' => file.written = Start!Complete
    BY SMTT(30) DEF FileIsTheirs
  <2>1. CASE e = d
    BY SMTT(30), <2>1, <1>4, <1>7 DEF FileIsTheirs
  <2>2. CASE e # d
    BY SMTT(30), <2>2, <1>3, <1>5 DEF FileIsTheirs
  <2> QED BY SMTT(30), <2>1, <2>2
<1>9. SettledAgree'
  <2>1. \A e \in Daemon : Settled(e)' => /\ Settled(e) /\ daemon'[e].token = daemon[e].token
                                         /\ daemon'[e].epoch = daemon[e].epoch
    BY <1>3, <1>4, <1>5, <1>7, Zenon
  <2> QED BY <2>1 DEF SettledAgree
<1> QED BY <1>2, <1>6, <1>8, <1>9, Zenon

-----------------------------------------------------------------------------
\* The daemon that creates the file is the first that is settled in its epoch.
LEMMA CreateInv ==
  ASSUME StartInv, NEW d \in Daemon, Start!open_session_token_file(d)
  PROVE  StartInv'
<1> USE DEF StartInv
<1>1. daemon \in [Daemon -> DaemonState] /\ daemon[d] \in DaemonState /\ Start!Is(d, "create")
  BY DEF StartTypeOK, Start!open_session_token_file
<1>2. CASE file # Start!NoFile
  <2> DEFINE new == [daemon[d] EXCEPT !.step = "read"]
  <2>1. Start!Set(d, new) /\ new \in DaemonState /\ UNCHANGED <<file, epoch, starts, faults>>
    BY <1>1, <1>2 DEF Start!open_session_token_file, Start!Goto, DaemonState, Steps
  <2>2. new.fresh > 0 /\ new.epoch <= epoch /\ new.step = "read"
    BY <1>1 DEF StartsAreNumbered, Start!Is, DaemonState
  <2>3. ~Settled(d)'
    BY <2>1, <1>1 DEF Start!Set, Settled, Start!Is, DaemonState
  <2> HIDE DEF new
  <2> QED BY <2>1, <2>2, <2>3, DaemonStep DEF StartTypeOK
<1>3. CASE file = Start!NoFile
  <2> DEFINE new == [daemon[d] EXCEPT !.step = "write", !.epoch = epoch]
  <2>1. /\ file' = [token |-> daemon[d].token, written |-> 0]
        /\ daemon' = [daemon EXCEPT ![d] = new] /\ UNCHANGED <<epoch, starts, faults>>
    BY <1>3 DEF Start!open_session_token_file, Start!Set
  <2>2. /\ new \in DaemonState /\ new.token = daemon[d].token /\ new.epoch = epoch
        /\ new.step = "write" /\ new.fresh = daemon[d].fresh
    BY <1>1, Zenon DEF DaemonState, Steps, StartTypeOK
  <2>3. daemon[d].token \in Nat /\ daemon[d].token > 0 /\ daemon[d].fresh > 0
    BY <1>1 DEF StartsAreNumbered, Start!Is, DaemonState
  <2> HIDE DEF new
  <2>4. daemon'[d] = new /\ \A e \in Daemon \ {d} : daemon'[e] = daemon[e]
    BY <2>1, <1>1
  <2>5. \A e \in Daemon \ {d} : Settled(e)' = Settled(e)
    BY <2>4, Zenon DEF Settled, Start!Is, Start!Config
  <2>6. \A e \in Daemon \ {d} : Settled(e) => daemon[e].epoch # epoch
    BY <1>3 DEF FileIsTheirs
  <2>7. StartTypeOK'
    BY SMTT(30), <2>1, <2>2, <2>3, <1>1 DEF StartTypeOK, Start!Complete
  <2>8. StartsAreNumbered'
    BY SMTT(30), <2>1, <2>2, <2>3, <2>4 DEF StartsAreNumbered, Start!Is, StartTypeOK
  <2>9. FileIsTheirs'
    BY <2>1, <2>2, <2>3, <2>4, <2>5, <2>6, SMTT(30) DEF FileIsTheirs, Start!NoFile, Start!Is
  <2>10. SettledAgree'
    BY <2>1, <2>2, <2>4, <2>5, <2>6 DEF SettledAgree
  <2> QED BY <2>7, <2>8, <2>9, <2>10
<1> QED BY <1>2, <1>3

\* A daemon writes on only where the token is its own and not whole, so that what a
\* settled daemon has read stays; it goes on when its token is whole or its file gone.
LEMMA WriteInv ==
  ASSUME StartInv, NEW d \in Daemon, Start!write_session_token(d)
  PROVE  StartInv'
<1> USE DEF StartInv
<1>1. daemon \in [Daemon -> DaemonState] /\ daemon[d] \in DaemonState /\ Start!Is(d, "write")
  BY DEF StartTypeOK, Start!write_session_token
<1>2. /\ file \in [token : Nat, written : 0 .. Start!Complete]
      /\ file' = IF file.token = daemon[d].token /\ file.written < Start!Complete
                   THEN [file EXCEPT !.written = @ + 1] ELSE file
      /\ UNCHANGED <<ports, starts, faults, epoch>>
  BY DEF Start!write_session_token, StartTypeOK
<1>3. /\ file' \in [token : Nat, written : 0 .. Start!Complete] /\ file'.token = file.token
      /\ file.written = Start!Complete => file' = file
      /\ file # Start!NoFile => file' # Start!NoFile
  BY <1>2 DEF Start!Complete, Start!NoFile
<1>4. \/ UNCHANGED daemon
      \/ /\ Start!Goto(d, "listen")
         /\ ~(file'.token = daemon[d].token /\ file'.written < Start!Complete)
  BY DEF Start!write_session_token
<1>5. \A e \in Daemon \ {d} : daemon'[e] = daemon[e]
  BY <1>4, <1>1 DEF Start!Goto, Start!Set
<1>6. /\ daemon' \in [Daemon -> DaemonState]
      /\ daemon'[d].token = daemon[d].token /\ daemon'[d].epoch = daemon[d].epoch
      /\ daemon'[d].fresh = daemon[d].fresh /\ daemon'[d].step \in {"write", "listen"}
      /\ ~Start!Is(d, "write")' => ~(file'.token = daemon[d].token /\ file'.written < Start!Complete)
  BY <1>4, <1>1 DEF Start!Goto, Start!Set, Start!Is, DaemonState, Steps
<1>7. \A e \in Daemon \ {d} : Settled(e)' = Settled(e) /\ Start!Is(e, "write")' = Start!Is(e, "write")
  BY <1>5, Zenon DEF Settled, Start!Is, Start!Config
<1>8. Settled(d)
  BY SMTT(30), <1>1 DEF Settled
<1>9. \A e \in Daemon : Settled(e)' => /\ Settled(e) /\ daemon'[e].token = daemon[e].token
                                       /\ daemon'[e].epoch = daemon[e].epoch
  BY <1>5, <1>6, <1>7, <1>8
<1>10. StartTypeOK'
  BY <1>2, <1>3, <1>6 DEF StartTypeOK
<1>11. StartsAreNumbered'
  BY <1>1, <1>2, <1>5, <1>6 DEF StartsAreNumbered, Start!Is
<1>12. FileIsTheirs'
  <2> SUFFICES ASSUME NEW e \in Daemon, Settled(e)', daemon'[e].epoch = epoch
               PROVE  /\ file' # Start!NoFile /\ file'.token = daemon'[e].token
                      /\ ~Start!Is(e, "write")' => file'.written = Start!Complete
    BY SMTT(30), <1>2 DEF FileIsTheirs
  <2>1. file # Start!NoFile /\ file.token = daemon[e].token
    BY SMTT(30), <1>9 DEF FileIsTheirs
  <2>2. CASE e = d
    BY SMTT(30), <2>1, <2>2, <1>3, <1>6 DEF Start!Complete
  <2>3. CASE e # d
    BY SMTT(30), <2>1, <2>3, <1>3, <1>5, <1>7, <1>9 DEF FileIsTheirs
  <2> QED BY <2>2, <2>3, Zenon
<1>13. SettledAgree'
  BY <1>9 DEF SettledAgree
<1> QED BY <1>10, <1>11, <1>12, <1>13

\* A daemon that reads a whole token has the token of everyone settled in this epoch.
LEMMA ReadInv ==
  ASSUME StartInv, NEW d \in Daemon, Start!read_and_validate_session_token_with_retry(d)
  PROVE  StartInv'
<1> USE DEF StartInv
<1>1. /\ daemon \in [Daemon -> DaemonState] /\ daemon[d] \in DaemonState /\ Start!Is(d, "read")
      /\ UNCHANGED <<file, ports, starts, faults, epoch>>
  BY DEF StartTypeOK, Start!read_and_validate_session_token_with_retry
<1>2. daemon[d].fresh > 0 /\ daemon[d].epoch <= epoch /\ daemon[d].step = "read"
  BY <1>1 DEF StartsAreNumbered, Start!Is
<1>3. CASE file.written = Start!Complete
  <2> DEFINE new == [daemon[d] EXCEPT !.step = "listen", !.token = file.token, !.epoch = epoch]
  <2>1. daemon' = [daemon EXCEPT ![d] = new]
    BY <1>3 DEF Start!read_and_validate_session_token_with_retry, Start!Set
  <2>2. /\ new \in DaemonState /\ new.token = file.token /\ new.epoch = epoch
        /\ new.step = "listen" /\ new.fresh = daemon[d].fresh
    BY <1>1, Zenon DEF DaemonState, Steps, StartTypeOK
  <2>3. file # Start!NoFile
    BY <1>3 DEF Start!NoFile, Start!Complete
  <2> HIDE DEF new
  <2>4. daemon'[d] = new /\ \A e \in Daemon \ {d} : daemon'[e] = daemon[e]
    BY <2>1, <1>1
  <2>5. \A e \in Daemon \ {d} : Settled(e)' = Settled(e) /\ Start!Is(e, "write")' = Start!Is(e, "write")
    BY <2>4, Zenon DEF Settled, Start!Is, Start!Config
  <2>6. StartTypeOK'
    BY SMTT(30), <2>1, <2>2, <1>1 DEF StartTypeOK
  <2>7. StartsAreNumbered'
    BY SMTT(30), <1>1, <1>2, <2>2, <2>4 DEF StartsAreNumbered, Start!Is, StartTypeOK
  <2>8. FileIsTheirs'
    BY SMTT(30), <1>1, <1>3, <2>2, <2>3, <2>4, <2>5 DEF FileIsTheirs
  <2>9. SettledAgree'
    BY <1>1, <2>2, <2>4, <2>5, SMTT(30) DEF SettledAgree, FileIsTheirs
  <2> QED BY <2>6, <2>7, <2>8, <2>9
<1>4. CASE file.written # Start!Complete
  <2>1. PICK new \in DaemonState :
          /\ Start!Set(d, new) /\ new.fresh = daemon[d].fresh /\ new.epoch = daemon[d].epoch
          /\ new.step \in {"read", "failed"}
    <3>1. CASE daemon[d].attempts + 1 < MaxAttempts
      <4> DEFINE new == [daemon[d] EXCEPT !.attempts = @ + 1]
      <4>1. Start!Set(d, new)
        BY <1>4, <3>1 DEF Start!read_and_validate_session_token_with_retry
      <4>2. /\ new \in DaemonState /\ new.fresh = daemon[d].fresh /\ new.epoch = daemon[d].epoch
            /\ new.step = "read"
        BY <1>1, <1>2 DEF DaemonState, Steps
      <4> HIDE DEF new
      <4> QED BY <4>1, <4>2
    <3>2. CASE ~(daemon[d].attempts + 1 < MaxAttempts)
      <4> DEFINE new == [daemon[d] EXCEPT !.step = "failed"]
      <4>1. Start!Set(d, new)
        BY <1>4, <3>2 DEF Start!read_and_validate_session_token_with_retry, Start!fail, Start!Goto
      <4>2. /\ new \in DaemonState /\ new.fresh = daemon[d].fresh /\ new.epoch = daemon[d].epoch
            /\ new.step = "failed"
        BY <1>1 DEF DaemonState, Steps
      <4> HIDE DEF new
      <4> QED BY <4>1, <4>2
    <3> QED BY <3>1, <3>2, Zenon
  <2>2. ~Settled(d)'
    BY <2>1, <1>1 DEF Start!Set, Settled, Start!Is
  <2> QED BY <1>1, <1>2, <2>1, <2>2, DaemonStep DEF StartTypeOK
<1> QED BY <1>3, <1>4
-----------------------------------------------------------------------------
\* The steps that touch only the daemon's own record: none of them makes a daemon
\* settled that was not.
LEMMA OwnStepInv ==
  ASSUME StartInv, NEW d \in Daemon,
         \/ Start!Start(d) \/ Start!resolve_local_auth(d) \/ Start!load_or_create_session_token(d)
         \/ Start!WriteFails(d) \/ Start!validate_listen_addr(d) \/ Start!bind_listener(d) \/ Start!Crash(d)
  PROVE  StartInv'
<1>1. daemon \in [Daemon -> DaemonState] /\ daemon[d] \in DaemonState
  BY DEF StartInv, StartTypeOK
<1>2. /\ daemon[d].epoch <= epoch /\ epoch \in Nat /\ 0 <= epoch
      /\ ~Start!Is(d, "down") => daemon[d].fresh > 0
  BY DEF StartInv, StartsAreNumbered, StartTypeOK
<1> DEFINE at(step) == [daemon[d] EXCEPT !.step = step]
<1>3. \A step \in Steps :
        /\ at(step) \in DaemonState /\ at(step).step = step /\ at(step).fresh = daemon[d].fresh
        /\ at(step).token = daemon[d].token /\ at(step).epoch = daemon[d].epoch
        /\ at(step).config = daemon[d].config
  BY <1>1 DEF DaemonState
<1>4. \A step : Start!Goto(d, step) <=> Start!Set(d, at(step))
  BY DEF Start!Goto
<1> HIDE DEF at
<1>5. \A new \in DaemonState : Start!Set(d, new) => daemon'[d] = new
  BY <1>1 DEF Start!Set
<1>6. CASE Start!Start(d)
  <2>1. PICK c \in Configs :
          Start!Set(d, [Start!Down EXCEPT !.step = "auth", !.config = {c}, !.fresh = starts + 1])
    BY <1>6, Zenon DEF Start!Start
  <2> DEFINE new == [Start!Down EXCEPT !.step = "auth", !.config = {c}, !.fresh = starts + 1]
  <2>0. starts \in Nat /\ faults \in Nat
    BY DEF StartInv, StartTypeOK
  <2>2. /\ new \in DaemonState /\ new.step = "auth" /\ new.fresh = starts + 1 /\ new.epoch = 0
        /\ Start!Set(d, new)
    <3>1. /\ Start!Down \in [step : Steps, config : SUBSET Configs, fresh : Nat, token : Nat,
                      attempts : Nat, epoch : Nat]
          /\ Start!Down.epoch = 0
      BY Zenon DEF Start!Down, Steps
    <3>2. {c} \in SUBSET Configs /\ starts + 1 \in Nat /\ "auth" \in Steps
      BY <2>0 DEF Steps
    <3>3. Start!Set(d, new)
      BY <2>1
    <3> QED BY <3>1, <3>2, <3>3, Zenon DEF DaemonState
  <2> HIDE DEF new
  <2>3. ~Settled(d)'
    BY <2>2, <1>5, Zenon DEF Settled, Start!Is
  <2>4. UNCHANGED <<file, epoch, faults>> /\ starts' = starts + 1
    BY <1>6, Zenon DEF Start!Start
  <2>5. new.fresh > 0 /\ new.epoch <= epoch /\ starts' \in Nat /\ faults' \in Nat
    <3>1. starts + 1 > 0 /\ starts + 1 \in Nat /\ 0 <= epoch
      BY <2>0, <1>2
    <3> QED BY <3>1, <2>0, <2>2, <2>4, Zenon
  <2> QED BY <2>2, <2>3, <2>4, <2>5, DaemonStep, Zenon
<1>7. ASSUME NEW step \in Steps, ~Start!Is(d, "down"), Start!Goto(d, step),
             UNCHANGED <<file, epoch>>, starts' \in Nat, faults' \in Nat,
             step \notin {"write", "create"}, ~Settled(d)' \/ (Settled(d) /\ ~Start!Is(d, "write"))
      PROVE  StartInv'
  BY <1>2, <1>3, <1>4, <1>7, DaemonStep, Zenon
<1>8. \A step \in Steps : Start!Goto(d, step) => daemon'[d].step = step /\ Start!Config(d)' = Start!Config(d)
  BY <1>3, <1>4, <1>5, ZenonT(40), Zenon DEF Start!Config
<1>9. \A step \in Steps \ {"write", "listen", "bind", "up"} : Start!Goto(d, step) => ~Settled(d)'
  BY <1>8 DEF Settled, Start!Is
<1>10. CASE Start!resolve_local_auth(d)
  <2>1. UNCHANGED <<file, epoch>> /\ starts' \in Nat /\ faults' \in Nat /\ ~Start!Is(d, "down")
    BY <1>10 DEF Start!resolve_local_auth, StartInv, StartTypeOK, Start!Is
  <2>2. CASE Start!fail(d) \/ Start!Goto(d, "metadata")
    BY <2>1, <2>2, <1>7, <1>9, Zenon DEF Start!fail, Steps
  <2>3. CASE Start!Config(d).auth \in {"disabled", "env_token"} /\ Start!Goto(d, "listen")
    <3>1. ~Settled(d)'
      BY <2>3, <1>8, Zenon DEF Settled, Start!Is, Steps
    <3> QED BY <2>1, <2>3, <3>1, <1>7, Zenon DEF Steps
  <2> QED BY <1>10, <2>2, <2>3 DEF Start!resolve_local_auth
<1>11. CASE Start!load_or_create_session_token(d)
  <2>1. UNCHANGED <<file, epoch>> /\ starts' \in Nat /\ faults' \in Nat /\ ~Start!Is(d, "down")
    BY <1>11 DEF Start!load_or_create_session_token, StartInv, StartTypeOK, Start!Is
  <2>2. CASE Start!Goto(d, "read")
    BY <2>1, <2>2, <1>7, <1>9 DEF Steps
  <2>3. CASE Start!Set(d, [daemon[d] EXCEPT !.step = "create", !.token = daemon[d].fresh])
    <3> DEFINE new == [daemon[d] EXCEPT !.step = "create", !.token = daemon[d].fresh]
    <3>1. /\ new \in DaemonState /\ new.step = "create" /\ new.token = daemon[d].fresh
          /\ new.fresh = daemon[d].fresh /\ new.epoch = daemon[d].epoch /\ Start!Set(d, new)
      BY <2>3, <1>1, Zenon DEF DaemonState, Steps
    <3> HIDE DEF new
    <3>2. ~Settled(d)'
      BY <3>1, <1>5, Zenon DEF Settled, Start!Is
    <3> QED BY <2>1, <3>1, <3>2, <1>2, DaemonStep, Zenon
  <2> QED BY <1>11, <2>2, <2>3 DEF Start!load_or_create_session_token
<1>12. CASE Start!WriteFails(d)
  <2>1. /\ UNCHANGED <<file, epoch>> /\ starts' \in Nat /\ faults' \in Nat /\ ~Start!Is(d, "down")
        /\ Start!Goto(d, "failed")
    BY <1>12 DEF Start!WriteFails, StartInv, StartTypeOK, Start!Is, Start!fail
  <2> QED BY <2>1, <1>7, <1>9 DEF Steps
<1>13. CASE Start!validate_listen_addr(d)
  <2>1. UNCHANGED <<file, epoch>> /\ starts' \in Nat /\ faults' \in Nat /\ Start!Is(d, "listen")
    BY <1>13 DEF Start!validate_listen_addr, StartInv, StartTypeOK
  <2>2. CASE Start!fail(d)
    BY <2>1, <2>2, <1>7, <1>9, Zenon DEF Start!fail, Steps, Start!Is
  <2>3. CASE Start!Goto(d, "bind")
    <3>1. Settled(d)' => Settled(d)
      BY <2>1, <2>3, <1>8, Zenon DEF Settled, Start!Is, Steps
    <3> QED BY <2>1, <2>3, <3>1, <1>7, Zenon DEF Steps, Start!Is
  <2> QED BY <1>13, <2>2, <2>3 DEF Start!validate_listen_addr
<1>14. CASE Start!bind_listener(d)
  <2>1. UNCHANGED <<file, epoch>> /\ starts' \in Nat /\ faults' \in Nat /\ Start!Is(d, "bind")
    BY <1>14 DEF Start!bind_listener, StartInv, StartTypeOK
  <2>2. CASE Start!fail(d)
    BY <2>1, <2>2, <1>7, <1>9, Zenon DEF Start!fail, Steps, Start!Is
  <2>3. CASE Start!Goto(d, "up")
    <3>1. Settled(d)' => Settled(d)
      BY <2>1, <2>3, <1>8, Zenon DEF Settled, Start!Is, Steps
    <3> QED BY <2>1, <2>3, <3>1, <1>7, Zenon DEF Steps, Start!Is
  <2> QED BY <1>14, <2>2, <2>3 DEF Start!bind_listener
<1>15. CASE Start!Crash(d)
  <2>1. /\ Start!Set(d, Start!Down) /\ UNCHANGED <<file, epoch>> /\ starts' \in Nat /\ faults' \in Nat
        /\ Start!Down \in DaemonState /\ Start!Down.step = "down" /\ Start!Down.epoch = 0
    <3>1. Start!Set(d, Start!Down) /\ UNCHANGED <<file, epoch, starts>> /\ faults' = faults + 1
      BY <1>15, Zenon DEF Start!Crash
    <3>2. starts \in Nat /\ faults + 1 \in Nat
      BY DEF StartInv, StartTypeOK
    <3>3. Start!Down \in DaemonState /\ Start!Down.step = "down" /\ Start!Down.epoch = 0
      BY Zenon DEF Start!Down, DaemonState, Steps
    <3> QED BY <3>1, <3>2, <3>3, Zenon
  <2>2. ~Settled(d)'
    BY <2>1, <1>5, Zenon DEF Settled, Start!Is
  <2>3. Start!Down.epoch <= epoch
    BY <2>1, <1>2, Zenon
  <2> QED BY <2>1, <2>2, <2>3, DaemonStep, Zenon
<1> QED BY <1>6, <1>10, <1>11, <1>12, <1>13, <1>14, <1>15

\* Once the file is deleted no daemon is of the current epoch.
LEMMA DeleteInv ==
  ASSUME StartInv, Start!DeleteToken
  PROVE  StartInv'
<1> USE DEF StartInv
<1>1. /\ file' = Start!NoFile /\ epoch' = epoch + 1 /\ faults' = faults + 1
      /\ UNCHANGED <<daemon, starts>>
  BY DEF Start!DeleteToken
<1>2. \A d \in Daemon : daemon[d].epoch \in Nat /\ daemon[d].epoch <= epoch
  BY DEF StartTypeOK, DaemonState, StartsAreNumbered
<1>3. StartTypeOK'
  BY <1>1 DEF StartTypeOK, Start!NoFile, Start!Complete
<1>4. StartsAreNumbered'
  BY <1>1, <1>2 DEF StartsAreNumbered, Start!Is, StartTypeOK
<1>5. FileIsTheirs'
  BY <1>1, <1>2 DEF FileIsTheirs, StartTypeOK
<1>6. \A d \in Daemon : Settled(d)' = Settled(d)
  BY <1>1, Zenon DEF Settled, Start!Is, Start!Config
<1>7. SettledAgree'
  BY <1>1, <1>6 DEF SettledAgree
<1> QED BY <1>3, <1>4, <1>5, <1>7

\* Every step keeps the invariant.
LEMMA NextStart == StartInv /\ [Start!Next]_(Start!vars) => StartInv'
<1> SUFFICES ASSUME StartInv, [Start!Next]_(Start!vars) PROVE StartInv'
  OBVIOUS
<1>1. CASE UNCHANGED Start!vars
  BY <1>1 DEF StartInv, StartTypeOK, StartsAreNumbered, FileIsTheirs, SettledAgree, Settled, Start!Is, Start!Config,
              Start!vars
<1>2. CASE Start!Next
  BY <1>2, OwnStepInv, CreateInv, WriteInv, ReadInv, DeleteInv DEF Start!Next
<1> QED BY SMTT(30), <1>1, <1>2

\* The strengthened invariant holds in every reachable state.
THEOREM StartInvariance == Start!Spec => []StartInv
  BY InitStart, NextStart, PTL DEF Start!Spec

\* Daemons that start together, crash while they write the token file or find half of it
\* agree with each other and with the file on the session token, however many they are
\* and however often the file is deleted (load_or_create_session_token,
\* write_or_reuse_session_token).
THEOREM SessionIsSharedHolds == Start!Spec => []SessionIsShared
<1>1. StartInv => SessionIsShared
  BY Zenon DEF SessionIsShared, StartInv, FileIsTheirs, SettledAgree, Settled, Start!SessionIsShared, Start!TokenIsTheFiles,
         Start!OneSessionToken, Start!UpWithSession, Start!Is
<1> QED BY <1>1, StartInvariance, PTL
=============================================================================
