----------------------------- MODULE Transport ------------------------------
(***************************************************************************)
(* The HTTP transport (ateliad/src/transport.rs): authentication, routing, *)
(* reading of bodies, the request timeout, the read lock every request     *)
(* takes on the RPC server, and the shutdown of the daemon                 *)
(* (ateliad/src/main.rs), which takes the write lock.  A request can time  *)
(* out or lose its client where it awaits: for its body and for the lock.  *)
(* The lock is tokio's: it is granted in the order it was asked for.       *)
(***************************************************************************)
EXTENDS Naturals, Sequences, FiniteSets

CONSTANTS Client,       \* connections
          Requests,     \* [path, method, token, body]
          RpcErrors,    \* the error codes RPC calls return here; "None" for success
          MaxRequests   \* bound: requests of all clients

\* How the body of a request arrives, if it does: "refused" is a payload its handler does
\* not accept.
Bodies == {"ok", "refused", "invalid_json", "too_large", "never"}

RpcErrorCode ==
  {"InvalidArgument", "NotFound", "CursorExpired", "Conflict", "UnsupportedCapability",
   "Internal"}

ASSUME RequestAssumption == \A q \in Requests : q.token \in BOOLEAN /\ q.body \in Bodies

ASSUME ErrorAssumption == RpcErrors \subseteq RpcErrorCode \cup {"None"}

\* The task of main is no client's.
ASSUME ClientAssumption == "main" \notin Client

VARIABLES client, holders, queue, main, failed, stopping, requests

vars == <<client, holders, queue, main, failed, stopping, requests>>

----------------------------------------------------------------------------
(* Handlers: the RPC a handler calls, whether it reads a body, and where   *)
(* it refuses a payload that is valid JSON: before it takes the lock       *)
(* ("early"), under the lock ("requester", "scope") or never.              *)

Handler(rpc, body, refuses) == [rpc |-> rpc, body |-> body, refuses |-> refuses]

dispatch_health == Handler("health", FALSE, "never")

dispatch_submit_job == Handler("submit_job", TRUE, "early")

dispatch_get_job == Handler("get_job", FALSE, "never")

dispatch_list_jobs == Handler("list_jobs", TRUE, "early")

dispatch_cancel_job == Handler("cancel_job", TRUE, "never")

dispatch_list_repositories == Handler("list_repositories", TRUE, "early")

dispatch_register_repository == Handler("register_repository", TRUE, "early")

dispatch_list_repertoire == Handler("list_repertoire", TRUE, "never")

dispatch_list_events == Handler("list_events", TRUE, "early")

dispatch_list_job_events == Handler("list_events", TRUE, "early")

dispatch_replay_events == Handler("watch_events", TRUE, "early")

dispatch_watch_events == Handler("watch_events_live", TRUE, "early")

dispatch_get_tool_output_defaults == Handler("get_tool_output_defaults", TRUE, "scope")

dispatch_update_tool_output_defaults == Handler("update_tool_output_defaults", TRUE, "scope")

dispatch_list_tool_output_settings_history ==
  Handler("list_tool_output_settings_history", TRUE, "scope")

dispatch_install_extension == Handler("install_extension", TRUE, "requester")

dispatch_validate_extension == Handler("validate_extension", TRUE, "never")

dispatch_update_extension == Handler("update_extension", TRUE, "requester")

dispatch_project_status == Handler("project_status", TRUE, "never")

dispatch_list_extensions == Handler("list_extensions", TRUE, "never")

dispatch_list_package_trust_index == Handler("list_package_trust_index", TRUE, "never")

dispatch_package_authoring_flow == Handler("package_authoring_flow", TRUE, "early")

dispatch_package_remix == Handler("package_remix", TRUE, "early")

dispatch_package_publication == Handler("prepare_package_publication", TRUE, "early")

dispatch_package_registry_submission ==
  Handler("submit_package_registry_submission", TRUE, "early")

execute_extension == Handler("execute_extension", FALSE, "never")

dispatch_render_tool_output == Handler("render_tool_output", TRUE, "early")

dispatch_extension_status == Handler("extension_status", TRUE, "never")

dispatch_package_inspect == Handler("package_inspect", TRUE, "never")

dispatch_rollback_extension == Handler("rollback_extension", TRUE, "requester")

dispatch_disable_extension == Handler("disable_extension", TRUE, "requester")

dispatch_enable_extension == Handler("enable_extension", TRUE, "requester")

dispatch_remove_extension == Handler("remove_extension", TRUE, "requester")

dispatch_apply_blocklist == Handler("apply_blocklist", TRUE, "requester")

dispatch_list_blocklist == Handler("list_blocklist", TRUE, "never")

dispatch_list_extension_registry_audit_records ==
  Handler("list_extension_registry_audit_records", TRUE, "never")

----------------------------------------------------------------------------
(* Routes.  A path is a sequence of segments; JobId and PackageId stand    *)
(* for any valid id.                                                       *)

JobId == "job:1"
PackageId == "package"

Get(path, handler) == [path |-> path, method |-> "GET", handler |-> handler]

Post(path, handler) == [path |-> path, method |-> "POST", handler |-> handler]

JobRoutes ==
  { Get(<<"health">>, dispatch_health),
    Post(<<"jobs", "submit">>, dispatch_submit_job),
    Post(<<"jobs", "list">>, dispatch_list_jobs),
    Get(<<"jobs", JobId>>, dispatch_get_job),
    Post(<<"jobs", JobId, "events">>, dispatch_list_job_events),
    Post(<<"jobs", JobId, "cancel">>, dispatch_cancel_job) }

RepositoryRoutes ==
  { Post(<<"repositories:list">>, dispatch_list_repositories),
    Post(<<"repositories:register">>, dispatch_register_repository),
    Post(<<"repertoire:list">>, dispatch_list_repertoire),
    Post(<<"events", "list">>, dispatch_list_events),
    Post(<<"events", "watch">>, dispatch_watch_events),
    Post(<<"events", "replay">>, dispatch_replay_events) }

SettingsRoutes ==
  { Post(<<"tool-output", "settings", "get">>, dispatch_get_tool_output_defaults),
    Post(<<"tool-output", "settings", "update">>, dispatch_update_tool_output_defaults),
    Post(<<"tool-output", "settings", "history:list">>,
         dispatch_list_tool_output_settings_history),
    Post(<<"packages", "install">>, dispatch_install_extension),
    Post(<<"packages", "validate">>, dispatch_validate_extension),
    Post(<<"packages", "update">>, dispatch_update_extension),
    Post(<<"packages", "list">>, dispatch_list_extensions) }

PackageRoutes ==
  { Post(<<"package-trust-index:list">>, dispatch_list_package_trust_index),
    Post(<<"packages", PackageId, "authoring-flow">>, dispatch_package_authoring_flow),
    Post(<<"packages", PackageId, "remix">>, dispatch_package_remix),
    Post(<<"packages", PackageId, "publication">>, dispatch_package_publication),
    Post(<<"packages", PackageId, "registry-submission">>,
         dispatch_package_registry_submission),
    Post(<<"packages", PackageId, "execute">>, execute_extension),
    Post(<<"tool-results:render">>, dispatch_render_tool_output) }

LifecycleRoutes ==
  { Post(<<"packages", PackageId, "status">>, dispatch_extension_status),
    Post(<<"packages", PackageId, "inspect">>, dispatch_package_inspect),
    Post(<<"packages", PackageId, "rollback">>, dispatch_rollback_extension),
    Post(<<"packages", PackageId, "disable">>, dispatch_disable_extension),
    Post(<<"packages", PackageId, "enable">>, dispatch_enable_extension),
    Post(<<"packages", PackageId, "remove">>, dispatch_remove_extension),
    Post(<<"packages", "blocklist", "apply">>, dispatch_apply_blocklist) }

ListingRoutes ==
  { Post(<<"packages", "blocklist", "list">>, dispatch_list_blocklist),
    Post(<<"packages", "audit:list">>, dispatch_list_extension_registry_audit_records),
    Post(<<"project-status:get">>, dispatch_project_status) }

dispatch_route ==
  JobRoutes \cup RepositoryRoutes \cup SettingsRoutes \cup PackageRoutes
            \cup LifecycleRoutes \cup ListingRoutes

\* The route of a path: at most one; none is Route::Unsupported.
route_for_path(path) == {r \in dispatch_route : r.path = path}

\* The paths the router gives to dispatch_route; the others go to fallback_route.
build_router(path) ==
  \/ path \in {<<"health">>, <<"repositories:list">>, <<"repositories:register">>,
               <<"repertoire:list">>, <<"package-trust-index:list">>,
               <<"tool-results:render">>, <<"project-status:get">>}
  \/ Len(path) = 2 /\ path[1] = "events" /\ path[2] \in {"list", "watch", "replay"}
  \/ /\ Len(path) = 3 /\ path[1] = "tool-output" /\ path[2] = "settings"
     /\ path[3] \in {"get", "update", "history:list"}
  \/ Len(path) > 1 /\ path[1] \in {"jobs", "packages"}

----------------------------------------------------------------------------
(* Answers.                                                                *)

Answer(status, code) == [status |-> status, code |-> code]

NoAnswer == Answer(0, "None")

rpc_error_status(code) ==
  CASE code = "InvalidArgument" -> 400
    [] code = "NotFound" -> 404
    [] code = "CursorExpired" -> 410
    [] code = "Conflict" -> 409
    [] code = "UnsupportedCapability" -> 501
    [] code = "Internal" -> 500

\* What a call that returned error is answered with; replay and watch name an expired cursor.
RpcAnswer(rpc, error) ==
  IF error = "None" THEN Answer(200, "ok")
  ELSE Answer(rpc_error_status(error),
              IF error = "CursorExpired" /\ rpc \in {"watch_events", "watch_events_live"}
                THEN "cursor_expired" ELSE "rpc_error")

----------------------------------------------------------------------------
(* The steps of a request.                                                 *)

Idle == [step |-> "idle", request |-> <<>>, then |-> NoAnswer, timed |-> FALSE,
         calls |-> 0, answer |-> NoAnswer]

Is(c, step) == client[c].step = step

Set(c, new) == client' = [client EXCEPT ![c] = new]

\* state.read().await: the task waits for the lock, with the answer it will then give
\* (NoAnswer: the handler's call).
read(c, now, then) ==
  /\ Set(c, [now EXCEPT !.step = "waiting", !.then = then])
  /\ queue' = Append(queue, c)

\* The queue when the future of a request that may wait in it is dropped.
Without(c) ==
  IF \A i \in DOMAIN queue : queue[i] # c THEN queue
  ELSE LET n == CHOOSE i \in DOMAIN queue : queue[i] = c
       IN  [i \in 1..(Len(queue) - 1) |-> queue[IF i < n THEN i ELSE i + 1]]

respond(c, answer) ==
  Set(c, [client[c] EXCEPT !.step = "answered", !.answer = answer])

Handled(c) ==
  LET r == client[c].request.path IN (CHOOSE x \in dispatch_route : x.path = r).handler

\* local_auth_middleware, then the router, the route and its method.
Arrive(c) ==
  /\ client[c].step \in {"idle", "answered"}
  /\ main \notin {"draining", "exited"} /\ ~failed
  /\ requests < MaxRequests
  /\ requests' = requests + 1
  /\ \E q \in Requests :
       LET now == [Idle EXCEPT !.step = "body", !.request = q]
           route == IF build_router(q.path) THEN route_for_path(q.path) ELSE {}
       IN IF ~q.token
            THEN /\ Set(c, [now EXCEPT !.step = "answered",
                                       !.answer = Answer(401, "unauthorized")])
                 /\ UNCHANGED queue
          ELSE IF route = {} THEN read(c, now, Answer(404, "unsupported_endpoint"))
          ELSE IF \E r \in route : r.method # q.method
            THEN read(c, now, Answer(405, "method_not_allowed"))
          ELSE IF \E r \in route : r.handler.body
            THEN Set(c, now) /\ UNCHANGED queue
          ELSE read(c, now, NoAnswer)
  /\ UNCHANGED <<holders, main, failed, stopping>>

\* Mutant: a refused payload still reaches the call.
RefuseNothing(c) ==
  /\ Is(c, "body") /\ client[c].request.body # "never"
  /\ LET body == client[c].request.body
     IN CASE body = "too_large" -> read(c, client[c], Answer(413, "request_too_large"))
          [] body = "invalid_json" -> read(c, client[c], Answer(400, "invalid_json"))
          [] OTHER -> read(c, client[c], NoAnswer)
  /\ UNCHANGED <<holders, main, failed, stopping, requests>>

\* The body is in: it is refused as a body or as a payload, or the call is made.
body_or_empty_json(c) ==
  /\ Is(c, "body") /\ client[c].request.body # "never"
  /\ LET body == client[c].request.body
     IN CASE body = "too_large" -> read(c, client[c], Answer(413, "request_too_large"))
          [] body = "invalid_json" -> read(c, client[c], Answer(400, "invalid_json"))
          [] body = "refused" /\ Handled(c).refuses = "early" ->
               read(c, client[c], Answer(400, "invalid_argument"))
          [] OTHER -> read(c, client[c], NoAnswer)
  /\ UNCHANGED <<holders, main, failed, stopping, requests>>

\* The work under the read guard; a call runs to its end without awaiting.
Respond(c) ==
  /\ Is(c, "granted")
  /\ holders' = holders \ {c}
  /\ IF client[c].then # NoAnswer THEN respond(c, client[c].then)
     ELSE LET h == Handled(c) IN
       IF client[c].request.body = "refused" /\ h.refuses = "requester"
         THEN respond(c, Answer(rpc_error_status("InvalidArgument"), "rpc_error"))
       ELSE IF client[c].request.body = "refused" /\ h.refuses = "scope"
         THEN respond(c, Answer(500, "transport_error"))
       ELSE \E error \in RpcErrors :
              Set(c, [client[c] EXCEPT
                        !.step = IF h.rpc = "watch_events_live" /\ error = "None"
                                   THEN "streaming" ELSE "answered",
                        !.calls = @ + 1,
                        !.answer = RpcAnswer(h.rpc, error)])
  /\ UNCHANGED <<queue, main, failed, stopping, requests>>

\* The future of the request is dropped; the answer to the timeout waits for the lock anew.
with_request_timeout(c) ==
  /\ client[c].step \in {"body", "waiting"} /\ ~client[c].timed
  /\ Set(c, [client[c] EXCEPT !.step = "waiting", !.timed = TRUE,
                              !.then = Answer(504, "request_timeout")])
  /\ queue' = Append(Without(c), c)
  /\ UNCHANGED <<holders, main, failed, stopping, requests>>

\* The client goes away; the request is dropped where it awaits, a stream ends.
Disconnect(c) ==
  /\ client[c].step \in {"body", "waiting", "streaming"}
  /\ Set(c, Idle)
  /\ queue' = Without(c)
  /\ UNCHANGED <<holders, main, failed, stopping, requests>>

----------------------------------------------------------------------------
(* The lock and the shutdown.                                              *)

\* tokio's RwLock: first come, first served.
Grant ==
  /\ queue # <<>>
  /\ LET next == Head(queue) IN
       IF next = "main"
         THEN /\ holders = {}
              /\ main' = "granted"
              /\ UNCHANGED client
         ELSE /\ "main" \notin holders
              /\ Set(next, [client[next] EXCEPT !.step = "granted"])
              /\ UNCHANGED main
  /\ holders' = holders \cup {Head(queue)}
  /\ queue' = Tail(queue)
  /\ UNCHANGED <<failed, stopping, requests>>

\* Ctrl-C, or the listener task ends before it: run_until_shutdown asks for the write lock.
ShutdownSignal ==
  /\ main = "serving"
  /\ failed' \in BOOLEAN
  /\ main' = "waiting"
  /\ queue' = Append(queue, "main")
  /\ UNCHANGED <<client, holders, stopping, requests>>

\* Mutant: the write guard is kept while the listener drains.
KeepTheGuard ==
  /\ main = "granted"
  /\ stopping' = TRUE
  /\ main' = "draining"
  /\ UNCHANGED <<client, queue, holders, failed, requests>>

\* The status is set, the guard dropped and the listener told to stop accepting; a
\* listener that has ended is not waited for.
run_until_shutdown ==
  /\ main = "granted"
  /\ stopping' = TRUE
  /\ holders' = holders \ {"main"}
  /\ main' = IF failed THEN "exited" ELSE "draining"
  /\ UNCHANGED <<client, queue, failed, requests>>

\* axum's graceful shutdown: the listener ends when no request is in flight.
run_listener ==
  /\ main = "draining"
  /\ \A c \in Client : client[c].step \in {"idle", "answered"}
  /\ main' = "exited"
  /\ UNCHANGED <<client, holders, queue, failed, stopping, requests>>

Init ==
  /\ client = [c \in Client |-> Idle]
  /\ holders = {}
  /\ queue = <<>>
  /\ main = "serving"
  /\ failed = FALSE
  /\ stopping = FALSE
  /\ requests = 0

Next ==
  \/ \E c \in Client : \/ Arrive(c) \/ body_or_empty_json(c) \/ Respond(c)
                       \/ with_request_timeout(c) \/ Disconnect(c)
  \/ Grant \/ ShutdownSignal \/ run_until_shutdown \/ run_listener

Spec == Init /\ [][Next]_vars

\* The runtime polls every task that can go on, the timer fires, and main runs.
Fairness ==
  /\ \A c \in Client : WF_vars(Respond(c)) /\ WF_vars(with_request_timeout(c))
  /\ WF_vars(Grant) /\ WF_vars(run_until_shutdown) /\ WF_vars(run_listener)

FairSpec == Spec /\ Fairness

\* Clients that do not keep a stream open for ever.
LeavingSpec == FairSpec /\ \A c \in Client : WF_vars(Is(c, "streaming") /\ Disconnect(c))

----------------------------------------------------------------------------
(* Properties.                                                             *)

\* An answer tells whether the call was made: a request that was refused before its call,
\* because of its token, path, method, body, payload or time, made none, and one that
\* reports a result of the call made exactly one.
AnswersTellTheCall ==
  \A c \in Client :
    /\ client[c].answer.code \in {"unauthorized", "unsupported_endpoint", "method_not_allowed",
         "request_too_large", "invalid_json", "invalid_argument", "request_timeout",
         "transport_error"} => client[c].calls = 0
    /\ client[c].answer.status = 200 => client[c].calls = 1
    /\ client[c].answer.code = "cursor_expired" => client[c].calls = 1

\* A call is made only for a request that had every right to it: with the token, on a
\* path and method of the table, with a body and a payload the handler accepts.
CallsAreDeserved ==
  \A c \in Client :
    client[c].calls > 0 =>
      LET q == client[c].request IN
      /\ q.token
      /\ \E r \in dispatch_route : /\ r.path = q.path /\ r.method = q.method
                                   /\ r.handler.body => q.body \in {"ok", "refused"}
                                   /\ q.body = "refused" => ~r.handler.body
                                                            \/ r.handler.refuses = "never"

\* A path of the table never falls through the router to "unsupported_endpoint".
KnownPathsAreRouted ==
  \A c \in Client :
    client[c].answer.code = "unsupported_endpoint" =>
      route_for_path(client[c].request.path) = {}

\* The two sides of a call agree: it is made for the requests that deserve it and for no
\* other, and the answer tells the client which of the two happened.
CallsMatchAnswers == AnswersTellTheCall /\ CallsAreDeserved /\ KnownPathsAreRouted

\* Every request is answered or lost with its client, whatever bodies do not arrive and
\* although the shutdown waits for the write lock among the readers (a daemon whose
\* listener failed exits without answering).
EveryRequestEnds ==
  \A c \in Client :
    client[c].step \in {"body", "waiting", "granted"}
      ~> client[c].step \in {"idle", "answered", "streaming"} \/ (failed /\ main = "exited")

\* A daemon told to stop exits.
ShutdownCompletes == main = "waiting" ~> main = "exited"
=============================================================================
