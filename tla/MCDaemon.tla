------------------------------ MODULE MCDaemon ------------------------------
(* The parts of the daemon share no state, so a behaviour follows one of      *)
(* them, its part, while the others rest in their initial states.             *)
EXTENDS Transport, DaemonParts

VARIABLE part

startVars == <<file, daemon, ports, starts, faults, epoch>>

lockVars == <<locks, holder, arc, key, pc>>

indexVars == <<platform, entry, made, locked, fd, attempt, where, failures>>

-----------------------------------------------------------------------------
\* Daemons on two loopback addresses and on the network.
FewConfigs ==
  {[auth |-> "session", addr |-> a, unsafe |-> FALSE] : a \in {"loopback", "loopback2"}}
  \cup {[auth |-> a, addr |-> "network", unsafe |-> u] :
          a \in {"disabled", "env_token"}, u \in BOOLEAN}
  \cup {[auth |-> a, addr |-> "loopback", unsafe |-> FALSE] :
          a \in {"disabled", "weak_token", "disabled_and_token"}}

-----------------------------------------------------------------------------
Request(path, method, token, body) ==
  [path |-> path, method |-> method, token |-> token, body |-> body]

\* A few requests at once, among them a body that never comes and a watch.
FewRequests ==
  { Request(<<"health">>, "GET", TRUE, "ok"),
    Request(<<"health">>, "POST", TRUE, "ok"),
    Request(<<"jobs", "submit">>, "POST", TRUE, "ok"),
    Request(<<"jobs", "submit">>, "POST", TRUE, "refused"),
    Request(<<"jobs", "submit">>, "POST", TRUE, "never"),
    Request(<<"events", "watch">>, "POST", TRUE, "ok") }

\* Every route with every body; a wrong method, a missing token, unknown paths.
EveryRequest ==
  {Request(r.path, r.method, TRUE, b) : r \in dispatch_route, b \in Bodies}
  \cup {Request(r.path, m, t, "ok") :
          r \in dispatch_route, m \in {"GET", "POST"}, t \in BOOLEAN}
  \cup {Request(p, "POST", TRUE, "ok") :
          p \in {<<"unknown">>, <<"jobs", "unknown">>, <<"packages", PackageId, "unknown">>}}

Routes == INSTANCE Transport WITH
  Requests <- EveryRequest, MaxRequests <- 1,
  RpcErrors <- RpcErrorCode \cup {"None"}

-----------------------------------------------------------------------------
MCInit ==
  /\ part \in {"keys", "start", "index", "load", "routes"}
  /\ Keys!Init /\ Start!Init /\ Init
  /\ Index!Init /\ (part # "index" => platform = "unix")

MCNext ==
  /\ \/ part = "keys" /\ Keys!Next /\ UNCHANGED <<startVars, indexVars, vars>>
     \/ part = "start" /\ Start!Next /\ UNCHANGED <<lockVars, indexVars, vars>>
     \/ part = "index" /\ Index!Next /\ UNCHANGED <<lockVars, startVars, vars>>
     \/ part = "load" /\ Next /\ UNCHANGED <<lockVars, startVars, indexVars>>
     \/ part = "routes" /\ Routes!Next /\ UNCHANGED <<lockVars, startVars, indexVars>>
  /\ UNCHANGED part

\* The fairness of Transport's LeavingSpec: tasks run, timers fire, and clients do not
\* keep a stream open for ever; and of ScopeLock: a thread that tries goes on trying, and a
\* section ends.
PartFairness ==
  /\ \A c \in Client :
       /\ WF_vars(part = "load" /\ Respond(c))
       /\ WF_vars(part = "load" /\ with_request_timeout(c))
       /\ WF_vars(part = "load" /\ Is(c, "streaming") /\ Disconnect(c))
  /\ WF_vars(part = "load" /\ Grant)
  /\ WF_vars(part = "load" /\ run_until_shutdown)
  /\ WF_vars(part = "load" /\ run_listener)
  /\ \A p \in Process :
       /\ WF_indexVars(part = "index" /\ (Index!LockFile(p) \/ Index!CreateNew(p) \/ Index!Retry(p)))
       /\ WF_indexVars(part = "index" /\ Index!Drop(p))

MCSpec ==
  MCInit /\ [][MCNext]_<<part, vars, startVars, lockVars, indexVars>> /\ PartFairness

-----------------------------------------------------------------------------
\* Every request is answered or lost with its client, and a daemon told to stop exits,
\* although its write lock queues among their read locks (with_request_timeout,
\* run_until_shutdown).
RequestsAndShutdownEnd ==
  part = "load" => EveryRequestEnds /\ ShutdownCompletes

\* A crash with the guard does not keep the others out for ever where the kernel keeps the
\* lock, and tries that are counted end (ScopeIndexGuard).
LocksAreHadAgain == part = "index" => Index!LockIsRecovered /\ Index!TriesEnd
=============================================================================
