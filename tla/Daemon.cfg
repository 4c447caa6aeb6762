CONSTANTS
  Proc = {p1, p2, p3}
  Key = {k1, k2}
  Lock = {l1, l2, l3, l4}
  None = None
  Daemon = {d1, d2}
  Configs <- FewConfigs
  MaxAttempts = 2
  MaxStarts = 4
  MaxFaults = 2
  Process = {p1, p2, p3}
  Attempts = 2
  MaxInodes = 3
  Client = {c1, c2}
  Requests <- FewRequests
  RpcErrors = {"None", "Conflict"}
  MaxRequests = 3
SPECIFICATION MCSpec
CHECK_DEADLOCK FALSE
INVARIANTS
  MapIsCollected
  SessionIsShared
  CallsMatchAnswers
PROPERTIES
  IsKeyMutex
  RequestsAndShutdownEnd
  ImplementsGuard
  LocksAreHadAgain
