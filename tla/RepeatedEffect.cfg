CONSTANTS
  Job = {j1, j2}
  Key = {k1}
  Sig = {"a"}
  MaxSequence = 14
  Faults = TRUE
  Outcomes = {"Allowed"}
  ToolResults = {"Succeeded"}
  Spillover = FALSE
  MaxCancels = 0
  CacheLimit = 1
  Requests <- KeyedRequests
  Scenarios = {"given"}
SPECIFICATION MCSpec
CHECK_DEADLOCK FALSE
INVARIANTS
  RetriesRunOnce
