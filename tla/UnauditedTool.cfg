CONSTANTS
  Job = {j1}
  Key = {}
  Sig = {"a"}
  MaxSequence = 14
  Faults = FALSE
  Outcomes = {"Allowed"}
  ToolResults = {"Succeeded"}
  Spillover = FALSE
  MaxCancels = 1
  CacheLimit = 1
  Requests <- PlainRequests
  Scenarios = {"given"}
SPECIFICATION MCSpec
CHECK_DEADLOCK FALSE
INVARIANTS
  InvocationIsAudited
