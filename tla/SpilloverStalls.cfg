CONSTANTS
  Job = {j1}
  Key = {}
  Sig = {"a"}
  MaxSequence = 14
  Faults = FALSE
  Outcomes = {"Allowed", "Blocked"}
  ToolResults = {"Failed"}
  Spillover = TRUE
  MaxCancels = 1
  CacheLimit = 1
  Requests <- PlainRequests
  Scenarios = {"given"}
SPECIFICATION MCFairSpec
CHECK_DEADLOCK FALSE
PROPERTIES
  JobsSettle
