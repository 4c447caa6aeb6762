CONSTANTS
  Job = {j1, j2}
  Key = {k1, k2}
  Sig = {"a"}
  MaxSequence = 14
  Faults = FALSE
  Outcomes = {"Allowed", "Blocked"}
  ToolResults = {"Succeeded", "Failed"}
  Spillover = FALSE
  MaxCancels = 1
  CacheLimit = 1
  Requests <- KeyedRequests
  Scenarios = {"given", "faulty"}
SPECIFICATION MCFairSpec
CHECK_DEADLOCK FALSE
PROPERTIES
  EverySubmissionEnds
  CalmJobsSettle
