CONSTANTS
  Actor = {"a1", "a2"}
  Scope = {"r1", "r2"}
  Project = {"p1"}
  Metadata = {}
  MaxIds = 2
  MaxFields = 2
  MaxTime = 1
  MaxFaults = 1
  MaxCrashes = 1
  Retention = 1
SPECIFICATION MCSpec
CHECK_DEADLOCK FALSE
INVARIANTS
  StoreIsConsistent
  AnswersTellTheResult
PROPERTIES
  OverdueAreDeleted
  PathsKeepTheirArtifact
