CONSTANTS
  t1 = t1
  t2 = t2
SPECIFICATION MCSpec
CHECK_DEADLOCK FALSE
INVARIANTS
  FileCallsAreSafe
  ReadsAreFaithful
  ProcessIsAccountedFor
PROPERTIES
  EveryCallEnds
