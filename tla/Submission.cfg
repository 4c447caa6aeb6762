CONSTANTS
  Job = {j1, j2}
  Key = {k1, k2}
  Sig = {"a", "b"}
  MaxSequence = 14
  Faults = TRUE
  Outcomes = {"Allowed"}
  ToolResults = {"Succeeded"}
  Spillover = FALSE
  MaxCancels = 1
  CacheLimit = 1
  Requests <- KeyedRequests
  Scenarios = {"given", "plain", "evicting", "faulty"}
SPECIFICATION MCSpec
SYMMETRY Symmetry
CHECK_DEADLOCK FALSE
INVARIANTS
  LedgerIsSound
  PublishedIsDurable
  EffectIsAuthorized
  CommitsAreAtomic
  AnswersStand
PROPERTIES
  HistoryIsFinal
