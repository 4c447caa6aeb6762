CONSTANTS
  MaxTime = 4
  MaxSteps = 5
  r1 = r1
  r2 = r2
  u1 = u1
  u2 = u2
  c1 = c1
  c2 = c2
SPECIFICATION MCSpec
CHECK_DEADLOCK FALSE
INVARIANTS
  StoredTimesLoad
  WatchIsExact
  ReadsAreExact
PROPERTIES
  StoppedJobsEnd
  EventsArrive
  SettingsAreCoherent
