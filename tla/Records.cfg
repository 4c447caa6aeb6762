CONSTANTS
  p1 = p1
  p2 = p2
  blank = blank
  Leader <- MCLeader
  Blank = blank
  Id = {1, 2, 3}
  MaxTime = 2
  Timeouts = {0, 1}
  NewRecords <- MCNewRecords
  Repository = {r1, r2}
  Job = {j1, j2}
  Decision = {d1, d2}
  Lock = {l1, l2}
  Invocation = {i1, i2}
SPECIFICATION MCSpec
SYMMETRY Interchangeable
CHECK_DEADLOCK FALSE
INVARIANTS
  OneHolder
  TrailsAreCoherent
  RecordsLoad
PROPERTIES
  MigrationsAreFenced
