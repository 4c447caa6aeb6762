CONSTANTS
  OfficialId = {"o"}
  LocalId = {"l"}
  OtherId = {"e", "f"}
  Semver = {"1", "2", "3"}
  Digest = {"d1", "d2"}
  PermissionName = {"p.read", "p.write"}
  NoVersion = NoVersion
SPECIFICATION MCSpec
CHECK_DEADLOCK FALSE
INVARIANTS
  AcceptedChangesCommit
  AuthorsAreToldTheTruth
PROPERTIES
  RegistryIsSafe
  RegistryTellsItsState
