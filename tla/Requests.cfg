CONSTANTS
  k1 = k1
  k2 = k2
  c1 = c1
  Root = "root"
  MaxWalk = 6
  Client = {k1, k2}
  Requests <- MeetingRequests
  Scopes <- DecisionScopes
  Capabilities = {"fs.write", "status"}
  Previews = {}
  StoredDecisions <- OtherDecisions
  Directories <- MovedDirectories
  InitialTree <- RegisteredTree
  MaxRepositories = 3
  MaxDecisions = 1
SPECIFICATION MCSpec
CHECK_DEADLOCK FALSE
INVARIANTS
  RepositoriesAreSound
  RequestsAreUnderstood
PROPERTIES
  ListsAreComplete
