SPECIFICATION FairSpec
CONSTANTS
  Models = {a, b}
  Clients = {c1, c2}
  ModelsMax = 1
  Sleepers = {a}
  MaxCalls = 3
  MaxCrashes = 1
INVARIANTS
    LimitIsKept
    TableIsTrue
PROPERTIES
    FollowsDiagram
    WaitsEnd
CHECK_DEADLOCK FALSE
