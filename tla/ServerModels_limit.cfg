SPECIFICATION Spec
CONSTANTS
  Models = {a, b, c}
  Clients = {c1, c2}
  ModelsMax = 2
  Sleepers = {a}
  MaxCalls = 4
  MaxCrashes = 0
INVARIANTS
  TypeOK
  LimitIsKept
  StatusIsTrue
PROPERTY
  FollowsDiagram
CHECK_DEADLOCK FALSE
