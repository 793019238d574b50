SPECIFICATION FairSpec
CONSTANTS
  Models = {a, b}
  Clients = {c1, c2}
  ModelsMax = 1
  Sleepers = {}
  MaxCalls = 3
  MaxCrashes = 1
PROPERTY
  EvictionEnds
CHECK_DEADLOCK FALSE
