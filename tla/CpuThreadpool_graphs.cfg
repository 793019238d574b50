SPECIFICATION FairSpec
CONSTANTS
  PoolSize = 3
  Nodes = 3
  Nops = {1}
  Chunks = 4
  MaxGraphs = 2
  MaxPauses = 1
INVARIANTS
    PlanOutlivesWork
    GraphIsComputed
    SleeperIsNotNeeded
PROPERTIES
    CallsReturn
CHECK_DEADLOCK FALSE
