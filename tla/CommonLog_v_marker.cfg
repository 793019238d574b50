SPECIFICATION FairSpec
CONSTANTS
  InitialCapacity = 2
  MaxMessages = 3
PROPERTY
  MarkerStopsWorker
CHECK_DEADLOCK FALSE
