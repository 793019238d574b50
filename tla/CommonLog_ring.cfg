SPECIFICATION FairSpec
CONSTANTS
  InitialCapacity = 2
  MaxMessages = 6
INVARIANTS
    NothingDropped
    QuietWhilePaused
PROPERTIES
    ImplementsLogSink
    LogGoesOn
CHECK_DEADLOCK FALSE
