SPECIFICATION FairSpec
CONSTANTS
    r1 = r1
    r2 = r2
    r3 = r3
    Requests = {r1, r2, r3}
    NoRequest = NoRequest
    Main = Main
    NSlots = 1
    Invalid = {r3}
    IdleSleep = TRUE
    CanCancel = TRUE
    CanTerminate = TRUE
    SignalOnMain = TRUE
INVARIANTS
    NoLostWakeup
    NoWaiterForgotten
    SleepsOnlyWhenIdle
    NoTaskLost
PROPERTIES
    QueuedTaskIsTaken
    StartedLoopStops
CHECK_DEADLOCK FALSE
