SPECIFICATION FairSpec
CONSTANTS
    r1 = r1
    r2 = r2
    r3 = r3
    Requests = {r1}
    NoRequest = NoRequest
    Main = Main
    NSlots = 1
    Invalid = {}
    IdleSleep = FALSE
    CanCancel = FALSE
    CanTerminate = TRUE
    SignalOnMain = FALSE
PROPERTY
    TerminateStops
CHECK_DEADLOCK FALSE
