SPECIFICATION FairSpec
CONSTANTS
    r1 = r1
    r2 = r2
    r3 = r3
    Requests = {r1, r2}
    NoRequest = NoRequest
    Main = Main
    NSlots = 1
    Invalid = {}
    IdleSleep = TRUE
    CanCancel = FALSE
    CanTerminate = FALSE
    SignalOnMain = FALSE
PROPERTY
    NewTaskReloads
CHECK_DEADLOCK FALSE
