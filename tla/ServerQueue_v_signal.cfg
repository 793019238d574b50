SPECIFICATION Spec
CONSTANTS
    r1 = r1
    r2 = r2
    r3 = r3
    Requests = {r1}
    NoRequest = NoRequest
    Main = Main
    NSlots = 1
    Invalid = {}
    IdleSleep = TRUE
    CanCancel = FALSE
    CanTerminate = TRUE
    SignalOnMain = TRUE
INVARIANT
    NoSelfDeadlock
CHECK_DEADLOCK FALSE
