SPECIFICATION Spec
CONSTANTS
    r1 = r1
    r2 = r2
    r3 = r3
    Requests = {r1, r2}
    NoRequest = NoRequest
    Main = Main
    NSlots = 1
    Invalid = {}
    IdleSleep = FALSE
    CanCancel = TRUE
    CanTerminate = FALSE
    SignalOnMain = FALSE
INVARIANT
    CancelledTaskIsGone
CHECK_DEADLOCK FALSE
