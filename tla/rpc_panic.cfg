SPECIFICATION FairSpec
CONSTANTS
    Calls = {c1, c2}
    NoCall = NoCall
    MaxId = 1
    ReqCap = 1
    Faults = {"HandlerPanic"}
PROPERTY PanicReported
CHECK_DEADLOCK FALSE
