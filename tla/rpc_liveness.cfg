SPECIFICATION FairSpec
CONSTANTS
    Calls = {c1, c2, c3}
    NoCall = NoCall
    MaxId = 1
    ReqCap = 1
    Faults = {"HandlerPanic", "LinkBreak"}
PROPERTY CallsResolve
PROPERTY IdsRecycled
CHECK_DEADLOCK FALSE
