SPECIFICATION Spec
CONSTANTS
    Calls = {c1, c2, c3, c4}
    NoCall = NoCall
    MaxId = 1
    ReqCap = 2
    Faults = {"ClientEncode", "ClientCompress", "ServerDecode", "HandlerPanic", "ServerEncode", "ClientDecode", "OutputDecode", "LinkBreak"}
INVARIANT TypeOK
INVARIANT AnswerIntegrity
INVARIANT RequestAccepted
INVARIANT ResponseExpected
INVARIANT RetrySafe
INVARIANT PanicOnlyAfterDisconnect
INVARIANT ConnectionInv
PROPERTY ImplementsService
SYMMETRY CallSymmetry
CHECK_DEADLOCK FALSE
