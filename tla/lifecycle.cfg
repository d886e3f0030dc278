SPECIFICATION EventsSpec
CONSTANTS
    MaxSessions = 3
    Receivers = {r1}
    Cap = 1
    MaxEvents = 2
INVARIANT NoOrphanSession
INVARIANT DeadChannelOnlyAfterDisconnect
INVARIANT LifecycleInv
INVARIANT LossAccounted
INVARIANT DeafOnlyWhileHeld
PROPERTY ConnectReturns
PROPERTY SessionsEnd
PROPERTY ReceiversTold
CHECK_DEADLOCK FALSE
