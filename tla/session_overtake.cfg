SPECIFICATION Spec
CONSTANTS
    NumCalls = 3
    Scripts <- MCScripts
    Window = 1
    Draws <- MCDraws
    t1 = t1
    t2 = t2
    NoTopic = NoTopic
    MaxU32 = 1
INVARIANT OwnEventsArrive
CHECK_DEADLOCK FALSE
