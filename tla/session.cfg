SPECIFICATION FairSpec
CONSTANTS
    NumCalls = 3
    Scripts <- MCScripts
    Window = 2
    Draws <- MCDraws
    t1 = t1
    t2 = t2
    NoTopic = NoTopic
    MaxU32 = 1
INVARIANT EventsTellTheCounter
INVARIANT SubscribedToItsCounter
PROPERTY PollEnds
PROPERTY CallsAnswered
PROPERTY CreatorIsGreeted
CHECK_DEADLOCK FALSE
