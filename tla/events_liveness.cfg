SPECIFICATION FairSpec
CONSTANTS
    Conns = {k1, k2}
    Topics = {t1}
    NoSub = NoSub
    MaxOps = 3
    MaxEvents = 1
    Faults = {"ConnectionTask", "SwitchTask"}
INVARIANT SwitchAgrees
PROPERTY SubscriptionTakesEffect
PROPERTY EventsArrive
CHECK_DEADLOCK FALSE
