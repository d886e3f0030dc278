SPECIFICATION Spec
CONSTANTS
    Conns = {k1, k2}
    Topics = {t1, t2}
    NoSub = NoSub
    MaxOps = 3
    MaxEvents = 2
    Faults = {}
INVARIANT TypeOK
INVARIANT SwitchInv
INVARIANT SwitchAgrees
INVARIANT RoutedWithinOne
INVARIANT TopicsAlternate
PROPERTY ImplementsPubSub
SYMMETRY EventSymmetry
CHECK_DEADLOCK FALSE
