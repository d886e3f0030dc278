SPECIFICATION Spec
CONSTANTS
    NumIds = 6
    ReqCap = 2
    C2SCap = 2
    S2CCap = 2
    Faults = FALSE
    Pushes = FALSE
INVARIANT AllIdsUsable
