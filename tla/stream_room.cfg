SPECIFICATION Spec
CONSTANTS
    NumIds = 3
    ReqCap = 2
    C2SCap = 3
    S2CCap = 2
    Faults = TRUE
    Pushes = TRUE
INVARIANT TypeOK
INVARIANT IdsAccountedFor
INVARIANT NeverBlocked
