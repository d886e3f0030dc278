SPECIFICATION FairSpec
CONSTANTS
    NumFields = 2
    Values = {0, 1}
    Default = 0
    UpdateCap = 2
    MaxWrites = 4
    Runtimes = {"current_thread", "multi_thread"}
    Faults = {"Send", "Decode"}
INVARIANT TypeOK
INVARIANT ClientIsPastState
INVARIANT UnspoiledFieldsAgree
INVARIANT FieldProvenance
PROPERTY Converges
CHECK_DEADLOCK FALSE
