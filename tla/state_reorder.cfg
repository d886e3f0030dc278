SPECIFICATION Spec
CONSTANTS
    NumFields = 1
    Values = {0, 1}
    Default = 0
    UpdateCap = 1
    MaxWrites = 2
    Runtimes = {"multi_thread"}
    Faults = {}
INVARIANT Synchronized
CHECK_DEADLOCK FALSE
