SPECIFICATION Spec
CONSTANTS
    Files = 2
    Options <- AllOptions
    Faults = {"io"}
    MaxFaults = 1
INVARIANTS OnlyCompleteRenamed
CHECK_DEADLOCK FALSE
