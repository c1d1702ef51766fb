SPECIFICATION FairSpec
CONSTANTS
    Files = 2
    MaxPhase = 2
    Options <- SupportedOptions
INVARIANTS TypeOK InStep LoopEndsComplete
PROPERTIES Completes
CHECK_DEADLOCK FALSE
