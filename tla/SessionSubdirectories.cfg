SPECIFICATION FairSpec
CONSTANTS
    Files = 2
    MaxPhase = 2
    Options <- TwoSubdirectories
PROPERTIES Completes
CHECK_DEADLOCK FALSE
