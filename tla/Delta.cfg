SPECIFICATION Spec
CONSTANTS
    Jobs <- MCJobs
    Word = 2
    MinBlockLen = 3
    MaxBlockLen = 3
    BlockAlign = 1
    MaxBlockCount = 10
    DataChunk = 3
    MaxDataCount = 2
    MaxRel = 1
    MaxRun = 4
INVARIANTS
    Reconstruction
    RollingInStep
    FailuresExplained
CHECK_DEADLOCK FALSE
