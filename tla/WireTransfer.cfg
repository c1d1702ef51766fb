SPECIFICATION FairSpec
CONSTANTS
    N = 5
    ChanCap = 2
    ReqCap = 1
    RespCap = 2
    BufCap = 2
    MaxTok = 2
    MaxPhase = 2
    Faults = {"sender", "receiver"}
INVARIANTS TypeOK ResponsePairing PipelineBound QueueOrder
PROPERTIES IsOrderedTransfer Terminates
CHECK_DEADLOCK FALSE
