\* Two ends of a multiplexed connection over a network smaller than a frame.
CONSTANTS
    Scripts <- MCScripts
    BufSize = 14
    DataChunk = 4
    PipeSize = 5
SPECIFICATION FairSpec
CHECK_DEADLOCK FALSE
INVARIANTS TypeOK IndicesInStep
PROPERTIES IsByteStream Completes
