\* Three bytes in frames of two through a small network, with the lock contended.
CONSTANTS
    Length = 3
    MaxChunk = 2
    Wanted = {1, 3}
    WireSize = 4
SPECIFICATION Spec
CHECK_DEADLOCK FALSE
INVARIANTS ContentionOnlyDelays
