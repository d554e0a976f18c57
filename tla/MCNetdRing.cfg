SPECIFICATION FairSpec
CONSTANTS
    DATA_CAPACITY = 8
    RADIX = 3
    Bytes = {0, 1, 2}
    MIN_FRAME = 0
    MAX_FRAME = 8
    PREEMPTIBLE = FALSE
    Frames <- RxFrames
    OFFERED = 5
CHECK_DEADLOCK FALSE
INVARIANTS
    StreamFramed
PROPERTIES
    ReturnsFrames
    AllDelivered
