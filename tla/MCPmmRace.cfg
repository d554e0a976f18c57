SPECIFICATION Spec
CONSTANTS
    c1 = c1
    c2 = c2
    c3 = c3
    Ctx = {c1,c3}
    NUM_CPUS = 2
    CpuOf <- Placement
    NUM_PAGES = 4
    STEAL_THRESHOLD = 1
    NULL = NULL
CHECK_DEADLOCK FALSE
INVARIANT
    NoDoubleAllocation
