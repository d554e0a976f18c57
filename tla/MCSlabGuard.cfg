SPECIFICATION Spec
CONSTANTS
    c1 = c1
    c2 = c2
    Ctx = {c1, c2}
    NUM_CPUS = 1
    MAX_SLOTS = 2
    CpuOf <- LastCore
    NULL = NULL
    INT_MAX = 3
    FRESH_BOUND = 3
    GEN_BOUND = 6
CHECK_DEADLOCK FALSE
INVARIANT
    LinkReadsMapped
