SPECIFICATION Spec
CONSTANTS
    s1 = s1
    s2 = s2
    s3 = s3
    s4 = s4
    Slots = {s1, s2, s3, s4}
    MAX_FIBERS = 4
    GROUP_BITS = 2
    L2_GROUPS = 3
    KSTACK = KSTACK
    NULL = NULL
    Workloads = {{"sched_yield"}}
    SPAWN_RACE = TRUE
SYMMETRY Symmetry
CHECK_DEADLOCK FALSE
INVARIANT
    ActiveStaysListed
