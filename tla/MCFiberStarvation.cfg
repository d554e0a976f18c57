SPECIFICATION FairSpec
CONSTANTS
    s1 = s1
    s2 = s2
    s3 = s3
    s4 = s4
    Slots = {s1, s2, s3}
    MAX_FIBERS = 3
    GROUP_BITS = 2
    L2_GROUPS = 3
    KSTACK = KSTACK
    NULL = NULL
    Workloads = {{}}
    SPAWN_RACE = TRUE
CHECK_DEADLOCK FALSE
PROPERTY
    EveryFiberServed
