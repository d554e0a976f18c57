SPECIFICATION Spec
CONSTANTS
    c1 = c1
    c2 = c2
    c3 = c3
    Ctx = {c1,c2}
    NUM_CPUS = 2
    CpuOf <- Placement
    NUM_PAGES = 4
    STEAL_THRESHOLD = 0
    NULL = NULL
CHECK_DEADLOCK FALSE
SYMMETRY Symmetry
INVARIANTS
    OneHolder
    CountExact
    StealSound
PROPERTY
    ImplementsPool
