SPECIFICATION Spec
CONSTANTS
    c1 = c1
    c2 = c2
    Ctx = {c1, c2}
    NUM_CPUS = 2
    MAX_SLOTS = 4
    CpuOf <- LastCore
    NULL = NULL
    INT_MAX = 3
    FRESH_BOUND = 3
    GEN_BOUND = 6
SYMMETRY Symmetry
CHECK_DEADLOCK FALSE
INVARIANTS
    TypeOK
    ExclusiveOwnership
    LinksWellFormed
    CasSound
    Conservation
    ChainIsList
PROPERTY
    ImplementsPool
