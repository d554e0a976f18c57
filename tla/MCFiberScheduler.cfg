SPECIFICATION Spec
CONSTANTS
    s1 = s1
    s2 = s2
    s3 = s3
    s4 = s4
    Slots = {s1, s2, s3, s4}
    MAX_FIBERS = 4
    GROUP_BITS = 3
    L2_GROUPS = 2
    KSTACK = KSTACK
    NULL = NULL
    Workloads = {{"fiber_exit"}, {"sched_yield"}}
    SPAWN_RACE = FALSE
SYMMETRY Symmetry
CHECK_DEADLOCK FALSE
INVARIANTS
    TypeOK
    TablesAgree
    SearchIsCyclic
    GuardsOnlyStacks
