SPECIFICATION Spec
CONSTANTS
    DATA_CAPACITY = 3
    Bytes = {0, 1}
    WORD = 32
    Stray = {0}
    MAX_LEN = 4
    TOTAL = 8
CHECK_DEADLOCK FALSE
INVARIANTS
    CountersBounded
    WritesApart
PROPERTIES
    ImplementsFifo
