CONSTANTS
    Programs <- LiftPrograms
    Lowerings = {"cfg"}
    Budget = 20
    CostCap = 40
SPECIFICATION Spec
INVARIANT
    LiveVariablesLifted
CHECK_DEADLOCK FALSE
