CONSTANTS
    Programs <- MCPrograms
    Lowerings = {"cfg", "linear", "state_fns"}
    Budget = 20
    CostCap = 40
SPECIFICATION Spec
INVARIANTS
    StepFollowsSource
    AssumesHold
    FrameKeepsLocals
    FirstPollWithinBound
PROPERTIES
    FirstPollReturns
CHECK_DEADLOCK FALSE
