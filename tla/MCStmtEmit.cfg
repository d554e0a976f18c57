CONSTANTS
    Programs <- MCPrograms
    TRIPS = 2
    PRIVILEGED = TRUE
SPECIFICATION Spec
INVARIANTS
    EmittedRight
    AcceptedUsesSafe
    ReleasedOnce
    VerifierAssumesTruth
