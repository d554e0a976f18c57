CONSTANTS
    Dirs = {"app", "lib", "base"}
    Names = {"a", "b"}
    Manifests <- StaleManifests
    Versions <- MCVersions
    Outcome <- MCOutcome
    Terminals = {t1}
    Invocations <- StaleInvocations
    EditAnytime = FALSE
    MaxEdits = 2
SPECIFICATION Spec
INVARIANT
    RunIsCurrent
