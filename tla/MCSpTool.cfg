CONSTANTS
    Dirs = {"app", "lib", "base"}
    Names = {"a", "b"}
    Manifests <- MCManifests
    Versions <- MCVersions
    Outcome <- MCOutcome
    Terminals = {t1}
    Invocations <- MCInvocations
    EditAnytime = FALSE
    MaxEdits = 2
SPECIFICATION Spec
INVARIANTS
    RootsComplete
    BuildOkMeansCompiled
    RunAfterCompileIsCurrent
    TestJudgesOwn
