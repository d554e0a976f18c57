CONSTANTS
    Lower <- MCLower
    MAX_RECURSION_DEPTH = 3
    Builds <- MCBuilds
SPECIFICATION Spec
INVARIANTS
    ModulesReady
    ModuleWellFormed
    CallsBound
    UnitsLink
