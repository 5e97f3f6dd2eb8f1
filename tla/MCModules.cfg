CONSTANTS
    Modules <- MCModules
    Main <- MCMain
    Programs <- MCPrograms
    MaxAwaits = 1
    MaxImports = 1
    ImportsInSuspension = FALSE
SPECIFICATION FairSpec
\* The host returns.
CHECK_DEADLOCK FALSE
INVARIANTS
    TypeOK
    HeldUntilResumed
    ImportedInFull
PROPERTIES
    DependenciesFirst
    EvaluationEnds
