SPECIFICATION Spec
CONSTANTS
    NumTests = 3
    NumSuites = 2
    Settings <- AllSettings
INVARIANTS
    FailedAreSaved
CHECK_DEADLOCK FALSE
