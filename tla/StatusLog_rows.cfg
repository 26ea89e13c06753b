SPECIFICATION Spec
CONSTANTS
    NumRows = 2
    Outcomes <- MCOutcomes
    Settings <- SerialAndParallel
    MaxTries = 2
    Flaky = TRUE
    MaxEntries = 2
INVARIANTS
    TableIsTrue
PROPERTIES
    StatusIsTheRows
    ListenerReturns
CHECK_DEADLOCK FALSE
