SPECIFICATION Spec
CONSTANTS
    NumTests = 3
    NumSuites = 2
    Settings <- AllSettings
INVARIANTS
    ReportIsTrue
    ReportIsWhole
    OwnLogFiled
    WorkbookErrorSkips
    RowsHaveCauses
PROPERTIES
    EveryRowEnds
CHECK_DEADLOCK FALSE
