SPECIFICATION TestCaseSpec
CONSTANTS
    Workers = {w1}
    Tests = {t1, t2, t3}
    NumClasses = 3
    Coverages <- AnyThree
    Orders <- JavaOrders
    WindowTests = {t1, t2}
    Threads = 1
    MaxWindows = 3
    ExportTests = {"t1", "t2"}
    ExportSetups <- AllSetups
    NoFile = NoFile
INVARIANTS
    CoverageIsTrue
    NothingLeftOpen
    ExportIsOwn
PROPERTIES
    PassedHandsNothingOn
    ExportReturns
CHECK_DEADLOCK FALSE
