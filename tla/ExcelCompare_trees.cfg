SPECIFICATION CompareSpec
CONSTANTS
    NumSuites = 2
    Cases = {"a", "b", "c"}
    Files = {"x", "y"}
    Books <- AllBooks
    Spaces <- MCSpaces
    Worlds <- MCWorlds
    Settings <- SnapSettings
    NoSize = NoSize
    Empty = Empty
INVARIANTS
    VerdictIsDeserved
    CasesAreAccounted
    SnapReportIsTrue
CHECK_DEADLOCK FALSE
