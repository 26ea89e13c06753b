SPECIFICATION Spec
CONSTANTS
    Titles = {"A", "B", "Sheet1"}
    Sources <- SomeSources
    Cases = {"c1", "c2", "c3"}
    Path = "path"
    Null = ""
    Default = "Sheet1"
    Limits = {0, 2, 5}
    MaxRuns = 2
    Crashes = TRUE
INVARIANTS
    BooksHoldResults
PROPERTIES
    RerunIsWhatFailed
CHECK_DEADLOCK FALSE
