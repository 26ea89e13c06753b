SPECIFICATION Spec
CONSTANTS
    u1 = u1
    u2 = u2
    u3 = u3
    Users = {u1, u2, u3}
    Script <- Sheets
    N = 3
    WaitLimit = 2
INVARIANTS
    GateNeedsUsers
    SerialCountsExact
PROPERTIES
    GateIsLeft
CHECK_DEADLOCK FALSE
