SPECIFICATION MacroSpec
CONSTANTS
    t1 = t1
    t2 = t2
    Null = Null
    Threads = {t1}
    Words <- MCWords
    Names <- MCNames
    SystemValue <- MCSystemValue
    MapValue <- MCMapValue
    Args <- AllArgs
    MaxCalls = 3
    StackLimit = 4
PROPERTIES
    ImplementsPrivate
CHECK_DEADLOCK FALSE
