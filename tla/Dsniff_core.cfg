SPECIFICATION Spec
CONSTANTS
    NoName = NoName
    Decodes <- Names
    Capacity <- Sizes
    XIDMAPSIZE = 2
    Xids = {1, 2, 3}
    Calls = {}
    MaxEntered = 0
    Buckets = {0, 1}
    HashOf <- Hashes
    Opt_snaplen = 3
    RawTimeout = 1
    TooLong <- LongTexts
    Setups <- AllSetups
    Streams <- Connections
    MaxChunk = 2
    MaxRestarts = 1
INVARIANTS
    TablesAreTrue
    SessionsAreKept
    RingHoldsTheLast
    DecodedOnce
    StreamsInOrder
PROPERTIES
    EveryStreamLeaves
CHECK_DEADLOCK FALSE
