SPECIFICATION ToolsSpec
CONSTANTS
    Nibble = 16
    VALSIZE = 5
    TimeSize = 8
    Magicmax = 12
    DescSize = 3
    XIDMAPSIZE = 2
    Xids = {1, 2, 3, 4, 5}
    FH_MAP_SIZE = 2
    MaxCalls = 3
    MaxEntered = 0
    Calls = {}
    Traffics <- FilesTraffics
    Excluded = {"no"}
    Nothing = Nothing
    HttpSegment = 7
    Unmatched = {"no"}
    Displayed = {"/a", "/b", "login"}
    Logins = {"login"}
    Absent = Absent
    MaxWords = 17
    WordByte = 8
    MinWords = 3
    Call = 0
    Reply = 1
    MailSegment = 4
    ChatSegment = 8
    Unwanted = {"spam"}
    Unknown = Unknown
    Garbage = Garbage
    Nobody = Nobody
    Opt_lines = 4
    None = None
    Clients = {"webspy", "remote"}
    Finals = {2, 5}
    Setups <- RemoteSetups
    Wanted <- RemoteVersions
INVARIANTS
    SixIsDestroyed
CHECK_DEADLOCK FALSE
