-------------------------------- MODULE MCTools --------------------------------
(***************************************************************************)
(* The programs of dsniff beside dsniff itself, and what they are built    *)
(* of.  They share a library and no state: a behaviour is of one of them,  *)
(* and the variables of the others keep a value that means nothing.        *)
(***************************************************************************)
EXTENDS Remote, Filesnarf, TLC

CONSTANTS
    VALSIZE, TimeSize, Magicmax, DescSize,          \* Magic
    Unmatched, Displayed, Logins, Absent,           \* HttpRequests
    MaxWords, MinWords, Call, Reply,                \* RpcRecord
    Unwanted, Unknown, Garbage,                     \* Mailsnarf and Msgsnarf
    Opt_lines, None,                                \* Logins
    Nibble,                                         \* the values of a byte in Magic
    WordByte,                                       \* the values of a byte in RpcRecord
    MailSegment, HttpSegment, ChatSegment           \* bounds of what arrives at once

VARIABLES
    tool,
    table, lines, place, asked, found, origin,                                  \* Magic
    session, turn, msent, mdata, state, from, mstate, printed,                  \* Mailsnarf
    visit, hsent, hdata, hstate, reported,                                      \* HttpRequests
    wire, arrived, buf, decoded, closed, spoiled,                               \* RpcRecord
    chat, client_list, conn, csent, cdata, cprinted, crashed, log,              \* Msgsnarf
    typed, typedsent, shown, taken                                              \* Logins

magicvars == <<table, lines, place, asked, found, origin>>
mailvars == <<session, turn, msent, mdata, state, from, mstate, printed>>
httpvars == <<visit, hsent, hdata, hstate, reported>>
rpcvars == <<wire, arrived, buf, decoded, closed, spoiled>>
chatvars == <<chat, client_list, conn, csent, cdata, cprinted, crashed, log>>
loginvars == <<typed, typedsent, shown, taken>>

MagicData == INSTANCE MCMagic WITH Magic <- table, pc <- place, Base <- Nibble, CodeOf <- <<>>, Files <- {}, Packets <- {}
MagicCodes == MagicData!Codes
MagicTables == INSTANCE MCMagic WITH Magic <- table, pc <- place, Base <- Nibble, CodeOf <- MagicCodes, Files <- {}, Packets <- {}
MagicFiles == MagicTables!AllFiles
MagicPackets == MagicTables!AllPackets
M == INSTANCE Magic WITH Magic <- table, pc <- place, Base <- Nibble, CodeOf <- MagicCodes, Files <- MagicFiles, Packets <- MagicPackets

SessionData == INSTANCE MCSessions

MailSessions == SessionData!AllSessions
Mail == INSTANCE Mailsnarf WITH sent <- msent, data <- mdata, nids_state <- mstate,
            Sessions <- MailSessions, MaxSegment <- MailSegment

FilesTraffics == SessionData!AllTraffics

HttpVisits == SessionData!AllVisits
Http == INSTANCE HttpRequests WITH sent <- hsent, data <- hdata, nids_state <- hstate,
            Visits <- HttpVisits, MaxSegment <- HttpSegment

RpcWires == SessionData!AllWires
Rpc == INSTANCE RpcRecord WITH Wires <- RpcWires, ByteBase <- WordByte

ChatChats == SessionData!AllChats
Chat == INSTANCE Msgsnarf WITH sent <- csent, data <- cdata, printed <- cprinted,
            Chats <- ChatChats, MaxSegment <- ChatSegment

LoginsTyped == SessionData!AllTyped
Log == INSTANCE Logins WITH sent <- typedsent, reported <- shown, Typed <- LoginsTyped

RemoteSetups == SessionData!OneOrTwo
RemoteVersions == SessionData!Versions

-----------------------------------------------------------------------------
Off == "off"

MagicOff ==
    /\ table = Off /\ lines = Off /\ place = Off /\ asked = Off /\ found = Off /\ origin = Off

MailOff ==
    /\ session = Off /\ turn = Off /\ msent = Off /\ mdata = Off /\ state = Off /\ from = Off
    /\ mstate = Off /\ printed = Off

\* No packet to see, and nothing saved
FilesOff ==
    /\ xid_map = Off /\ entered = Off /\ traffic = {} /\ fh_map = Off /\ saved = {}
    /\ spare = FALSE /\ broken = FALSE /\ seen = {}

HttpOff ==
    /\ visit = Off /\ hsent = Off /\ hdata = Off /\ hstate = Off /\ reported = Off

RpcOff ==
    /\ wire = Off /\ arrived = Off /\ buf = Off /\ decoded = Off /\ closed = Off /\ spoiled = Off

ChatOff ==
    /\ chat = Off /\ client_list = Off /\ conn = Off /\ csent = Off /\ cdata = Off /\ cprinted = Off
    /\ crashed = Off /\ log = Off

LoginsOff == typed = Off /\ typedsent = Off /\ shown = Off /\ taken = Off

\* No window and no client left: fairness asks nothing of it
RemoteOff ==
    /\ setup = Off /\ alive = {} /\ lock = Off /\ command = Off /\ working = Off /\ response = Off
    /\ selected = Off /\ queue = Off /\ pc = [c \in Clients |-> "gone"]
    /\ window = Off /\ status = [c \in Clients |-> 0] /\ call = Off /\ crossed = FALSE /\ preliminary = 0 /\ crashes = 0

Tools == {"magic", "mail", "files", "http", "rpc", "chat", "logins", "remote"}

Starts(t, init, off) == IF tool = t THEN init ELSE off

ToolsInit ==
    /\ tool \in Tools
    /\ Starts("magic", M!Init, MagicOff)
    /\ Starts("mail", Mail!Init, MailOff)
    /\ Starts("files", FilesInit, FilesOff)
    /\ Starts("http", Http!HttpInit, HttpOff)
    /\ Starts("rpc", Rpc!RpcInit, RpcOff)
    /\ Starts("chat", Chat!MsgInit, ChatOff)
    /\ Starts("logins", Log!LoginsInit, LoginsOff)
    /\ Starts("remote", RemoteInit, RemoteOff)

MagicNext ==
    /\ tool = "magic" /\ M!Next
    /\ UNCHANGED <<tool, mailvars, fvars, httpvars, rpcvars, chatvars, loginvars, remotevars>>

MailNext ==
    /\ tool = "mail" /\ Mail!Next
    /\ UNCHANGED <<tool, magicvars, fvars, httpvars, rpcvars, chatvars, loginvars, remotevars>>

FilesnarfNext ==
    /\ tool = "files" /\ FilesNext
    /\ UNCHANGED <<tool, magicvars, mailvars, httpvars, rpcvars, chatvars, loginvars, remotevars>>

HttpNext ==
    /\ tool = "http" /\ Http!HttpNext
    /\ UNCHANGED <<tool, magicvars, mailvars, fvars, rpcvars, chatvars, loginvars, remotevars>>

RpcNext ==
    /\ tool = "rpc" /\ Rpc!RpcNext
    /\ UNCHANGED <<tool, magicvars, mailvars, fvars, httpvars, chatvars, loginvars, remotevars>>

ChatNext ==
    /\ tool = "chat" /\ Chat!MsgNext
    /\ UNCHANGED <<tool, magicvars, mailvars, fvars, httpvars, rpcvars, loginvars, remotevars>>

LoginsNext ==
    /\ tool = "logins" /\ Log!LoginsNext
    /\ UNCHANGED <<tool, magicvars, mailvars, fvars, httpvars, rpcvars, chatvars, remotevars>>

RemotesNext ==
    /\ tool = "remote" /\ RemoteNext
    /\ UNCHANGED <<tool, magicvars, mailvars, fvars, httpvars, rpcvars, chatvars, loginvars>>

ToolsNext ==
    \/ MagicNext \/ MailNext \/ FilesnarfNext \/ HttpNext \/ RpcNext \/ ChatNext \/ LoginsNext \/ RemotesNext

toolsvars == <<tool, magicvars, mailvars, fvars, httpvars, rpcvars, chatvars, loginvars, remotevars>>

ToolsSpec == ToolsInit /\ [][ToolsNext]_toolsvars /\ RemoteFairness

-----------------------------------------------------------------------------
(* The properties of the tools, each stated in the module of its tool        *)

MagicIsUnderstood == tool = "magic" => M!MagicIsUnderstood
MailIsWhole == tool = "mail" => Mail!MailIsWhole
RequestsReported == tool = "http" => Http!RequestsReported
RecordsOnce == tool = "rpc" => Rpc!RecordsOnce
MessagesAreTrue == tool = "chat" => Chat!MessagesAreTrue
LoginsAreShown == tool = "logins" => Log!LoginsAreShown
=============================================================================
