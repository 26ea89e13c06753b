------------------------------- MODULE Filesnarf -------------------------------
(***************************************************************************)
(* filesnarf (filesnarf.c): the LOOKUP and READ calls of NFS clients and   *)
(* the servers' replies.  A name is kept with the file handle that the     *)
(* reply to its LOOKUP has, and what the reply to a READ of that handle    *)
(* carries is written to a file of that name.                              *)
(*                                                                         *)
(* The packets are seen in any order, more than once or not at all.  Two   *)
(* file handles are compared as a whole, and none is all zeroes.           *)
(***************************************************************************)
EXTENDS XidMap, FiniteSets

CONSTANTS
    FH_MAP_SIZE,    \* the number of slots for file handles, 128 in the source
    Traffics,       \* the packets there are to see, a set for each behaviour
    MaxCalls,       \* bound: calls entered
    Excluded,       \* the names that the pattern leaves out
    Nothing         \* NULL, and a slot of zeroes

ASSUME FilesAssumption ==
    /\ FH_MAP_SIZE \in Nat \ {0}
    /\ \A t \in Traffics : \A p \in t : p.xid \in Xids

VARIABLES
    traffic,        \* the packets of this behaviour
    fh_map,         \* [maps, next, hint]: fh_maps, fh_map_next, fh_map_hint
    saved,          \* what nfs_save has written
    spare,          \* whether the memory behind fh_maps, all zeroes, is nobody's
    broken,         \* somebody's memory behind fh_maps has been written
    seen            \* history: the packets seen

fvars == <<xid_map, entered, traffic, fh_map, saved, spare, broken, seen>>

\* The indices are one too many: the slot FH_MAP_SIZE is behind the array
FhSlots == 0 .. FH_MAP_SIZE

\* fh_map_init
EmptyFhMap == [maps |-> [i \in FhSlots |-> Nothing], next |-> 0, hint |-> 0]

\* The index after i
AfterFh(i) == IF i + 1 > FH_MAP_SIZE THEN 0 ELSE i + 1

\* fh_map_add
FhMapAdd(map, name, fh) ==
    [map EXCEPT !.maps[map.next] = [name |-> name, fh |-> fh], !.next = AfterFh(map.next)]

\* mutant: any slot that is in use will do
HoldingFhOfAny(map, fh) == {i \in FhSlots : map.maps[i] # Nothing}

HoldingFh(map, fh) == {i \in FhSlots : map.maps[i] # Nothing /\ map.maps[i].fh = fh}

\* fh_map_find: the first slot from the hint on, at which the hint then is; somebody
\* else's memory behind the array is no handle
FhMapFind(map, fh) ==
    LET distance(i) == IF i >= map.hint THEN i - map.hint ELSE i - map.hint + FH_MAP_SIZE + 1 IN
    CHOOSE i \in HoldingFh(map, fh) :
        \A j \in HoldingFh(map, fh) : distance(i) <= distance(j)

\* regex_match
RegexMatch(name) == name \notin Excluded

FilesInit ==
    /\ XidInit
    /\ traffic \in Traffics
    /\ fh_map = EmptyFhMap
    /\ saved = {}
    /\ spare \in BOOLEAN
    /\ broken = FALSE
    /\ seen = {}

\* decode_nfs is called for one more packet, of UDP or of a TCP record.  (What the
\* program does with somebody's memory written over is not followed.)
Sees(p) ==
    /\ ~broken
    /\ p.dir = "call" => Len(entered) < MaxCalls
    /\ seen' = seen \cup {p}
    /\ UNCHANGED <<traffic, spare>>

Enters(p, name, offset) ==
    LET call == [vers |-> p.vers, proc |-> p.proc, name |-> name, offset |-> offset] IN
    /\ xid_map' = XidMapEnter(xid_map, p.xid, call)
    /\ entered' = Append(entered, [xid |-> p.xid, call |-> call])

\* nfs2_call and nfs3_call, LOOKUP
LookupCall(p) ==
    /\ p.dir = "call"
    /\ p.proc = "lookup"
    /\ Sees(p)
    /\ IF RegexMatch(p.name) THEN Enters(p, p.name, 0) ELSE UNCHANGED <<xid_map, entered>>
    /\ UNCHANGED <<fh_map, saved, broken>>

\* nfs2_call and nfs3_call, READ
ReadCall(p) ==
    /\ p.dir = "call"
    /\ p.proc = "read"
    /\ Sees(p)
    /\ IF HoldingFh(fh_map, p.fh) = {} THEN UNCHANGED <<xid_map, entered, fh_map>>
       ELSE LET i == FhMapFind(fh_map, p.fh) IN
            /\ Enters(p, fh_map.maps[i].name, p.offset)
            /\ fh_map' = [fh_map EXCEPT !.hint = i]
    /\ UNCHANGED <<saved, broken>>

\* nfs2_reply and nfs3_reply, LOOKUP: the name and its handle, in a slot that may be
\* the one behind the array, or may have been taken in an earlier round
LookupReply(call, p) ==
    /\ call.proc = "lookup"
    /\ IF ~p.ok \/ p.proc # "lookup" THEN UNCHANGED <<fh_map, broken>>
       ELSE IF fh_map.next = FH_MAP_SIZE /\ ~spare THEN broken' = TRUE /\ UNCHANGED fh_map
       ELSE fh_map' = FhMapAdd(fh_map, call.name, p.fh) /\ UNCHANGED broken
    /\ UNCHANGED saved

\* nfs2_reply and nfs3_reply, READ: nfs_save
ReadReply(call, p) ==
    /\ call.proc = "read"
    /\ saved' = IF p.ok /\ p.proc = "read"
                THEN saved \cup {[name |-> call.name, offset |-> call.offset, data |-> p.data]}
                ELSE saved
    /\ UNCHANGED <<fh_map, broken>>

\* decode_nfs, a reply: one that was not accepted leaves the call where it is;
\* the slot of an answered call is cleared
DecodeReply(p) ==
    /\ p.dir = "reply"
    /\ Sees(p)
    /\ IF Holding(xid_map, p.xid) = {} THEN UNCHANGED <<xid_map, fh_map, saved, broken>>
       ELSE LET i == Found(xid_map, p.xid)
                call == xid_map.maps[i].call
            IN
            IF ~p.accepted
            THEN xid_map' = [xid_map EXCEPT !.hint = i] /\ UNCHANGED <<fh_map, saved, broken>>
            ELSE /\ xid_map' = XidMapAnswer(xid_map, p.xid)
                 /\ LookupReply(call, p) \/ ReadReply(call, p)
    /\ UNCHANGED entered

FilesNext == \E p \in traffic : LookupCall(p) \/ ReadCall(p) \/ DecodeReply(p)

FilesSpec == FilesInit /\ [][FilesNext]_fvars

-----------------------------------------------------------------------------
\* What is written to a file was read from the file of that name at that offset:
\* a LOOKUP of the name, its reply with the handle, a READ of the handle and its
\* reply were all seen.  The order, the loss and the repetition of packets do not
\* matter, and neither does the wrap of both rings, where the slot behind the array
\* is nobody's memory; where it is somebody's, this holds until it is written.  A
\* reply is known by its xid alone: of two calls with one xid it answers the one found.
SavedIsRead ==
    \A s \in saved : \E a, b, c, d \in seen :
        /\ a.dir = "call" /\ a.proc = "lookup" /\ a.name = s.name
        /\ b.dir = "reply" /\ b.xid = a.xid
        /\ c.dir = "call" /\ c.proc = "read" /\ c.fh = b.fh /\ c.offset = s.offset
        /\ d.dir = "reply" /\ d.xid = c.xid /\ d.data = s.data
=============================================================================
