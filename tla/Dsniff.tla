-------------------------------- MODULE Dsniff --------------------------------
(***************************************************************************)
(* dsniff as a whole: the options and tables it starts with (dsniff.c),    *)
(* the packets and TCP events it is called back for (trigger.c), the       *)
(* half-duplex streams it reassembles and times out (tcp_raw.c), the calls *)
(* and replies through which it learns the ports of RPC programs           *)
(* (decode_portmap.c, decode_mountd.c, decode_yp.c, rpc.c) and the         *)
(* sessions it prints or saves (record.c).                                 *)
(*                                                                         *)
(* A packet is handled in one step.  The loops over the trigger files and  *)
(* over the timed out streams are one step per turn.  What a decoder finds *)
(* in a packet of its own service is the packet's text; it finds nothing   *)
(* in a packet of another service.                                         *)
(***************************************************************************)
EXTENDS Trigger, XidMap, TcpRaw, Record

CONSTANTS
    Setups,         \* what dsniff may be started with, see Setup
    Streams,        \* Streams[s]: the TCP connections libnids follows
    MaxChunk,       \* bound: bytes that arrive at once in a connection
    MaxRestarts     \* bound: starts after the first

(* A setup: opt, the options -c -m -w (client, magic, write); list, the -t *)
(* triggers; services, the lines of the services file; packets and streams, *)
(* what is on the wire; bound, how many packets and events come; paddings,  *)
(* what may be left in the padding of a struct tha on the stack.            *)

ASSUME DsniffAssumption ==
    /\ \A su \in Setups :
          /\ su.streams \subseteq DOMAIN Streams
          /\ su.list \in Seq(Range(su.list))
          /\ su.services \in Seq(Range(su.services))
          /\ \A p \in su.packets :
                p.kind = "seg" => p.seq \in Nat /\ p.dport \in DOMAIN HashOf
    /\ MaxChunk \in Nat

VARIABLES
    setup,          \* the setup of this run
    pc,             \* "load", "run", "sweep" in tcp_raw_timeout, or "stopped"
    todo,           \* the triggers still to load, those of -t first ...
    reload,         \* ... and then the lines of a dumped services file
    streams,        \* streams[s]: the state of libnids' tcp_stream
    alarm,          \* seconds until SIGALRM
    st,             \* the pointer st of trigger_tcp, see Pointer
    place,          \* <<b, i>>: the chain and the place in it tcp_raw_timeout is at
    dump,           \* the dsniff.services that the last SIGHUP has written
    packets,        \* how many packets have been handled
    starts,         \* how often dsniff has been restarted
    heard,          \* history: the sessions decoded
    printed,        \* history: the sessions printed
    replied,        \* history: the portmap replies and the services identified
    handed,         \* history: the raw streams handed to a decoder
    knew            \* history: the triggers at the last SIGHUP

netVars == <<streams, conntab, alarm, place, handed>>
outVars == <<db, heard, printed>>
learnVars == <<triggers, xid_map, entered, replied>>
runVars == <<setup, pc, st, todo, reload, dump, starts, knew>>
vars == <<netVars, outVars, learnVars, runVars, packets>>

NoText == <<>>
NoTriggers == [p \in Protos |-> {}]
Half == [collect |-> 0, count |-> 0, offset |-> 0, times |-> 0]
Unseen == [state |-> "none", server |-> Half, client |-> Half]

Init ==
    /\ setup \in Setups
    /\ pc = "load"
    /\ todo = setup.list \o setup.services
    /\ reload = {}
    /\ triggers = NoTriggers
    /\ conntab = [b \in Buckets |-> <<>>]
    /\ xid_map = EmptyMap
    /\ entered = <<>>
    /\ db = {}
    /\ streams = [s \in DOMAIN Streams |-> Unseen]
    /\ alarm = RawTimeout
    /\ place = <<0, 1>>
    /\ st = 0
    /\ dump = {}
    /\ packets = 0
    /\ starts = 0
    /\ heard = {}
    /\ printed = {}
    /\ replied = {}
    /\ handed = {}
    /\ knew = NoTriggers

\* trigger_init_list and trigger_init_services: one entry.  The order of the lines
\* of a dump does not matter: each has its own number, and they all fitted.
LoadTrigger ==
    LET entry == IF todo # <<>> THEN Head(todo) ELSE CHOOSE line \in reload : TRUE IN
    /\ pc = "load"
    /\ todo # <<>> \/ reload # {}
    /\ triggers' = TriggerSet(triggers, entry.proto, entry.num, entry.name)
    /\ IF todo # <<>> THEN todo' = Tail(todo) /\ UNCHANGED reload
       ELSE reload' = reload \ {entry} /\ UNCHANGED todo
    /\ UNCHANGED <<netVars, outVars, xid_map, entered, replied,
                   setup, pc, st, dump, starts, knew, packets>>

\* nids_run
StartListening ==
    /\ pc = "load"
    /\ todo = <<>>
    /\ reload = {}
    /\ pc' = "run"
    /\ UNCHANGED <<netVars, outVars, learnVars, setup, st, todo, reload, dump, starts, knew, packets>>

-----------------------------------------------------------------------------
(* What the decoders find and learn                                        *)

\* magic_match on the data: the service it is recognised as
MagicMatch(load) == IF setup.opt.magic THEN load.magic ELSE NoName

RpcServices == {"portmap", "mountd", "ypserv"}

\* rpc_decode: the data is a call or a reply.  No client uses the xid 0, which is that
\* of a cleared slot: it is not in Xids.
RpcMessage(load, dir) == load.svc \in RpcServices /\ load.dir = dir /\ load.xid \in Xids

\* The state a decoder leaves: what it has found and learned
Finding(table, map, calls, text) ==
    [triggers |-> table, xid_map |-> map, entered |-> calls, text |-> text]

\* A call is kept until its reply comes
Asks(table, load, call) ==
    Finding(table, XidMapEnter(xid_map, load.xid, call),
            Append(entered, [xid |-> load.xid, call |-> call]), NoText)

\* What is read in place of the data of a call of another program: any program
Misread == {[prog |-> "portmap", program |-> t.num, proto |-> p, dir |-> NoText] :
                t \in triggers["rpc"], p \in {"udp", "tcp"}}

\* What the reply's decoder reads in the slot it has found
Read(prog, xid) ==
    LET call == xid_map.maps[Found(xid_map, xid)].call IN
    IF call.prog = prog THEN {call} ELSE Misread

\* decode_portmap: the port a program has got, for its requests and its answers
DecodePortmap(table, load) ==
    LET learns(call) ==
            TriggerRpc(TriggerRpc(table, call.program, call.proto, load.port),
                       call.program, call.proto, 0 - load.port)
    IN
    IF load.svc = "portmap" /\ RpcMessage(load, "call")
    THEN {Asks(table, load, [prog |-> "portmap", program |-> load.program,
                             proto |-> load.proto, dir |-> NoText])}
    ELSE IF RpcMessage(load, "reply") /\ Holding(xid_map, load.xid) # {}
    THEN {Finding(IF load.ok THEN learns(call) ELSE table,
                  XidMapAnswer(xid_map, load.xid), entered, NoText) :
            call \in Read("portmap", load.xid)}
    ELSE {Finding(table, xid_map, entered, NoText)}

\* decode_mountd and decode_ypserv: the name asked for, when it was granted
DecodeGranted(prog, table, load) ==
    IF load.svc = prog /\ RpcMessage(load, "call")
    THEN {Asks(table, load, [prog |-> prog, program |-> 0, proto |-> "none", dir |-> load.text])}
    ELSE IF RpcMessage(load, "reply") /\ Holding(xid_map, load.xid) # {}
    THEN {Finding(table, XidMapAnswer(xid_map, load.xid), entered,
                  IF load.ok THEN call.dir ELSE NoText) : call \in Read(prog, load.xid)}
    ELSE {Finding(table, xid_map, entered, NoText)}

\* The decoder name on the data, with the triggers as they are after magic
Decode(name, table, load) ==
    IF name = "portmap" THEN DecodePortmap(table, load)
    ELSE IF name \in {"mountd", "ypserv"} THEN DecodeGranted(name, table, load)
    ELSE {Finding(table, xid_map, entered, IF name = load.svc THEN load.text ELSE NoText)}

Session(src, dst, sport, dport, name, text) ==
    [src |-> src, dst |-> dst, sport |-> sport, dport |-> dport, name |-> name, data |-> text]

\* record, when the decoder has found something
Records(rec) ==
    IF rec.data = NoText THEN UNCHANGED outVars
    ELSE /\ db' = RecordSave(db, rec)
         /\ heard' = heard \cup {rec}
         /\ printed' = IF PrintsWhenHeard([read |-> FALSE, write |-> setup.opt.write])
                       THEN printed \cup {rec} ELSE printed

Learns(found) ==
    /\ triggers' = found.triggers
    /\ xid_map' = found.xid_map
    /\ entered' = found.entered

\* What a history keeps of the data: a reply that a port can be learned from, and the
\* service that magic has named
Answered(load) ==
    IF RpcMessage(load, "reply")
    THEN {[xid |-> load.xid, port |-> load.port, magic |-> NoName]} ELSE {}

Identified(load) ==
    IF MagicMatch(load) = NoName THEN {} ELSE {[xid |-> 0, port |-> 0, magic |-> MagicMatch(load)]}

Hears(load) == replied' = replied \cup Answered(load) \cup Identified(load)

\* nids_run calls back for one more packet
Handled ==
    /\ pc = "run"
    /\ packets < setup.bound
    /\ packets' = packets + 1

-----------------------------------------------------------------------------
(* Packets                                                                 *)

\* trigger_ip: the protocols that are not UDP or TCP
TriggerIp(p) ==
    /\ Handled
    /\ p.kind = "ip"
    /\ LET name == Lookup(triggers, "ip", p.proto) IN
       IF name = NoName THEN UNCHANGED <<outVars, learnVars>>
       ELSE \E found \in Decode(name, triggers, p.load) :
                /\ Learns(found)
                /\ Records(Session(p.src, p.dst, 0, 0, name, found.text))
                /\ replied' = replied \cup Answered(p.load)
    /\ UNCHANGED <<netVars, runVars>>

\* The decoder of a packet: that of its destination port, that of the answers
\* of its source port, or the one magic finds now; and the table after it
Chosen(table, p, sport, dport, load) ==
    LET asked == Lookup(table, p, dport)
        answered == Lookup(table, p, 0 - sport)
        learned == TriggerSetMagic(table, p, dport, MagicMatch(load))
    IN
    IF asked # NoName THEN [name |-> asked, triggers |-> table]
    ELSE IF answered # NoName THEN [name |-> answered, triggers |-> table]
    ELSE IF MagicMatch(load) = NoName THEN [name |-> NoName, triggers |-> table]
    ELSE [name |-> Lookup(learned, p, dport), triggers |-> learned]

\* trigger_udp: sane is that the lengths of the headers agree
TriggerUdp(p) ==
    /\ Handled
    /\ p.kind = "udp"
    /\ LET chosen == Chosen(triggers, "udp", p.sport, p.dport, p.load) IN
       IF ~p.sane THEN UNCHANGED <<outVars, learnVars>>
       ELSE IF chosen.name = NoName
       THEN /\ triggers' = chosen.triggers
            /\ Hears(p.load)
            /\ UNCHANGED <<outVars, xid_map, entered>>
       ELSE \E found \in Decode(chosen.name, chosen.triggers, p.load) :
                /\ Learns(found)
                /\ Records(Session(p.src, p.dst, p.sport, p.dport, chosen.name, found.text))
                /\ Hears(p.load)
    /\ UNCHANGED <<netVars, runVars>>

-----------------------------------------------------------------------------
(* TCP connections that libnids follows                                    *)

\* The decoders of a connection's requests and of its answers
Requests(s) == Lookup(triggers, "tcp", Streams[s].dest)
Answers(s) == Lookup(triggers, "tcp", 0 - Streams[s].dest)

Watched(s) == Requests(s) # NoName \/ setup.opt.magic

\* trigger_tcp, NIDS_JUST_EST
TcpEstablished(s) ==
    /\ Handled
    /\ ~setup.opt.client
    /\ streams[s].state = "none"
    /\ streams' = [streams EXCEPT ![s] =
            [state |-> "open",
             server |-> [Half EXCEPT !.collect = IF Watched(s) THEN 1 ELSE 0],
             client |-> [Half EXCEPT !.collect = IF Answers(s) = NoName THEN 0 ELSE 1]]]
    /\ UNCHANGED <<outVars, learnVars, runVars, conntab, alarm, place, handed>>

\* mutant: the collecting goes on
TakenOn(half) == [half EXCEPT !.offset = half.count, !.times = half.times + 1]

\* A half stream after a callback with trigger_tcp_half: all of it is read, unless
\* nids_discard(ts, 0), and the collecting has been stopped
Taken(half) == [half EXCEPT !.offset = half.count, !.times = half.times + 1, !.collect = 0]

\* trigger_tcp_half: the decoder name, or the one magic finds, on the bytes
TriggerTcpHalf(s, name, load) ==
    LET table == TriggerSetMagic(triggers, "tcp", Streams[s].dest, MagicMatch(load))
        chosen == IF name # NoName \/ MagicMatch(load) = NoName
                  THEN [name |-> name, triggers |-> triggers]
                  ELSE [name |-> Lookup(table, "tcp", Streams[s].dest), triggers |-> table]
    IN
    /\ Hears(load)
    /\ IF chosen.name = NoName
       THEN /\ triggers' = chosen.triggers
            /\ UNCHANGED <<outVars, xid_map, entered>>
       ELSE \E found \in Decode(chosen.name, chosen.triggers, load) :
                /\ Learns(found)
                /\ Records(Session(Streams[s].saddr, Streams[s].daddr,
                                   Streams[s].source, Streams[s].dest, chosen.name, found.text))

\* trigger_tcp, NIDS_DATA: n new bytes in one direction
TcpData(s, dir, n) ==
    LET half == [streams[s][dir] EXCEPT !.count = @ + n]
        name == IF dir = "server" THEN Requests(s) ELSE Answers(s)
    IN
    /\ Handled
    /\ streams[s].state = "open"
    /\ half.collect = 1
    /\ IF half.count - half.offset >= Opt_snaplen
       THEN /\ TriggerTcpHalf(s, name, Streams[s][dir])
            /\ streams' = [streams EXCEPT ![s][dir] = Taken(half)]
       ELSE /\ UNCHANGED <<outVars, learnVars>>
            /\ streams' = [streams EXCEPT ![s][dir] = half]
    /\ UNCHANGED <<runVars, conntab, alarm, place, handed>>

\* Whether trigger_tcp_half has bytes to decode
Unread(half) == half.count - half.offset > 0

HalfEnds(s, dir, name, state) ==
    IF Unread(streams[s][dir])
    THEN /\ TriggerTcpHalf(s, name, Streams[s][dir])
         /\ streams' = [streams EXCEPT ![s][dir] = Taken(@), ![s].state = state]
    ELSE /\ streams' = [streams EXCEPT ![s].state = state]
         /\ UNCHANGED <<outVars, learnVars>>

\* trigger_tcp, the connection has ended: both triggers are looked up and what is
\* unread of the requests is decoded, ...
TcpClosed(s) ==
    /\ Handled
    /\ streams[s].state = "open"
    /\ HalfEnds(s, "server", Requests(s), "closing")
    /\ st' = Pointer(triggers, "tcp", 0 - Streams[s].dest)
    /\ pc' = "close"
    /\ UNCHANGED <<setup, todo, reload, dump, starts, knew, conntab, alarm, place, handed>>

\* ... and, in the same callback, of the answers, by what st points at after a number
\* learned from the requests has moved the triggers
TcpClosedAnswers(s) ==
    /\ pc = "close"
    /\ streams[s].state = "closing"
    /\ HalfEnds(s, "client", Pointed(triggers, "tcp", st), "closed")
    /\ pc' = "run"
    /\ st' = 0
    /\ UNCHANGED <<setup, todo, reload, dump, starts, knew, conntab, alarm, place, handed, packets>>

-----------------------------------------------------------------------------
(* Half-duplex reassembly                                                  *)

\* The data of a reassembled stream
Joined(iov) ==
    [iov[1].load EXCEPT !.text = FlattenSeq([i \in DOMAIN iov |-> iov[i].load.text])]

\* The stream goes to the chosen decoder, and what is found is of the ports in from
HandOver(from, chosen, iov) ==
    /\ handed' = handed \cup {iov}
    /\ Hears(Joined(iov))
    /\ IF chosen.name = NoName
       THEN /\ triggers' = chosen.triggers
            /\ UNCHANGED <<outVars, xid_map, entered>>
       ELSE \E found \in Decode(chosen.name, chosen.triggers, Joined(iov)) :
                /\ Learns(found)
                /\ Records(Session(from.src, from.dst, from.sport, from.dport, chosen.name, found.text))

\* trigger_tcp_raw: a segment of a stream with a trigger, of any with magic
TriggerTcpRaw(p) ==
    LET wanted == \/ Lookup(triggers, "tcp", p.dport) # NoName
                  \/ Lookup(triggers, "tcp", 0 - p.sport) # NoName
                  \/ setup.opt.magic
    IN
    /\ Handled
    /\ p.kind = "seg"
    /\ setup.opt.client
    /\ IF ~wanted THEN UNCHANGED <<outVars, learnVars, conntab, handed>>
       ELSE \E padding \in setup.paddings :
            LET input == TcpRawInput(conntab, p, Tha(p, padding)) IN
            /\ conntab' = input.tab
            /\ IF input.iov = NoStream THEN UNCHANGED <<outVars, learnVars, handed>>
               ELSE HandOver(p, Chosen(triggers, "tcp", p.sport, p.dport, Joined(input.iov)), input.iov)
    /\ UNCHANGED <<runVars, streams, alarm, place>>

\* Time passes between packets; without -c nothing depends on it
Tick ==
    /\ pc = "run"
    /\ setup.opt.client
    /\ \/ alarm > 0
       \/ Aged(conntab) # conntab
    /\ alarm' = IF alarm > 0 THEN alarm - 1 ELSE 0
    /\ conntab' = Aged(conntab)
    /\ UNCHANGED <<streams, place, handed, outVars, learnVars, runVars, packets>>

\* SIGALRM: trigger_tcp_raw_timeout, between two packets
Alarm ==
    /\ pc = "run"
    /\ setup.opt.client
    /\ alarm = 0
    /\ pc' = "sweep"
    /\ place' = <<0, 1>>
    /\ UNCHANGED <<streams, conntab, alarm, handed, outVars, learnVars,
                   setup, st, todo, reload, dump, starts, knew, packets>>

\* trigger_tcp_raw_callback: only the destination port and magic are tried
ChosenLate(dport, load) ==
    LET asked == Lookup(triggers, "tcp", dport)
        learned == TriggerSetMagic(triggers, "tcp", dport, MagicMatch(load))
    IN
    IF asked # NoName \/ MagicMatch(load) = NoName THEN [name |-> asked, triggers |-> triggers]
    ELSE [name |-> Lookup(learned, "tcp", dport), triggers |-> learned]

\* tcp_raw_timeout at one node.  The node after a deleted one has moved into
\* its place, and the loop goes on behind it.  The source port handed over is
\* what `port >> 16' leaves of a u_short.
SweepNode(b, i) ==
    LET conn == conntab[b][i]
        iov == TcpRawReassemble(conn, 1)
    IN
    /\ pc = "sweep"
    /\ place = <<b, i>>
    /\ i <= Len(conntab[b])
    /\ place' = <<b, i + 1>>
    /\ IF ~Old(conn) THEN UNCHANGED <<conntab, outVars, learnVars, handed>>
       ELSE /\ conntab' = TcpRawDelete(conntab, b, i)
            /\ IF iov = NoStream THEN UNCHANGED <<outVars, learnVars, handed>>
               ELSE HandOver([src |-> conn.tha.src, dst |-> conn.tha.dst,
                              sport |-> 0, dport |-> conn.tha.port],
                             ChosenLate(conn.tha.port, Joined(iov)), iov)
    /\ UNCHANGED <<streams, alarm, runVars, packets>>

\* The end of a chain, and after the last one the next alarm
SweepNext(b) ==
    /\ pc = "sweep"
    /\ place[1] = b
    /\ place[2] > Len(conntab[b])
    /\ IF b + 1 \in Buckets
       THEN place' = <<b + 1, 1>> /\ UNCHANGED <<pc, alarm>>
       ELSE pc' = "run" /\ alarm' = RawTimeout /\ place' = <<0, 1>>
    /\ UNCHANGED <<streams, conntab, handed, outVars, learnVars,
                   setup, st, todo, reload, dump, starts, knew, packets>>

-----------------------------------------------------------------------------
(* Signals, and the next start                                             *)

\* sig_hup
Hangup ==
    /\ pc = "run"
    /\ dump' = TriggerDump(triggers)
    /\ knew' = triggers
    /\ UNCHANGED <<netVars, outVars, learnVars, setup, pc, st, todo, reload, starts, packets>>

\* sig_die, or the end of the process: every session saved has been synced
Die ==
    /\ pc = "run"
    /\ starts < MaxRestarts
    /\ pc' = "stopped"
    /\ UNCHANGED <<netVars, outVars, learnVars, setup, st, todo, reload, dump, starts, knew, packets>>

\* dsniff is started again, with the services it has dumped (-f) if there are
\* any.  Without -w the sessions were only in memory; libnids does not follow
\* the connections it has not seen begin.
Restart ==
    /\ pc = "stopped"
    /\ pc' = "load"
    /\ starts' = starts + 1
    /\ todo' = setup.list \o (IF dump = {} THEN setup.services ELSE <<>>)
    /\ reload' = dump
    /\ triggers' = NoTriggers
    /\ conntab' = [b \in Buckets |-> <<>>]
    /\ xid_map' = EmptyMap
    /\ entered' = <<>>
    /\ db' = RecordInit(db, setup.opt)
    /\ heard' = IF setup.opt.write THEN heard ELSE {}
    /\ printed' = IF setup.opt.write THEN printed ELSE {}
    /\ streams' = [s \in DOMAIN Streams |->
                    IF streams[s].state = "none" THEN Unseen ELSE [Unseen EXCEPT !.state = "closed"]]
    /\ alarm' = RawTimeout
    /\ place' = <<0, 1>>
    /\ handed' = {}
    /\ st' = 0
    /\ UNCHANGED <<setup, dump, knew, replied, packets>>

Sweep == \E b \in Buckets : SweepNext(b) \/ \E i \in 1 .. Len(conntab[b]) : SweepNode(b, i)

Next ==
    \/ LoadTrigger
    \/ StartListening
    \/ \E p \in setup.packets : TriggerIp(p) \/ TriggerUdp(p) \/ TriggerTcpRaw(p)
    \/ \E s \in setup.streams :
        \/ TcpEstablished(s)
        \/ \E dir \in {"server", "client"}, n \in 1 .. MaxChunk : TcpData(s, dir, n)
        \/ TcpClosed(s)
        \/ TcpClosedAnswers(s)
    \/ Tick
    \/ Alarm
    \/ Sweep
    \/ Hangup
    \/ Die
    \/ Restart

\* The kernel delivers SIGALRM, time passes, and a handler runs to its end
Fairness ==
    /\ WF_vars(LoadTrigger) /\ WF_vars(StartListening) /\ WF_vars(Restart)
    /\ WF_vars(Tick) /\ WF_vars(Alarm) /\ WF_vars(Sweep)

Spec == Init /\ [][Next]_vars /\ Fairness

-----------------------------------------------------------------------------
TypeOK ==
    /\ setup \in Setups
    /\ pc \in {"load", "run", "close", "sweep", "stopped"}
    /\ alarm \in 0 .. RawTimeout
    /\ packets \in 0 .. setup.bound
    /\ starts \in 0 .. MaxRestarts
    /\ \A p \in Protos : triggers[p] \subseteq [num : Int, decode : Decodes]

\* A number has one decoder in each table, and no table holds more than its
\* array: whoever sets a trigger, the first one stays.
OneDecoderPerNumber ==
    \A p \in Protos :
        /\ \A t, u \in triggers[p] : t.num = u.num => t = u
        /\ Cardinality(triggers[p]) <= Capacity[p]

\* Two saved sessions differ in an address, in the decoder or in the text:
\* the same session heard again, from another port or after a restart with the
\* same file, is not saved twice.
SavedOnce ==
    \A r, q \in db :
        r.src = q.src /\ r.dst = q.dst /\ r.name = q.name /\ r.data = q.data => r = q

\* What was decoded is printed at once or can be read from the file later,
\* unless it was too long for the buffer it is encoded in.
HeardIsKept ==
    \A r \in heard :
        \/ r \in printed
        \/ r.data \in TooLong
        \/ \E saved \in db : KeyOf(saved) = KeyOf(r)

\* What was heard is kept, and only once.
SessionsAreKept == SavedOnce /\ HeardIsKept

\* Started again with the triggers it has dumped, dsniff knows every trigger
\* it knew then.
DumpReloads ==
    pc \notin {"load", "stopped"} =>
        \A p \in Protos : \A t \in knew[p] :
            Lookup(triggers, p, t.num) # NoName

\* A port that is in a table without having been loaded was named by magic in
\* some packet, or was the answer of a portmapper to a call that was seen.
LearnedHasCause ==
    \A p \in {"udp", "tcp"} : \A t \in triggers[p] :
        \/ \E line \in Range(setup.list) \cup Range(setup.services) \cup dump :
                line.proto = p /\ line.num = t.num
        \/ \E r \in replied :
            \/ r.magic = t.decode
            \/ /\ t.num \in {r.port, 0 - r.port}
               /\ \E k \in DOMAIN entered :
                    /\ entered[k].xid = r.xid
                    /\ entered[k].call.prog = "portmap" =>
                        /\ entered[k].call.proto = p
                        /\ Lookup(triggers, "rpc", entered[k].call.program) = t.decode

\* The tables of the triggers, over all that teaches dsniff a port: one decoder for a
\* number, a cause for each port that was learned, and what was known before a
\* restart is known after it.
TablesAreTrue == OneDecoderPerNumber /\ LearnedHasCause /\ DumpReloads

\* A connection that libnids collects is decoded once, whole: not while there
\* is little of it, and at its end at the latest.
DecodedOnce ==
    \A s \in DOMAIN Streams : \A dir \in {"server", "client"} :
        LET half == streams[s][dir] IN
        /\ half.times <= 1
        /\ (streams[s].state = "closed" /\ half.count > 0)
              => half.times = 1 /\ half.offset = half.count

\* The decoder gets what a node holds in the order of the sequence numbers.
HandedInOrder ==
    \A iov \in handed : \A k \in 1 .. Len(iov) - 1 : iov[k].seq <= iov[k + 1].seq

\* Half-duplex reassembly: a number gets to the decoder once if the segments came in
\* order, and the decoder gets them in the order of their numbers in any case.  This
\* is said of a node, which streams with the same addresses and destination port
\* share: of two segments with one number bsearch drops the later, whosever it is.
StreamsInOrder == TwiceOnlyOutOfOrder /\ HandedInOrder

\* The nodes that the segments of the setups may have
Thas == UNION {{Tha(p, padding) : p \in {q \in su.packets : q.kind = "seg"}, padding \in su.paddings} :
                su \in Setups}

\* Every node leaves the table: its stream is complete, one that shares it ends, or it
\* is found too old in some round, although a round passes over the node behind
\* one that it deletes and every segment of the streams that share it renews it.
EveryStreamLeaves ==
    \A tha \in Thas : PlaceOf(conntab, tha) # 0 ~> PlaceOf(conntab, tha) = 0

=============================================================================
