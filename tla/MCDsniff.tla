------------------------------- MODULE MCDsniff -------------------------------
(* Small instances of Dsniff for TLC, one setup for each way it runs: RPC   *)
(* calls and replies that teach it ports, services that magic recognises,   *)
(* connections that libnids follows, and half-duplex reassembly.            *)
EXTENDS Dsniff

Names == {"portmap", "mountd", "telnet", "ospf", "http"}

Sizes == [ip |-> 1, udp |-> 5, tcp |-> 3, rpc |-> 2]

LongTexts == {<<"long">>}

Line(proto, num, name) == [proto |-> proto, num |-> num, name |-> name]

Data(svc, magic, text) == [svc |-> svc, magic |-> magic, text |-> text]

Udp(src, dst, sport, dport, load) ==
    [kind |-> "udp", src |-> src, dst |-> dst, sport |-> sport, dport |-> dport,
     sane |-> TRUE, load |-> load]

(* RPC: a client asks the portmapper for two programs, of which the second  *)
(* one has no decoder, and mounts a directory; another client uses the xid  *)
(* of the first one again.                                                  *)
Rpc(svc, dir, xid, program, port, text) ==
    [svc |-> svc, magic |-> NoName, dir |-> dir, xid |-> xid, program |-> program,
     proto |-> "udp", port |-> port, ok |-> TRUE, text |-> text]

RpcCalls == {
    Udp("c", "s", 900, 111, Rpc("portmap", "call", 1, 100005, 0, NoText)),
    Udp("c", "s", 900, 111, Rpc("portmap", "call", 2, 100021, 0, NoText)),
    Udp("s", "c", 111, 900, Rpc("portmap", "reply", 1, 0, 635, NoText)),
    Udp("s", "c", 111, 900, Rpc("portmap", "reply", 2, 0, 636, NoText)),
    Udp("c", "s", 901, 635, Rpc("mountd", "call", 3, 0, 0, <<"/home">>)),
    Udp("s", "c", 635, 901, Rpc("mountd", "reply", 3, 0, 0, NoText)),
    Udp("d", "s", 901, 635, Rpc("mountd", "call", 1, 0, 0, <<"/usr">>)),
    [Udp("s", "c", 111, 900, Rpc("portmap", "reply", 1, 0, 637, NoText)) EXCEPT !.load.ok = FALSE]}

RpcSetup ==
    [opt |-> [client |-> FALSE, magic |-> FALSE, write |-> TRUE],
     list |-> <<>>,
     services |-> <<Line("udp", 111, "portmap"), Line("udp", -111, "portmap"),
                    Line("rpc", 100005, "mountd")>>,
     packets |-> RpcCalls, streams |-> {}, bound |-> 6, paddings |-> {0}]

(* Magic: two unknown ports, a service without a decoder, a session from    *)
(* two ports, one that is too long, and a packet with a broken length; the  *)
(* -t list is stronger than the services file, and the udp table gets full. *)
MagicPackets == {
    Udp("a", "b", 50, 60, Data("telnet", "telnet", <<"joe">>)),
    Udp("a", "b", 51, 60, Data("telnet", "telnet", <<"joe">>)),
    Udp("a", "b", 50, 61, Data("http", "http", <<"long">>)),
    Udp("a", "b", 50, 62, Data("telnet", "gopher", <<"sue">>)),
    Udp("a", "b", 50, 63, [Rpc("portmap", "call", 1, 100005, 0, NoText) EXCEPT !.magic = "portmap"]),
    Udp("b", "a", 23, 60, Data("telnet", NoName, <<"tom">>)),
    [Udp("a", "b", 50, 23, Data("telnet", NoName, <<"ann">>)) EXCEPT !.sane = FALSE],
    [kind |-> "ip", src |-> "a", dst |-> "b", proto |-> 89, load |-> Data("ospf", NoName, <<"key">>)]}

MagicSetup(write) ==
    [opt |-> [client |-> FALSE, magic |-> TRUE, write |-> write],
     list |-> <<Line("udp", 23, "telnet"), Line("ip", 89, "ospf")>>,
     services |-> <<Line("udp", 23, "http"), Line("udp", -23, "telnet"), Line("ip", 112, "http"),
                    Line("icmp", 1, "http"), Line("tcp", 99, "finger")>>,
     packets |-> MagicPackets, streams |-> {}, bound |-> 4, paddings |-> {0}]

(* Connections: one to a port whose requests and answers are decoded, one   *)
(* to a port whose answers are, and whose requests only magic knows.        *)
Connections ==
    "s1" :> [saddr |-> "a", daddr |-> "b", source |-> 1000, dest |-> 23,
             server |-> Data("telnet", NoName, <<"u">>), client |-> Data("telnet", NoName, <<"v">>)] @@
    "s2" :> [saddr |-> "a", daddr |-> "b", source |-> 1001, dest |-> 80,
             server |-> Data("http", "http", <<"w">>), client |-> Data("http", NoName, <<"x">>)]

ConnSetup(magic) ==
    [opt |-> [client |-> FALSE, magic |-> magic, write |-> FALSE],
     list |-> <<Line("tcp", 23, "telnet")>>, services |-> <<Line("tcp", -23, "telnet"), Line("tcp", -80, "http")>>,
     packets |-> {}, streams |-> {"s1", "s2"}, bound |-> 8, paddings |-> {0}]

(* Half-duplex: two streams that share a node, two more with the same hash, *)
(* and one of answers; their segments are reordered, repeated and broken,   *)
(* and carry one byte each.                                                 *)
Hashes == (23 :> 0) @@ (1000 :> 1)

Seg(src, sport, dport, flags, seq, len, text) ==
    [kind |-> "seg", src |-> src, dst |-> "z", sport |-> sport, dport |-> dport,
     flags |-> flags, seq |-> seq, len |-> len, good |-> TRUE, load |-> Data("telnet", NoName, text)]

OneStream == {
    Seg("a", 1000, 23, {"SYN"}, 0, 0, NoText),
    Seg("a", 1000, 23, {"ACK"}, 1, 1, <<"p">>),
    Seg("a", 1000, 23, {"ACK"}, 2, 1, <<"q">>),
    Seg("a", 1000, 23, {"FIN", "ACK"}, 3, 0, NoText)}

Segments == OneStream \cup {
    Seg("a", 1001, 23, {"ACK"}, 1, 1, <<"o">>),
    Seg("b", 1000, 23, {"SYN"}, 0, 0, NoText),
    Seg("b", 1000, 23, {"ACK"}, 1, 1, <<"r">>),
    Seg("c", 23, 1000, {"SYN"}, 0, 0, NoText),
    [Seg("a", 1000, 23, {"ACK"}, 3, 1, <<"s">>) EXCEPT !.good = FALSE]}

RawSetup(segments, paddings, bound) ==
    [opt |-> [client |-> TRUE, magic |-> FALSE, write |-> TRUE],
     list |-> <<Line("tcp", 23, "telnet")>>, services |-> <<Line("tcp", -23, "telnet")>>,
     packets |-> segments, streams |-> {}, bound |-> bound, paddings |-> paddings]

AllSetups ==
    {RpcSetup, MagicSetup(TRUE), MagicSetup(FALSE), ConnSetup(TRUE), ConnSetup(FALSE),
     RawSetup(Segments, {0}, 5), RawSetup(OneStream, {0, 1}, 4)}
=============================================================================
