-------------------------------- MODULE Msgsnarf --------------------------------
(***************************************************************************)
(* msgsnarf (msgsnarf.c): the messages of chat connections.  IRC and MSN   *)
(* send lines, MSN with the message behind its line; AIM and Yahoo send    *)
(* frames.  What a client calls itself is kept for its address, in         *)
(* client_list, and not for the connection.                                *)
(*                                                                         *)
(* What is sent is a sequence of tokens: lines without their ends, line    *)
(* ends, heads of frames, and pieces of bodies.  It arrives in segments.   *)
(***************************************************************************)
EXTENDS Integers, Sequences, FiniteSets, SequencesExt, FiniteSetsExt

CONSTANTS
    Chats,          \* the traffic to look at: conns and whole, see below
    MaxSegment,     \* bound: tokens that arrive at once
    Unwanted,       \* texts that the pattern leaves out
    Unknown,        \* the nick "unknown"
    Garbage,        \* what malloc has left
    Nobody          \* NULL, no prefix, no name

(* A token has k ("line", "nl", "head" or "body"), cmd, from (a prefix or a  *)
(* name), user (the prefix has a "!"), to, text and len, the tokens of the   *)
(* body that a line or a head speaks of.  A connection has ip, protocol, and *)
(* for each side the messages it sends, each a sequence of tokens.  Whole:   *)
(* segments end with messages.                                               *)

VARIABLES
    chat,           \* the traffic
    client_list,    \* client_list[ip]: nick, peer and type, or Nobody
    conn,           \* conn[c]: "new", "open", "close"
    sent,           \* sent[c][side]: how many messages, and how many tokens of the next
    data,           \* data[c][side]: what has come and was not discarded
    printed,        \* what msgsnarf has printed of the messages of each connection
    crashed,        \* it has used as a name, or freed, what malloc had left
    log             \* history: the messages of each connection that have come whole

mvars == <<chat, client_list, conn, sent, data, printed, crashed, log>>

Sides == {"client", "server"}
Conns == DOMAIN chat.conns

Drop(d, n) == IF n >= Len(d) THEN <<>> ELSE SubSeq(d, n + 1, Len(d))
Take(d, n) == IF n >= Len(d) THEN d ELSE SubSeq(d, 1, n)

IsEnd(t) == t.k = "nl"

Texts(d) == [i \in DOMAIN d |-> d[i].text]

\* regex_match
RegexMatch(text) == \A i \in DOMAIN text : text[i] \notin Unwanted

Message(from, to, text) == [from |-> from, to |-> to, text |-> text]

\* What is left of a call: the client's entry, the bytes, and what it has printed
State(info, d, out, bad) == [info |-> info, data |-> d, out |-> out, bad |-> bad]

Says(s, from, to, text) ==
    IF RegexMatch(text) THEN [s EXCEPT !.out = Append(@, Message(from, to, text))] ELSE s

\* free(info->peer), unless it is NULL, and a new one
NewPeer(s, peer) == [s EXCEPT !.info.peer = peer, !.bad = @ \/ s.info.peer = Garbage]

NewNick(s, nick) == [s EXCEPT !.info.nick = nick]

LineEnd(d) == LET ends == {i \in DOMAIN d : IsEnd(d[i])} IN IF ends = {} THEN 0 ELSE Min(ends)

\* One line of process_irc: joins, parts and changes of other nicks are printed too,
\* and left out here; a prefix without "!" is a server's, and its line is passed over
IrcLine(s, t) ==
    IF t.from # Nobody /\ ~t.user THEN s
    ELSE IF t.cmd = "NICK" /\ t.from = Nobody THEN NewNick(s, t.to)
    ELSE IF t.cmd = "PRIVMSG" /\ t.text # Nobody
    THEN Says(s, IF t.from # Nobody THEN t.from ELSE s.info.nick, t.to, <<t.text>>)
    ELSE s

\* process_irc: what is in front of a line on the same line makes it no command
RECURSIVE ProcessIrc(_)
ProcessIrc(s) ==
    LET i == LineEnd(s.data)
        rest == [s EXCEPT !.data = Drop(@, i)]
    IN
    IF i = 0 THEN s
    ELSE ProcessIrc(IF i = 2 /\ s.data[1].k = "line" THEN IrcLine(rest, s.data[1]) ELSE rest)

\* The message behind a MSG line: text/plain, behind the last empty line
MsnText(body) ==
    LET blanks == {i \in 2 .. Len(body) : IsEnd(body[i]) /\ IsEnd(body[i - 1])} IN
    IF blanks = {} \/ ~\E i \in 2 .. Len(body) : body[i].cmd = "text/plain" THEN <<>>
    ELSE Texts(Drop(body, Max(blanks)))

\* A MSG line: N or U is the client's own message, else it names the peer; the body
\* is what has come of it (buf_tok)
MsnMsg(s, t) ==
    LET named == IF t.from = Nobody THEN s ELSE NewPeer(s, t.from)
        after == [named EXCEPT !.data = Drop(@, t.len)]
        text == MsnText(Take(s.data, t.len))
    IN
    IF text = <<>> THEN after
    ELSE IF t.from = Nobody
    THEN [Says(after, after.info.nick, after.info.peer, text) EXCEPT !.bad = @ \/ after.info.peer = Garbage]
    ELSE Says(after, after.info.peer, after.info.nick, text)

MsnLine(s, t) ==
    IF t.cmd = "USR" THEN NewNick(s, t.to)
    ELSE IF t.cmd = "IRO" THEN NewPeer(s, t.from)
    ELSE IF t.cmd = "MSG" THEN MsnMsg(s, t)
    ELSE s

\* process_msn: it ends when nothing has come of a body yet
RECURSIVE ProcessMsn(_)
ProcessMsn(s) ==
    LET i == LineEnd(s.data)
        t == s.data[1]
        rest == [s EXCEPT !.data = Drop(@, i)]
        command == i = 2 /\ t.k = "line"
    IN
    IF i = 0 THEN s
    ELSE IF ~command THEN ProcessMsn(rest)
    ELSE IF t.cmd = "MSG" /\ t.len > 0 /\ rest.data = <<>>
    THEN IF t.from = Nobody THEN rest ELSE NewPeer(rest, t.from)
    ELSE ProcessMsn(MsnLine(rest, t))

\* One frame of process_aim: the login, a message out, a message in
AimFrame(s, body) ==
    LET text == Texts(Drop(body, 1)) IN
    IF body = <<>> THEN s
    ELSE IF body[1].cmd = "login" THEN [NewNick(s, body[1].from) EXCEPT !.info.type = "AIM"]
    ELSE IF text = <<>> THEN s
    ELSE IF body[1].cmd = "send" THEN Says(s, s.info.nick, body[1].to, text)
    ELSE IF body[1].cmd = "recv" THEN Says(s, body[1].from, s.info.nick, text)
    ELSE s

\* One frame of process_yahoo, new or old: both names are in it
YahooFrame(s, body) ==
    LET text == Texts(Drop(body, 1)) IN
    IF body = <<>> \/ body[1].cmd \notin {"send", "recv"} THEN s
    ELSE Says(s, body[1].from, body[1].to, text)

\* The loop of process_aim and process_yahoo: a head with something behind it, and
\* then as much of the body as has come; what is no head is taken for one
RECURSIVE ProcessFrames(_, _)
ProcessFrames(s, protocol) ==
    LET body == Take(Drop(s.data, 1), s.data[1].len)
        rest == [s EXCEPT !.data = Drop(@, 1 + s.data[1].len)]
    IN
    IF Len(s.data) <= 1 THEN s
    ELSE ProcessFrames(IF s.data[1].k # "head" THEN rest
                       ELSE IF protocol = "aim" THEN AimFrame(rest, body)
                       ELSE YahooFrame(rest, body), protocol)

\* process_msgs of sniff_msgs
ProcessMsgs(protocol, info, d) ==
    LET s == State(info, d, <<>>, FALSE) IN
    IF protocol = "irc" THEN ProcessIrc(s)
    ELSE IF protocol = "msn" THEN ProcessMsn(s)
    ELSE ProcessFrames(s, protocol)

-----------------------------------------------------------------------------
MsgInit ==
    /\ chat \in Chats
    /\ client_list = [ip \in {chat.conns[c].ip : c \in Conns} |-> Nobody]
    /\ conn = [c \in Conns |-> "new"]
    /\ sent = [c \in Conns |-> [side \in Sides |-> [msgs |-> 0, tokens |-> 0]]]
    /\ data = [c \in Conns |-> [side \in Sides |-> <<>>]]
    /\ printed = [c \in Conns |-> <<>>]
    /\ crashed = FALSE
    /\ log = [c \in Conns |-> <<>>]

\* NIDS_JUST_EST: the entry of the address is found or made; malloc clears nothing
JustEst(c) ==
    LET ip == chat.conns[c].ip IN
    /\ ~crashed
    /\ conn[c] = "new"
    /\ conn' = [conn EXCEPT ![c] = "open"]
    /\ \E left \in {Nobody, Garbage} :
          client_list' = IF client_list[ip] # Nobody THEN client_list
                         ELSE [client_list EXCEPT ![ip] = [nick |-> Unknown, peer |-> left, type |-> left]]
    /\ UNCHANGED <<chat, sent, data, printed, crashed, log>>

\* mutant: every connection uses the first entry of the list
EntryOfFirst(c) == CHOOSE ip \in DOMAIN client_list : client_list[ip] # Nobody

\* *conn_save
EntryOf(c) == chat.conns[c].ip

\* What a call makes of the bytes of a side
Handles(c, side, d) ==
    LET s == ProcessMsgs(chat.conns[c].protocol, client_list[EntryOf(c)], d) IN
    /\ client_list' = [client_list EXCEPT ![EntryOf(c)] = s.info]
    /\ data' = [data EXCEPT ![c][side] = s.data]
    /\ printed' = [printed EXCEPT ![c] = @ \o s.out]
    /\ crashed' = s.bad

\* NIDS_DATA: n more tokens of a side, the last ones of a message or not
NidsData(c, side, n) ==
    LET at == sent[c][side]
        msgs == Drop(chat.conns[c][side], at.msgs)
        new == SubSeq(FlattenSeq(msgs), at.tokens + 1, at.tokens + n)
        over == Max({k \in 0 .. Len(msgs) : Len(FlattenSeq(SubSeq(msgs, 1, k))) <= at.tokens + n})
        tokens == at.tokens + n - Len(FlattenSeq(SubSeq(msgs, 1, over)))
    IN
    /\ ~crashed
    /\ conn[c] = "open"
    /\ at.tokens + n <= Len(FlattenSeq(msgs))
    /\ chat.whole => tokens = 0
    /\ sent' = [sent EXCEPT ![c][side] = [msgs |-> at.msgs + over, tokens |-> tokens]]
    /\ log' = [log EXCEPT ![c] = @ \o SubSeq(msgs, 1, over)]
    /\ Handles(c, side, data[c][side] \o new)
    /\ UNCHANGED <<chat, conn>>

\* The end of a connection: one side's bytes are looked at once more
NidsClose(c) ==
    LET come(side) == sent[c][side] # [msgs |-> 0, tokens |-> 0]
        side == IF come("client") THEN "client" ELSE "server"
    IN
    /\ ~crashed
    /\ conn[c] = "open"
    /\ conn' = [conn EXCEPT ![c] = "close"]
    /\ Handles(c, side, data[c][side])
    /\ UNCHANGED <<chat, sent, log>>

MsgNext ==
    \E c \in Conns :
        \/ JustEst(c)
        \/ \E side \in Sides, n \in 1 .. MaxSegment : NidsData(c, side, n)
        \/ NidsClose(c)

MsgSpec == MsgInit /\ [][MsgNext]_mvars

-----------------------------------------------------------------------------
\* The last name that was announced before the i-th message of a connection
LastOf(msgs, i, Announces(_), none) ==
    LET at == {j \in 1 .. i : Announces(msgs[j])} IN
    IF at = {} THEN none ELSE msgs[Max(at)]

IsLogin(m) == m[1].k = "line" /\ m[1].cmd \in {"NICK", "USR"} /\ m[1].from = Nobody
IsAimLogin(m) == m[1].k = "head" /\ m[2].cmd = "login"
IsPeer(m) == m[1].cmd \in {"IRO", "MSG"} /\ m[1].from # Nobody

Own(msgs, i) ==
    LET m == LastOf(msgs, i, LAMBDA n : IsLogin(n) \/ IsAimLogin(n), <<>>) IN
    IF m = <<>> THEN Unknown ELSE IF m[1].k = "line" THEN m[1].to ELSE m[2].from

Peer(msgs, i) == LastOf(msgs, i, IsPeer, <<[from |-> Nobody]>>)[1].from

\* What the i-th message of a connection tells a reader
Told(protocol, msgs, i) ==
    LET m == msgs[i]
        plain == Texts(Drop(m, 2))
        other(name, mine) == IF name = Nobody THEN mine ELSE name
    IN
    IF protocol = "irc"
    THEN IF m[1].cmd # "PRIVMSG" \/ ~m[1].user THEN <<>>
         ELSE <<Message(other(m[1].from, Own(msgs, i)), m[1].to, <<m[1].text>>)>>
    ELSE IF protocol = "msn"
    THEN IF m[1].cmd # "MSG" \/ m[Len(m)].text = Nobody THEN <<>>
         ELSE IF m[1].from = Nobody THEN <<Message(Own(msgs, i), Peer(msgs, i), <<m[Len(m)].text>>)>>
         ELSE <<Message(m[1].from, Own(msgs, i), <<m[Len(m)].text>>)>>
    ELSE IF m[2].cmd \notin {"send", "recv"} THEN <<>>
    ELSE <<Message(other(m[2].from, Own(msgs, i)), other(m[2].to, Own(msgs, i)), plain)>>

WantedOnly(messages) == SelectSeq(messages, LAMBDA m : RegexMatch(m.text))

\* Every message is printed once, in the order of its connection, with the name its
\* client had announced there and the one it talks to, and nothing else is, but for
\* what an IRC server says itself: if no
\* other connection comes from the same address, and messages are not cut; lines
\* may be.  The names of two connections from one address are mixed up.
MessagesAreTrue ==
    \A c \in Conns :
        (/\ \A d \in Conns \ {c} : chat.conns[d].ip # chat.conns[c].ip
         /\ chat.whole \/ chat.conns[c].protocol = "irc"
         /\ ~crashed)
            => printed[c] = WantedOnly(FlattenSeq([i \in DOMAIN log[c] |-> Told(chat.conns[c].protocol, log[c], i)]))
=============================================================================
