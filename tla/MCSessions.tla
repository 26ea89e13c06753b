------------------------------ MODULE MCSessions ------------------------------
(* What the programs beside dsniff read, and the windows of Remote.          *)
EXTENDS Integers, Sequences, SequencesExt, TLC

CONSTANTS Nobody, None

-----------------------------------------------------------------------------
(* Sessions for Mailsnarf: messages by SMTP with a refused recipient, a reset *)
(* and a sender without a name, and messages fetched by POP.                  *)

Token(k, cmd, arg) == [k |-> k, cmd |-> cmd, arg |-> arg]

CRLF == Token("crlf", "", "")
Dot == Token("dot", "", "")

Word(text) == Token("word", "", text)
Cmd(cmd, arg) == <<Token("word", cmd, arg), CRLF>>

JoinLines(lines) == FlattenSeq([i \in DOMAIN lines |-> lines[i] \o IF i = Len(lines) THEN <<>> ELSE <<CRLF>>])

Body(lines) == JoinLines(lines) \o <<CRLF, Dot, CRLF>>

Mail(side, t, f, lines) == [side |-> side, turn |-> t, from |-> f, body |-> JoinLines(lines)]

Long == <<<<Word("a")>>, <<>>, <<Token("word", "From", "b")>>, <<Token("word", "MAIL", "c")>>>>
Blank == <<<<>>, <<Word("d")>>>>
Spam == <<<<Word("spam")>>>>

SmtpTurns == <<Cmd("EHLO", "h"), Cmd("MAIL", "x"), Cmd("RCPT", "z"), Cmd("RSET", ""), Cmd("MAIL", "y"),
    Cmd("RCPT", "z"), Cmd("RCPT", "w"), Cmd("DATA", ""), Body(Long), Cmd("NOOP", ""), Cmd("MAIL", Nobody),
    Cmd("RCPT", "z"), Cmd("DATA", ""), Body(Blank), Cmd("MAIL", "v"), Cmd("RCPT", "z"), Cmd("DATA", ""),
    Body(Spam), Cmd("QUIT", "")>>

Smtp(patient) ==
    [protocol |-> "smtp", patient |-> patient, client |-> SmtpTurns, server |-> <<>>,
     mails |-> <<Mail("client", 9, "y", Long), Mail("client", 14, Nobody, Blank), Mail("client", 18, "v", Spam)>>]

Pop(patient) ==
    [protocol |-> "pop", patient |-> patient,
     client |-> <<Cmd("LIST", ""), Cmd("RETR", "1"), Cmd("RETR", "9"), Cmd("RETR", "2"), Cmd("QUIT", "")>>,
     server |-> <<Cmd("+OK", "") \o <<Word("1"), CRLF, Dot, CRLF>>, Cmd("+OK", "") \o Body(Long),
                  Cmd("-ERR", ""), Cmd("+OK", "") \o Body(Blank), Cmd("+OK", "")>>,
     mails |-> <<Mail("server", 2, Nobody, Long), Mail("server", 4, Nobody, Blank)>>]
AllSessions == {Smtp(TRUE), Smtp(FALSE), Pop(TRUE), Pop(FALSE)}

-----------------------------------------------------------------------------
(* Conversations for Msgsnarf, one for each protocol.                        *)

T(kind, cmd, from, to, text, len) ==
    [k |-> kind, cmd |-> cmd, from |-> from, user |-> TRUE, to |-> to, text |-> text, len |-> len]

Nl == T("nl", "", Nobody, Nobody, Nobody, 0)
Line(cmd, from, to, text) == <<T("line", cmd, from, to, text, 0), Nl>>
Piece(text) == T("body", "", Nobody, Nobody, text, 1)

Frame(cmd, from, to, texts) ==
    <<T("head", "", Nobody, Nobody, Nobody, 1 + Len(texts)), T("body", cmd, from, to, Nobody, 1)>>
        \o [i \in DOMAIN texts |-> Piece(texts[i])]

Msg(from, type, text) ==
    LET body == <<T("line", "MIME", Nobody, Nobody, Nobody, 0), Nl, T("line", type, Nobody, Nobody, Nobody, 0), Nl, Nl, Piece(text)>> IN
    <<T("line", "MSG", from, Nobody, Nobody, Len(body)), Nl>> \o body

Conn(ip, protocol, client, server) == [ip |-> ip, protocol |-> protocol, client |-> client, server |-> server]

Server(cmd) == <<[T("line", cmd, "irc", "ann", "motd", 0) EXCEPT !.user = FALSE], Nl>>

Irc(ip, nick) ==
    Conn(ip, "irc", <<Line("NICK", Nobody, nick, Nobody), Line("PRIVMSG", Nobody, "#c", "hi"), Line("NICK", Nobody, "bob", Nobody),
                      Line("PRIVMSG", Nobody, "#c", "spam"), Line("PRIVMSG", Nobody, "#c", "bye")>>,
                    <<Server("PRIVMSG"), Line("JOIN", "eve", "#c", Nobody), Line("PRIVMSG", "eve", nick, "yo")>>)

Aim(ip) ==
    Conn(ip, "aim", <<Frame("login", "sue", Nobody, <<>>), Frame("send", Nobody, "tom", <<"a", "b">>), Frame("ping", Nobody, Nobody, <<>>)>>,
                    <<Frame("recv", "tom", Nobody, <<"c">>)>>)

Msn(ip) ==
    Conn(ip, "msn", <<Line("USR", Nobody, "kim", Nobody), Msg(Nobody, "text/plain", "d"), Msg(Nobody, "text/x", Nobody)>>,
                    <<Line("IRO", "lea", Nobody, Nobody), Msg("max", "text/plain", "e")>>)

Yahoo(ip) ==
    Conn(ip, "yahoo", <<Frame("send", "pat", "ray", <<"f", "g">>)>>, <<Frame("recv", "ray", "pat", <<"h">>)>>)

First(c, n) == [c EXCEPT !.client = SubSeq(@, 1, n), !.server = SubSeq(@, 1, 1)]

(* Cut connections one at a time; whole ones also two at a time, from one or *)
(* two addresses                                                             *)
AllChats ==
    [conns : {<<Irc("a", "ann")>>, <<Aim("a")>>, <<Msn("a")>>}, whole : {FALSE}]
        \cup [conns : {<<Irc("a", "ann")>>, <<Msn("a")>>, <<First(Irc("a", "ann"), 2), First(Aim("b"), 2)>>,
                       <<First(Msn("a"), 2), First(Irc("a", "ann"), 2)>>, <<Yahoo("a"), First(Aim("b"), 2)>>},
              whole : {TRUE}]

-----------------------------------------------------------------------------
(* Logins for each of the decoders of Logins.                                *)

Key(kind, cmd, arg, plain, end, login) ==
    [kind |-> kind, cmd |-> cmd, arg |-> arg, plain |-> plain, end |-> end, login |-> login]

Out(cmd, arg) == Key("line", cmd, arg, None, "crlf", FALSE)
In(cmd, arg) == [Out(cmd, arg) EXCEPT !.login = TRUE]
Enc(cmd, arg, plain) == [In(cmd, arg) EXCEPT !.plain = plain]
Lf(t) == [t EXCEPT !.end = "lf"]
Cr(t) == [t EXCEPT !.end = "cr"]
Lfs(d) == [i \in DOMAIN d |-> Lf(d[i])]
Empty == Out("", "")

Opt == Key("opt", "", "", None, "", FALSE)
Sub(user) == Key("sub", "[", user, None, "", user # None)
Se == Key("se", "", "", None, "", FALSE)
Iac == Key("iac", "", "", None, "", FALSE)
Binary == [Out("b", "") EXCEPT !.kind = "binary"]

Session(protocol, tokens) == [protocol |-> protocol, tokens |-> tokens]

AllTyped == {
    Session("telnet", <<Opt, Opt, Sub("joe"), Se, Cr(In("pass", "")), Sub(None), Se, Lf(In("ls", "")), Cr(In("cd", "x")), Lf(Out("exit", ""))>>),
    Session("telnet", <<Lf(Out("lost", "")), Se, Lf(In("joe", "")), Opt, Lf(In("pass", ""))>>),
    Session("telnet", <<Binary, Lf(Out("joe", "")), Lf(Out("pass", ""))>>),
    Session("ftp", <<Opt, In("USER", "joe"), Out("SYST", ""), In("PASS", "x"), Lf(In("ACCT", "y")), Out("QUIT", "")>>),
    Session("ftp", <<Iac, Out("USER", "ann"), In("USER", "joe"), In("PASS", "x"), Out("RETR", "USER")>>),
    Session("smtp", <<Out("EHLO", "h"), Enc("AUTH LOGIN", "am9l", "joe"), Empty, Enc("eA==", "", "x"), Out("MAIL", "a"),
                      Out("RCPT", "b"), Out("DATA", ""), Out("AUTH LOGIN", "Ym9i"), Empty, Out("MAIL", "c"), Out("DATA", "")>>),
    Session("imap", <<Out("CAPABILITY", ""), In("LOGIN", "joe x"), Out("SELECT", "LOGIN"), Out("LOGOUT", "")>>),
    Session("pop", <<In("HELO", "joe x"), Out("RETR", "1"), Out("QUIT", "")>>),
    Session("pop", <<In("AUTH LOGIN", ""), Enc("am9l", "", "joe"), Enc("eA==", "", "x"), Out("STAT", ""), In("USER", "sue"), In("PASS", "y"), Out("QUIT", "")>>),
    Session("poppass", <<In("USER", "joe"), Empty, In("PASS", "x"), In("NEWPASS", "y"), Out("QUIT", "")>>),
    Session("nntp", <<In("AUTHINFO", "USER joe"), In("AUTHINFO", "PASS x"), Out("GROUP", "g"), In("AUTHINFO SIMPLE", ""), In("sue", "y"), Out("LIST", "")>>),
    Session("nntp", <<In("AUTHINFO GENERIC", "z"), In("AUTHINFO GENERIC DPA", ""), Enc("AUTHINFO GENERIC", "am9l", "joe"), Out("QUIT", "")>>),
    Session("irc", <<In("NICK", "joe"), In("USER", "joe"), Out("JOIN", "#a"), In("JOIN with key", "#c k"), Out("PRIVMSG", "PASS"), In("MODE +k", "#c k")>>),
    Session("irc", <<Out("PING", "x"), Out(";", ""), In("OPER", "joe x"), Out("QUIT", "")>>),
    Session("cvs", Lfs(<<In("BEGIN", "AUTH"), In("/cvs", ""), In("joe", ""), Enc("A", "yZ", "x"), In("END", "AUTH"), Out("Root", "")>>)),
    Session("cvs", Lfs(<<Out("Root", ""), Out("BEGIN", "AUTH"), Out("A", "yZ")>>)),
    Session("cvs", Lfs(<<In("BEGIN", "AUTH"), In("/cvs", ""), In("joe", "")>>))}

-----------------------------------------------------------------------------
(* Packets for Filesnarf: two files whose names and handles are looked up    *)
(* and which are read, refused and unknown ones, and xids used twice.        *)
Packet(dir, xid, proc) ==
    [dir |-> dir, xid |-> xid, vers |-> 2, proc |-> proc, name |-> "", fh |-> "", offset |-> 0,
     accepted |-> TRUE, ok |-> TRUE, data |-> ""]

LookUp(xid, name) == [Packet("call", xid, "lookup") EXCEPT !.name = name]
Handle(xid, fh) == [Packet("reply", xid, "lookup") EXCEPT !.fh = fh]
Read(xid, fh, offset) == [Packet("call", xid, "read") EXCEPT !.fh = fh, !.offset = offset]
Content(xid, text) == [Packet("reply", xid, "read") EXCEPT !.data = text]

TwoFiles == {LookUp(1, "a"), Handle(1, "f"), LookUp(2, "b"), Handle(2, "g"),
             Read(3, "f", 0), Content(3, "x"), Read(4, "g", 1), Content(4, "y")}
Refused == {LookUp(1, "a"), Handle(1, "f"), [Handle(1, "g") EXCEPT !.ok = FALSE], LookUp(5, "no"), Handle(5, "f"),
            Read(3, "f", 0), Content(3, "x"), [Content(3, "z") EXCEPT !.accepted = FALSE]}
SameIds == {LookUp(1, "a"), Handle(1, "f"), LookUp(1, "b"), Handle(1, "g"), Read(2, "g", 0), Content(2, "x")}
AllTraffics == {TwoFiles, Refused, SameIds}

-----------------------------------------------------------------------------
(* Requests for HttpRequests: pages, forms with bodies of each method, hosts  *)
(* that are left out, and a body that is no form.                            *)

Hdr(name, value) == [name |-> name, value |-> value]

Request(method, uri, headers, body) == [method |-> method, uri |-> uri, headers |-> headers, body |-> body]

Page == Request("GET", "/a", <<Hdr("Host", "h"), Hdr("Authorization", "u")>>, <<>>)
Form == Request("POST", "/b", <<Hdr("Host", "h"), Hdr("Content-type", "form"), Hdr("Content-length", 2)>>, <<"x", "login">>)
Image == Request("GET", "/i", <<Hdr("Host", "no")>>, <<>>)
Upload == Request("POST", "/c", <<Hdr("Host", "no"), Hdr("Content-length", 1)>>, <<"y">>)
Put == Request("PUT", "/p", <<Hdr("Content-length", 1)>>, <<"z">>)
Query == Request("GET", "login", <<Hdr("Referer", "r"), Hdr("Proxy-authorization", "v")>>, <<>>)
Short == Request("POST", "/b", <<Hdr("Content-type", "text"), Hdr("Content-length", 3)>>, <<"x">>)

Lists == {<<Page, Form, Image, Query>>, <<Form, Page, Put, Page>>, <<Upload, Page, Query>>, <<Image, Page, Short>>,
          <<Query, Form>>}

AllVisits == [reader : {"urlsnarf", "webspy", "decode_http"}, requests : Lists, together : BOOLEAN]

-----------------------------------------------------------------------------
(* Messages of an xid, the direction and arguments, cut into fragments       *)
One == <<<<25, 0, 40>>>>
Two == <<<<26, 1>>, <<41, 42>>>>
Three == <<<<27>>, <<0>>, <<43, 3, 44>>>>
Big == <<<<28, 1, 45, 46, 47, 48, 50, 51, 52>>>>

AllWires == [records : {<<One, Two, Three>>, <<Three, One, Two>>, <<Two, Big, One>>}, whole : BOOLEAN]

-----------------------------------------------------------------------------
(* Windows for Remote, and the versions that its two clients ask for.        *)
Win(w, version) == [win |-> w, version |-> version]

Versions == ("webspy" :> "4.7") @@ ("remote" :> "1.1")

CallsOf == ("webspy" :> 2) @@ ("remote" :> 1)

Setup(windows, c, p, k) ==
    [screen |-> windows, calls |-> CallsOf, commands |-> c, preliminary |-> p, crashes |-> k]

(* One window; and two of versions that nobody has asked for, or one has *)
OneOrTwo == {Setup(<<Win("w", "4.7")>>, 2, 1, 1),
             Setup(<<Win("v", "3.0"), Win("w", "4.7")>>, 1, 0, 0),
             Setup(<<Win("w", "4.7"), Win("v", "1.1")>>, 1, 0, 0)}
=============================================================================
