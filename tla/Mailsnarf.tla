------------------------------- MODULE Mailsnarf -------------------------------
(***************************************************************************)
(* mailsnarf (mailsnarf.c): a connection to an SMTP or a POP server that   *)
(* libnids follows.  The client's lines, and for POP the server's, drive a *)
(* small state machine; a message is printed when the line with the dot    *)
(* behind it has come.                                                     *)
(*                                                                         *)
(* What is sent is a sequence of words and line ends, and arrives in       *)
(* segments of any size.  What a call does not use stays in libnids'       *)
(* buffer, as the call has left it.                                        *)
(***************************************************************************)
EXTENDS Integers, Sequences, FiniteSets, SequencesExt, FiniteSetsExt

CONSTANTS
    Sessions,       \* the sessions: protocol, patient, client, server, mails, see below
    MaxSegment,     \* bound: tokens that arrive at once
    Unwanted,       \* texts of the messages that the pattern leaves out
    Nobody          \* NULL instead of an address

(* A session's client and server are sequences of turns, of tokens each: an  *)
(* SMTP client's turns are its commands and the bodies of its messages, a    *)
(* POP client's and server's its commands and their answers, one each.  A    *)
(* patient client starts its next turn when the last one was answered.       *)

VARIABLES
    session,        \* the session of this connection
    turn,           \* turn[side]: the turns of a side that it has sent
    sent,           \* sent[side]: how much of the next turn it has sent
    data,           \* data[side]: ts->server.data (the client's bytes), ts->client.data
    state,          \* smtp->state or pop->state
    from,           \* smtp->from
    nids_state,     \* "open", or "close" after the end
    printed         \* the messages printed

vars == <<session, turn, sent, data, state, from, nids_state, printed>>

Sides == {"client", "server"}

Token(k, cmd, arg) == [k |-> k, cmd |-> cmd, arg |-> arg]

CRLF == Token("crlf", "", "")
Dot == Token("dot", "", "")

\* A token whose first byte is overwritten with NUL: a string that starts there
\* is empty, and an end of line is none
NulToken == Token("nul", "", "")

\* buf_index: before which place the tokens of what are found first, 0 if nowhere
BufIndex(d, what) ==
    LET places == {i \in 1 .. Len(d) + 1 - Len(what) : SubSeq(d, i, i + Len(what) - 1) = what} IN
    IF places = {} THEN 0 ELSE Min(places)

Drop(d, n) == IF n >= Len(d) THEN <<>> ELSE SubSeq(d, n + 1, Len(d))

\* line->base[line->end] = '\0', where line has its end in it: the first byte of
\* what follows the line
NulTerminate(d) == IF d = <<>> THEN d ELSE [d EXCEPT ![1] = NulToken]

\* grep_mail_address
GrepMailAddress(line) == line.arg

\* One line of process_smtp_client
SmtpLine(smtp, line) ==
    IF line.cmd = "RSET" THEN [smtp EXCEPT !.state = "HELO"]
    ELSE IF smtp.state = "NONE" /\ line.cmd \in {"HELO", "EHLO"}
    THEN [smtp EXCEPT !.state = "HELO"]
    ELSE IF smtp.state = "HELO" /\ line.cmd \in {"MAIL", "SEND", "SAML"}
    THEN [state |-> "MAIL", from |-> GrepMailAddress(line)]
    ELSE IF smtp.state = "MAIL" /\ line.cmd = "RCPT" THEN [smtp EXCEPT !.state = "RCPT"]
    ELSE IF smtp.state = "RCPT" /\ line.cmd = "DATA" THEN [smtp EXCEPT !.state = "DATA"]
    ELSE smtp

\* The loop over the lines, until DATA
RECURSIVE SmtpLines(_, _)
SmtpLines(smtp, d) ==
    LET i == BufIndex(d, <<CRLF>>) IN
    IF smtp.state = "DATA" \/ i = 0 THEN [smtp |-> smtp, data |-> d]
    ELSE SmtpLines(SmtpLine(smtp, d[1]), NulTerminate(Drop(d, i)))

\* The lines of a string, which ends at the first NUL
RECURSIVE LinesOf(_)
LinesOf(body) ==
    LET i == BufIndex(body, <<CRLF>>) IN
    IF body # <<>> /\ body[1] = NulToken THEN <<>>
    ELSE IF i = 0 THEN <<body>>
    ELSE <<SubSeq(body, 1, i - 1)>> \o LinesOf(Drop(body, i))

\* print_mbox_msg: a line that looks like the start of a message gets a ">"
MboxLine(line) ==
    [text |-> line, quoted |-> line # <<>> /\ line[1].cmd = "From"]

PrintMboxMsg(sender, body) ==
    [from |-> sender,
     lines |-> LET lines == LinesOf(body) IN [i \in DOMAIN lines |-> MboxLine(lines[i])]]

\* regex_match
RegexMatch(body) == \A i \in DOMAIN body : body[i].arg \notin Unwanted

\* The body in front of the line with the dot, none when it has not come
TheEnd == <<CRLF, Dot, CRLF>>

\* What a call leaves: the state, the sender, the bytes it keeps, the messages
Left(s, f, d, msgs) == [state |-> s, from |-> f, data |-> d, printed |-> msgs]

Prints(sender, body) == IF RegexMatch(body) THEN <<PrintMboxMsg(sender, body)>> ELSE <<>>

\* mutant: the sender stays for the next message
ProcessSmtpClientKeeps(d) ==
    LET after == SmtpLines([state |-> state, from |-> from], d)
        i == BufIndex(after.data, TheEnd)
        body == SubSeq(after.data, 1, i - 1)
    IN
    IF after.smtp.state # "DATA" \/ i = 0 THEN Left(after.smtp.state, after.smtp.from, after.data, <<>>)
    ELSE Left("MAIL", after.smtp.from, Drop(after.data, i + 2), Prints(after.smtp.from, body))

\* process_smtp_client
ProcessSmtpClient(d) ==
    LET after == SmtpLines([state |-> state, from |-> from], d)
        i == BufIndex(after.data, TheEnd)
        body == SubSeq(after.data, 1, i - 1)
    IN
    IF after.smtp.state # "DATA" \/ i = 0 THEN Left(after.smtp.state, after.smtp.from, after.data, <<>>)
    ELSE Left("HELO", Nobody, Drop(after.data, i + 2), Prints(after.smtp.from, body))

\* process_pop_client: the last line decides
RECURSIVE PopLines(_, _)
PopLines(s, d) ==
    LET i == BufIndex(d, <<CRLF>>) IN
    IF i = 0 THEN Left(s, Nobody, d, <<>>)
    ELSE PopLines(IF d[1].cmd = "RETR" THEN "RETR" ELSE "NONE", NulTerminate(Drop(d, i)))

ProcessPopClient(d) == PopLines(state, d)

\* process_pop_server: what nobody has asked for is passed over, the answer to
\* RETR decides, and the message follows
ProcessPopServer(d) ==
    LET i == BufIndex(d, <<CRLF>>)
        after == IF state = "RETR" THEN IF d[1].cmd = "+OK" THEN "DATA" ELSE "NONE" ELSE state
        rest == IF state = "RETR" THEN Drop(d, i) ELSE d
        j == BufIndex(rest, TheEnd)
    IN
    IF state = "NONE" THEN Left("NONE", Nobody, <<>>, <<>>)
    ELSE IF state = "RETR" /\ i = 0 THEN Left("RETR", Nobody, d, <<>>)
    ELSE IF after # "DATA" \/ j = 0 THEN Left(after, Nobody, rest, <<>>)
    ELSE Left("NONE", Nobody, Drop(rest, j + 2), Prints(Nobody, SubSeq(rest, 1, j - 1)))

\* The handler of the bytes of a side
Process(side, d) ==
    IF session.protocol = "smtp" THEN ProcessSmtpClient(d)
    ELSE IF side = "client" THEN ProcessPopClient(d)
    ELSE ProcessPopServer(d)

-----------------------------------------------------------------------------
\* sniff_smtp_client and sniff_pop_session at NIDS_JUST_EST
Init ==
    /\ session \in Sessions
    /\ turn = [side \in Sides |-> 0]
    /\ sent = [side \in Sides |-> 0]
    /\ data = [side \in Sides |-> <<>>]
    /\ state = "NONE"
    /\ from = Nobody
    /\ nids_state = "open"
    /\ printed = <<>>

Turns(side) == IF side = "client" THEN session.client ELSE session.server

\* Everything a side has still to send
Ahead(side) == Drop(FlattenSeq(Drop(Turns(side), turn[side])), sent[side])

\* How much of it may come in one segment: a patient client sends to the end of
\* its turn, and only when the other side has answered; a POP server sends what
\* it was asked for
MaySend(side) ==
    LET upTo(n) == Len(FlattenSeq(SubSeq(Turns(side), turn[side] + 1, n))) - sent[side] IN
    IF turn[side] = Len(Turns(side)) THEN 0
    ELSE IF side = "server" THEN upTo(turn["client"])
    ELSE IF ~session.patient THEN upTo(Len(Turns(side)))
    ELSE IF session.protocol = "pop" /\ turn["server"] < turn["client"] THEN 0
    ELSE upTo(turn[side] + 1)

\* The turns that are over when n more tokens have been sent
TurnsAfter(side, n) ==
    LET total == sent[side] + n
        over == {k \in 0 .. Len(Turns(side)) - turn[side] :
                    Len(FlattenSeq(SubSeq(Turns(side), turn[side] + 1, turn[side] + k))) <= total}
    IN  [turn |-> turn[side] + Max(over),
         sent |-> total - Len(FlattenSeq(SubSeq(Turns(side), turn[side] + 1, turn[side] + Max(over))))]

\* NIDS_DATA: n more tokens of a side have come; what is not used is kept
NidsData(side, n) ==
    LET new == data[side] \o SubSeq(Ahead(side), 1, n)
        left == Process(side, new)
        after == TurnsAfter(side, n)
    IN
    /\ nids_state = "open"
    /\ n <= MaySend(side)
    /\ turn' = [turn EXCEPT ![side] = after.turn]
    /\ sent' = [sent EXCEPT ![side] = after.sent]
    /\ data' = [data EXCEPT ![side] = left.data]
    /\ state' = left.state
    /\ from' = left.from
    /\ printed' = printed \o left.printed
    /\ UNCHANGED <<session, nids_state>>

\* The end of the connection: one side's bytes are looked at once more
NidsClose(side) ==
    LET left == Process(side, data[side]) IN
    /\ nids_state = "open"
    /\ side = "client" \/ (session.protocol = "pop" /\ turn["client"] = 0 /\ sent["client"] = 0)
    /\ nids_state' = "close"
    /\ printed' = printed \o left.printed
    /\ data' = [data EXCEPT ![side] = left.data]
    /\ state' = left.state
    /\ from' = Nobody
    /\ UNCHANGED <<session, turn, sent>>

Next ==
    \E side \in Sides :
        \/ \E n \in 1 .. MaxSegment : NidsData(side, n)
        \/ NidsClose(side)

Spec == Init /\ [][Next]_vars

-----------------------------------------------------------------------------
\* The messages that have been sent to their ends
Sent ==
    LET over(mail) == turn[mail.side] >= mail.turn IN
    SelectSeq(SelectSeq(session.mails, over), LAMBDA mail : RegexMatch(mail.body))

\* However a connection is cut into segments, mailsnarf prints the messages that
\* were sent, whole, in order and with the sender of each, as soon as the last
\* line has come: if the client waits for the answers, as the buffer loses a
\* byte behind every line it does not wait after.
MailIsWhole ==
    session.patient =>
        printed = [i \in DOMAIN Sent |-> PrintMboxMsg(Sent[i].from, Sent[i].body)]
=============================================================================
