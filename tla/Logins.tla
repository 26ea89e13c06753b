--------------------------------- MODULE Logins ---------------------------------
(***************************************************************************)
(* The decoders of dsniff that read lines: decode_telnet, _ftp, _smtp,     *)
(* _imap, _pop, _poppass, _nntp, _irc and _cvs.  Each is given what a      *)
(* client has sent until the connection ended or there was too much of it, *)
(* cut anywhere, and picks the lines with which the client logged in.      *)
(***************************************************************************)
EXTENDS Integers, Sequences, SequencesExt, FiniteSetsExt

CONSTANTS
    Typed,          \* what clients send: a protocol and tokens, see below
    Opt_lines,      \* lines of a session that are kept, 6 in the source
    None            \* not encoded; no user in a telnet suboption

(* A token is a line without its end, kind "line", or "binary" if it is not  *)
(* all ASCII: its first words, the rest, what that means when it is encoded, *)
(* how it ends ("crlf", "lf", "cr", "no"), and whether it is part of logging *)
(* in.  Between lines telnet has options: "opt", "sub" up to the IAC of its  *)
(* "se", and "iac", the escape of a byte of a line that follows.             *)

VARIABLES
    typed,          \* the session of this behaviour
    sent,           \* how many of its tokens have come
    reported,       \* what the decoder has written
    taken           \* "no", or it was called with the last line "whole" or "cut"

lvars == <<typed, sent, reported, taken>>

Show(t) == [cmd |-> t.cmd, arg |-> t.arg, also |-> None]
ShowDecoded(t) == [Show(t) EXCEPT !.also = t.plain]
ShowAll(d) == [i \in DOMAIN d |-> Show(d[i])]

Ended(d) == SelectSeq(d, LAMBDA t : t.end # "no")

\* strtok(buf, "\r\n") knows no empty lines, and needs no end
StrTok(d) == SelectSeq(d, LAMBDA t : t.cmd # "")

\* strip_telopts: a return alone ends a line too; what follows an escaped byte
\* loses its first one, and a suboption without a beginning loses everything
StripTelopts(d) ==
    LET Step(s, i) ==
            LET t == d[i] IN
            IF t.kind = "sub"
            THEN [s EXCEPT !.subopt = TRUE,
                           !.out = IF t.arg # None /\ i < Len(d)
                                   THEN Append(@, [t EXCEPT !.kind = "line", !.end = "lf"]) ELSE @]
            ELSE IF t.kind = "se" THEN [s EXCEPT !.subopt = FALSE, !.out = IF s.subopt THEN @ ELSE <<>>]
            ELSE IF t.kind = "iac" THEN [s EXCEPT !.cut = TRUE]
            ELSE IF t.kind = "opt" \/ s.subopt THEN s
            ELSE [s EXCEPT !.cut = FALSE,
                           !.out = Append(@, [t EXCEPT !.cmd = IF s.cut THEN "?" ELSE @,
                                                       !.end = IF @ = "cr" THEN "lf" ELSE @])]
    IN
    FoldLeft(Step, [out |-> <<>>, subopt |-> FALSE, cut |-> FALSE], [i \in DOMAIN d |-> i]).out

IsAscii(d) == \A i \in DOMAIN d : d[i].kind # "binary"

\* strip_lines: the lines that are left, and their number
Stripped(d) == SubSeq(d, 1, Min({Len(d), Opt_lines}))
StripLines(d) == Len(Ended(Stripped(d)))

DecodeTelnet(d) ==
    LET text == StripTelopts(d) IN
    IF ~IsAscii(text) \/ StripLines(text) < 2 THEN <<>> ELSE ShowAll(Stripped(text))

DecodeFtp(d) ==
    LET text == StripTelopts(d)
        logins == SelectSeq(Ended(text), LAMBDA t : t.cmd \in {"USER", "ACCT", "PASS"})
    IN
    IF ~IsAscii(text) \/ Len(logins) < 2 THEN <<>> ELSE ShowAll(logins)

DecodeImap(d) == ShowAll(SelectSeq(Ended(d), LAMBDA t : t.cmd = "LOGIN"))

DecodePoppass(d) ==
    LET logins == SelectSeq(StrTok(d), LAMBDA t : t.cmd \in {"USER", "PASS", "NEWPASS"}) IN
    IF Len(Stripped(logins)) < 3 THEN <<>> ELSE ShowAll(Stripped(logins))

\* The two lines after AUTH are answers, whatever they say
DecodePop(d) ==
    LET Step(s, t) ==
            IF s.answers > 0 THEN [out |-> Append(s.out, ShowDecoded(t)), answers |-> s.answers - 1]
            ELSE IF t.cmd \in {"AUTH PLAIN", "AUTH LOGIN"} THEN [out |-> Append(s.out, Show(t)), answers |-> 2]
            ELSE IF t.cmd \in {"USER", "PASS", "HELO"} THEN [s EXCEPT !.out = Append(@, Show(t))]
            ELSE s
    IN
    FoldLeft(Step, [out |-> <<>>, answers |-> 0], StrTok(d)).out

\* mutant: it reads on in the message
DecodeSmtpOn(d) ==
    LET Step(s, t) ==
            IF s.login \/ t.cmd = "AUTH LOGIN"
            THEN [out |-> Append(s.out, ShowDecoded(t)), login |-> ~s.login]
            ELSE s
    IN
    FoldLeft(Step, [out |-> <<>>, login |-> FALSE], StrTok(d)).out

DecodeSmtp(d) ==
    LET Step(s, t) ==
            IF s.over THEN s
            ELSE IF s.login \/ t.cmd = "AUTH LOGIN"
            THEN [s EXCEPT !.out = Append(@, ShowDecoded(t)), !.login = ~@]
            ELSE [s EXCEPT !.over = t.cmd \in {"MAIL", "RCPT", "DATA"}]
    IN
    FoldLeft(Step, [out |-> <<>>, login |-> FALSE, over |-> FALSE], StrTok(d)).out

DecodeNntp(d) ==
    LET Generic(s, t) == s.dpa /\ t.cmd = "AUTHINFO GENERIC"
        Step(s, t) ==
            IF s.simple THEN [s EXCEPT !.out = Append(@, Show(t)), !.simple = FALSE]
            ELSE IF t.cmd \in {"AUTHINFO", "AUTHINFO SIMPLE", "AUTHINFO GENERIC", "AUTHINFO GENERIC DPA"}
            THEN [out |-> Append(s.out, IF Generic(s, t) THEN ShowDecoded(t) ELSE Show(t)),
                  simple |-> t.cmd = "AUTHINFO SIMPLE",
                  dpa |-> s.dpa \/ t.cmd = "AUTHINFO GENERIC DPA"]
            ELSE s
    IN
    FoldLeft(Step, [out |-> <<>>, simple |-> FALSE, dpa |-> FALSE], StrTok(d)).out

\* A line loses its first word when the next one starts with a semicolon: the
\* buffer is looked at, not the line
DecodeIrc(d) ==
    LET lines == Ended(d)
        auth == {"PASS", "OPER", "MODE +k", "JOIN with key"}
        skipped(i) == i < Len(d) /\ d[i + 1].cmd = ";"
        kept == {i \in DOMAIN lines : lines[i].cmd \in auth \cup {"USER", "NICK"} /\ ~skipped(i)}
    IN
    IF \A i \in kept : lines[i].cmd \notin auth THEN <<>>
    ELSE ShowAll([n \in 1 .. Cardinality(kept) |->
                      lines[CHOOSE i \in kept : Cardinality({j \in kept : j <= i}) = n]])

\* Five lines; the fourth one starts with an A and is scrambled
DecodeCvs(d) ==
    LET lines == SubSeq(Ended(d), 1, Min({Len(Ended(d)), 5})) IN
    IF lines = <<>> \/ d[1].cmd # "BEGIN" \/ (Len(lines) >= 4 /\ lines[4].cmd # "A") THEN <<>>
    ELSE [n \in DOMAIN lines |-> IF n = 4 THEN ShowDecoded(lines[n]) ELSE Show(lines[n])]

\* The decoder that the trigger has chosen
Decode(protocol, d) ==
    CASE protocol = "telnet" -> DecodeTelnet(d)
      [] protocol = "ftp" -> DecodeFtp(d)
      [] protocol = "imap" -> DecodeImap(d)
      [] protocol = "poppass" -> DecodePoppass(d)
      [] protocol = "pop" -> DecodePop(d)
      [] protocol = "smtp" -> DecodeSmtp(d)
      [] protocol = "nntp" -> DecodeNntp(d)
      [] protocol = "irc" -> DecodeIrc(d)
      [] protocol = "cvs" -> DecodeCvs(d)

LoginsInit ==
    /\ typed \in Typed
    /\ sent = 0
    /\ reported = <<>>
    /\ taken = "no"

\* The client sends a line, of which the end may not be seen
Type ==
    /\ taken = "no"
    /\ sent < Len(typed.tokens)
    /\ sent' = sent + 1
    /\ UNCHANGED <<typed, reported, taken>>

\* The decoder is called: at the end, or because there is enough
TakeLogins(how) ==
    /\ taken = "no"
    /\ sent > 0
    /\ how = "cut" => typed.tokens[sent].kind = "line"
    /\ LET d == SubSeq(typed.tokens, 1, sent) IN
       reported' = Decode(typed.protocol, IF how = "cut" THEN [d EXCEPT ![sent].end = "no"] ELSE d)
    /\ taken' = how
    /\ UNCHANGED <<typed, sent>>

LoginsNext == Type \/ \E how \in {"whole", "cut"} : TakeLogins(how)

LoginsSpec == LoginsInit /\ [][LoginsNext]_lvars

-----------------------------------------------------------------------------
\* With which lines the client logs in, and what they mean
Given ==
    LET lines == SelectSeq(typed.tokens, LAMBDA t : t.login) IN
    [i \in DOMAIN lines |-> ShowDecoded(lines[i])]

\* Wherever it is cut, a session shows the lines of the login in the order of the
\* login, decoded where they are encoded, and nothing else of the session: no
\* other command, no line of a mail even if it looks like a login; and a session
\* that is whole shows all of them.
LoginsAreShown ==
    taken # "no" =>
        /\ IsPrefix(reported, Given)
        /\ (taken = "whole" /\ sent = Len(typed.tokens)) => reported = Given
=============================================================================
