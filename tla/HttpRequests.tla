----------------------------- MODULE HttpRequests -----------------------------
(***************************************************************************)
(* The three readers of HTTP requests: urlsnarf and webspy, which look at  *)
(* what a client sends as it comes (process_http_request), and decode_http *)
(* of dsniff, which gets all of it when the connection ends.               *)
(*                                                                         *)
(* What is sent is a sequence of lines and of pieces of bodies, which have *)
(* no line end in them, and arrives in segments of any size.  URIs name a  *)
(* path and are not absolute.                                              *)
(***************************************************************************)
EXTENDS Integers, Sequences, FiniteSets, SequencesExt, FiniteSetsExt

CONSTANTS
    Visits,         \* the connections: reader, requests, together, see below
    MaxSegment,     \* bound: tokens that arrive at once
    Unmatched,      \* hosts that the pattern leaves out
    Displayed,      \* URIs with a suffix that webspy shows
    Logins,         \* queries and bodies with the field of a user and of a password
    Absent          \* NULL, and what is printed for it

(* A request: method, uri, headers (a sequence of names and values) and body *)
(* (a sequence of pieces).  Together: no segment ends between a head and the *)
(* end of its body.                                                          *)

VARIABLES
    visit,          \* what this client sends, and to which reader it is shown
    sent,           \* how many of its tokens have come
    data,           \* ts->server.data
    nids_state,     \* "open", "close", or "crashed"
    reported        \* what the reader has printed

hvars == <<visit, sent, data, nids_state, reported>>

Token(k, name, value) == [k |-> k, name |-> name, value |-> value]

CRLF == Token("crlf", "", Absent)

HeadOf(r) == <<Token("req", r.method, r.uri)>> \o
           [i \in DOMAIN r.headers |-> Token("hdr", r.headers[i].name, r.headers[i].value)] \o <<CRLF>>

BodyOf(r) == [i \in DOMAIN r.body |-> Token("body", "", r.body[i])]

Whole(r) == HeadOf(r) \o BodyOf(r)

Wire == FlattenSeq([i \in DOMAIN visit.requests |-> Whole(visit.requests[i])])

\* The first byte of a token is overwritten: a line stays a line, but is none to strtok
NulToken(t) == Token("nul", t.k, t.value)

EndsLine(t) == t.k \in {"req", "hdr", "crlf"} \/ (t.k = "nul" /\ t.name \in {"req", "hdr"})

Drop(d, n) == IF n >= Len(d) THEN <<>> ELSE SubSeq(d, n + 1, Len(d))

Take(d, n) == IF n >= Len(d) THEN d ELSE SubSeq(d, 1, n)

\* buf_index of "\r\n\r\n": the place of the empty line behind the first head, or 0
HeadEnd(d) ==
    LET ends == {i \in 2 .. Len(d) : d[i] = CRLF /\ EndsLine(d[i - 1])} IN
    IF ends = {} THEN 0 ELSE Min(ends)

\* The lines that strtok finds: none in a string that starts with NUL; a line with a
\* piece of a body in front of it is no line of a request
LinesOf(msg) ==
    LET glued(i) == i > 1 /\ msg[i - 1].k = "body"
        line(i) == IF glued(i) THEN Token("body", "", Absent) ELSE msg[i]
        real == SelectSeq([i \in DOMAIN msg |-> i],
                          LAMBDA i : msg[i].k \in {"req", "hdr"} \/ (glued(i) /\ msg[i].k = "crlf"))
    IN
    IF msg # <<>> /\ msg[1].k = "nul" THEN <<>> ELSE [i \in DOMAIN real |-> line(real[i])]

IsRequest(lines) == lines[1].k = "req" /\ lines[1].name \in {"GET", "POST", "CONNECT"}

\* The value of the last header of a name
HeaderOf(lines, name) ==
    LET at == {i \in 2 .. Len(lines) : lines[i].k = "hdr" /\ lines[i].name = name} IN
    IF at = {} THEN Absent ELSE lines[Max(at)].value

Lengths(lines) ==
    LET of == SelectSeq(Drop(lines, 1), LAMBDA t : t.k = "hdr" /\ t.name = "Content-length") IN
    [i \in DOMAIN of |-> of[i].value]

\* regex_match: a pattern for the name of the host in the head
RegexMatch(lines) ==
    HeaderOf(lines, "Host") \notin Unmatched

Report(lines) ==
    [req |-> lines[1].name, uri |-> lines[1].value, user |-> HeaderOf(lines, "Authorization"),
     vhost |-> HeaderOf(lines, "Host"), referer |-> HeaderOf(lines, "Referer")]

\* mutant: the body is not skipped
AfterBodyNever(lines, rest) == rest

\* buf_tok(NULL, NULL, i) for each Content-length: what has come of the body
AfterBody(lines, rest) == FoldLeft(Drop, rest, Lengths(lines))

\* What a call leaves: the bytes it keeps, what it has printed, whether it has crashed
Left(d, printed, crashed) == [data |-> d, printed |-> printed, crashed |-> crashed]

\* process_http_request of urlsnarf
RECURSIVE UrlRequests(_, _)
UrlRequests(d, printed) ==
    LET i == HeadEnd(d)
        lines == LinesOf(SubSeq(d, 1, i - 1))
        rest == Drop(d, i)
    IN
    IF i = 0 THEN Left(d, printed, FALSE)
    ELSE IF RegexMatch(lines) /\ lines # <<>> /\ IsRequest(lines)
    THEN UrlRequests(AfterBody(lines, rest), Append(printed, Report(lines)))
    ELSE UrlRequests(rest, printed)

\* is_display_uri
IsDisplayUri(uri) == uri \in Displayed

\* openURL(...).  strtok(uri, " ") leaves the head for the request line, and the loop
\* over the headers finds none: there is no login, and the host is the looked-up address.
OpenUrl(lines) == [uri |-> lines[1].value, user |-> Absent, vhost |-> Absent]

\* process_http_request of webspy: bodies are not skipped, and a head without a line
\* is handed to strncmp as NULL
RECURSIVE SpyRequests(_, _)
SpyRequests(d, printed) ==
    LET i == HeadEnd(d)
        lines == LinesOf(SubSeq(d, 1, i - 1))
        rest == Drop(d, i)
    IN
    IF i = 0 THEN Left(d, printed, FALSE)
    ELSE IF lines = <<>> THEN Left(d, printed, TRUE)
    ELSE IF IsRequest(lines) /\ IsDisplayUri(lines[1].value)
    THEN SpyRequests(rest, Append(printed, OpenUrl(lines)))
    ELSE SpyRequests(rest, printed)

\* grep_query_auth
GrepQueryAuth(query) == query \in Logins

\* The loop over a request's headers that decode_http makes for a POST: the body that
\* has come becomes the query, and the byte behind it is overwritten
BodyRead(acc, line) ==
    IF line.name = "Content-type"
    THEN IF line.value = "form" THEN acc ELSE [acc EXCEPT !.query = <<>>]
    ELSE IF line.name = "Content-length" /\ acc.rest # <<>>
    THEN LET after == Drop(acc.rest, line.value) IN
         [query |-> Take(acc.rest, line.value),
          rest |-> IF after = <<>> THEN after ELSE [after EXCEPT ![1] = NulToken(@)]]
    ELSE acc

PostBody(lines, rest) ==
    LET of == IF lines[1].name # "POST" THEN <<>> ELSE SelectSeq(Drop(lines, 1), LAMBDA t : t.k = "hdr") IN
    FoldLeft(BodyRead, [query |-> <<lines[1]>>, rest |-> rest], of)

\* One request of decode_http that has a login in it
Decoded(lines, query) ==
    [req |-> lines[1].name, uri |-> lines[1].value, host |-> HeaderOf(lines, "Host"),
     pauth |-> HeaderOf(lines, "Proxy-authorization"), auth |-> HeaderOf(lines, "Authorization"),
     query |-> IF HeaderOf(lines, "Authorization") = Absent /\ lines[1].name = "POST"
               THEN [i \in DOMAIN query |-> query[i].value] ELSE <<>>]

HasLogin(lines, query) ==
    \/ HeaderOf(lines, "Authorization") # Absent
    \/ HeaderOf(lines, "Proxy-authorization") # Absent
    \/ \E i \in DOMAIN query : GrepQueryAuth(query[i].value)

\* decode_http
RECURSIVE DecodeHttp(_, _)
DecodeHttp(d, printed) ==
    LET i == HeadEnd(d)
        lines == LinesOf(SubSeq(d, 1, i - 1))
        body == PostBody(lines, Drop(d, i))
    IN
    IF i = 0 THEN Left(d, printed, FALSE)
    ELSE IF lines = <<>> \/ ~IsRequest(lines) THEN DecodeHttp(Drop(d, i), printed)
    ELSE DecodeHttp(body.rest,
                    IF HasLogin(lines, body.query) THEN Append(printed, Decoded(lines, body.query)) ELSE printed)

-----------------------------------------------------------------------------
\* NIDS_JUST_EST
HttpInit ==
    /\ visit \in Visits
    /\ sent = 0
    /\ data = <<>>
    /\ nids_state = "open"
    /\ reported = <<>>

\* A segment may end after n tokens of the wire
MayEnd(n) ==
    visit.together =>
        \E k \in 0 .. Len(visit.requests) :
            LET before == Len(FlattenSeq([j \in 1 .. k |-> Whole(visit.requests[j])]))
            IN  n = before \/ (k < Len(visit.requests) /\ n \in before .. before + Len(HeadOf(visit.requests[k + 1])) - 1)

\* NIDS_DATA: what is not used is kept; dsniff keeps it all
HttpData(n) ==
    LET new == data \o SubSeq(Wire, sent + 1, sent + n)
        left == IF visit.reader = "urlsnarf" THEN UrlRequests(new, <<>>)
                ELSE IF visit.reader = "webspy" THEN SpyRequests(new, <<>>)
                ELSE Left(new, <<>>, FALSE)
    IN
    /\ nids_state = "open"
    /\ sent + n <= Len(Wire)
    /\ MayEnd(sent + n)
    /\ sent' = sent + n
    /\ data' = left.data
    /\ reported' = reported \o left.printed
    /\ nids_state' = IF left.crashed THEN "crashed" ELSE "open"
    /\ UNCHANGED visit

\* The end of the connection, at any time
HttpClose ==
    LET left == IF visit.reader = "urlsnarf" THEN UrlRequests(data, <<>>)
                ELSE IF visit.reader = "webspy" THEN SpyRequests(data, <<>>)
                ELSE DecodeHttp(data, <<>>)
    IN
    /\ nids_state = "open"
    /\ nids_state' = IF left.crashed THEN "crashed" ELSE "close"
    /\ data' = left.data
    /\ reported' = reported \o left.printed
    /\ UNCHANGED <<visit, sent>>

HttpNext == (\E n \in 1 .. MaxSegment : HttpData(n)) \/ HttpClose

HttpSpec == HttpInit /\ [][HttpNext]_hvars

-----------------------------------------------------------------------------
\* What has come of the i-th request
Come(i) ==
    LET before == Len(FlattenSeq([j \in 1 .. i - 1 |-> Whole(visit.requests[j])])) IN
    IF sent <= before THEN <<>> ELSE Take(Whole(visit.requests[i]), sent - before)

\* What the reader says of that alone
Alone(d) ==
    IF visit.reader = "urlsnarf" THEN UrlRequests(d, <<>>).printed
    ELSE IF visit.reader = "webspy" THEN SpyRequests(d, <<>>).printed
    ELSE IF nids_state = "close" THEN DecodeHttp(d, <<>>).printed ELSE <<>>

\* A request behind which the reader finds the next one: it has no body; or, for
\* urlsnarf, a body that is skipped, because the pattern matches its head, its
\* length is given and it came with the head.  The byte that decode_http writes
\* behind a body is the first of the next request.
Followed(r) ==
    LET lines == LinesOf(HeadOf(r)) IN
    \/ r.body = <<>>
    \/ /\ visit.reader = "urlsnarf"
       /\ visit.together
       /\ RegexMatch(lines)
       /\ IsRequest(lines)
       /\ Lengths(lines) = <<Len(r.body)>>

\* Each request is reported as it would be alone, once and in order, wherever the
\* segments end, as long as the reader can find the request behind every body.
RequestsReported ==
    LET begun == {i \in DOMAIN visit.requests : Come(i) # <<>>} IN
    (\A i \in begun : i + 1 \in begun => Followed(visit.requests[i])) =>
        reported = FlattenSeq([i \in DOMAIN visit.requests |-> Alone(Come(i))])
=============================================================================
