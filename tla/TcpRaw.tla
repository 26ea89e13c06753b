-------------------------------- MODULE TcpRaw --------------------------------
(***************************************************************************)
(* Half-duplex reassembly of TCP streams (tcp_raw.c, dsniff -c): a hash    *)
(* table of streams, each with the segments it has kept, sorted and joined *)
(* when there is enough of them, when the stream ends, or when nothing has *)
(* come for a while.                                                       *)
(*                                                                         *)
(* A chain of the table is a sequence; the empty node the source keeps at  *)
(* the end of every chain is its end.  A node is found by its struct tha,  *)
(* see Tha; a segment is told by its sequence number, its length and what  *)
(* it carries.  Times are ages: `now - mtime', counted up to the first     *)
(* that is too old.                                                        *)
(***************************************************************************)
EXTENDS Integers, Sequences, SequencesExt

CONSTANTS
    Buckets,        \* 0 .. TCP_HASHSIZE - 1
    HashOf,         \* HashOf[port]: port % TCP_HASHSIZE
    Opt_snaplen,    \* the bytes a stream is decoded at
    RawTimeout      \* TRIGGER_TCP_RAW_TIMEOUT

ASSUME TcpRawAssumption ==
    /\ Opt_snaplen \in Nat \ {0}
    /\ RawTimeout \in Nat
    /\ \A port \in DOMAIN HashOf : HashOf[port] \in Buckets

VARIABLE conntab        \* conntab[b]: the streams of a chain, the first one first

NoStream == <<>>

\* The struct tha of segment s.  Its port is a u_short, which keeps the destination
\* port alone: all streams between two hosts to one port share a node.  The two
\* bytes of padding, which memcmp compares too, are never set.
Tha(s, padding) == [src |-> s.src, dst |-> s.dst, port |-> s.dport, padding |-> padding]

\* How many bytes the segments have together
Bytes(seg) == FoldSeq(LAMBDA s, n : s.len + n, 0, seg)

\* qsort with tcp_seg_compare: the segments in one of their orders
InOrder(seg) ==
    LET order == CHOOSE p \in Bijection(DOMAIN seg, DOMAIN seg) :
            \A i, j \in DOMAIN seg : i <= j => seg[p[i]].seq <= seg[p[j]].seq
    IN  [i \in DOMAIN seg |-> seg[order[i]]]

\* mutant: the last element is never compared
BSearchShort(seg, seq) ==
    \E i \in 1 .. Len(seg) - 1 : seg[i].seq = seq

\* bsearch with tcp_seg_compare, which halves the array as it stands: it is in
\* the order of arrival, and only sorted when the segments came in order
BSearch(seg, seq) ==
    LET search[range \in (1 .. Len(seg) + 1) \X (1 .. Len(seg) + 1)] ==
            LET lo == range[1]
                hi == range[2]
                mid == (lo + hi) \div 2
            IN  IF lo >= hi THEN FALSE
                ELSE IF seg[mid].seq = seq THEN TRUE
                ELSE IF seq < seg[mid].seq THEN search[<<lo, mid>>]
                ELSE search[<<mid + 1, hi>>]
    IN  search[<<1, Len(seg) + 1>>]

\* tcp_raw_reassemble: the segments in order, nothing when there are too few
TcpRawReassemble(conn, minlen) ==
    IF Bytes(conn.seg) < minlen THEN NoStream ELSE InOrder(conn.seg)

\* tcp_raw_delete: the next node moves into the place of the deleted one
TcpRawDelete(tab, b, i) == [tab EXCEPT ![b] = RemoveAt(@, i)]

\* The place of a node in its chain, 0 when it is not there
PlaceOf(tab, tha) ==
    LET chain == tab[HashOf[tha.port]] IN
    IF \E i \in DOMAIN chain : chain[i].tha = tha
    THEN CHOOSE i \in DOMAIN chain : chain[i].tha = tha
    ELSE 0

\* A SYN opens a node at the end of the chain
Opened(tab, tha) ==
    [tab EXCEPT ![HashOf[tha.port]] = Append(@, [tha |-> tha, age |-> 0, seg |-> <<>>])]

\* The node after the segment has been kept, unless its number is found there.  (The
\* source port is a history: the code does not keep it.)
Kept(conn, s) ==
    IF BSearch(conn.seg, s.seq) THEN conn
    ELSE [conn EXCEPT !.seg = Append(@, [seq |-> s.seq, len |-> s.len, load |-> s.load, sport |-> s.sport])]

\* tcp_raw_input: the table after segment s, and the stream when it is complete
TcpRawInput(tab, s, tha) ==
    LET b == HashOf[tha.port]
        i == PlaceOf(tab, tha)
        young == [tab EXCEPT ![b][i].age = 0]
        conn == Kept(tab[b][i], s)
        ends == TcpRawReassemble(tab[b][i], 1)
        enough == TcpRawReassemble(conn, Opt_snaplen)
    IN
    IF ~s.good THEN [tab |-> tab, iov |-> NoStream]
    ELSE IF i = 0
    THEN [tab |-> IF "SYN" \in s.flags THEN Opened(tab, tha) ELSE tab, iov |-> NoStream]
    ELSE IF s.flags \cap {"FIN", "RST"} # {}
    THEN IF ends = NoStream THEN [tab |-> young, iov |-> NoStream]
         ELSE [tab |-> TcpRawDelete(tab, b, i), iov |-> ends]
    ELSE IF "ACK" \in s.flags /\ s.len > 0 /\ conn # tab[b][i]
    THEN IF enough = NoStream
         THEN [tab |-> [young EXCEPT ![b][i].seg = conn.seg], iov |-> NoStream]
         ELSE [tab |-> TcpRawDelete(tab, b, i), iov |-> enough]
    ELSE [tab |-> young, iov |-> NoStream]

\* mutant: the comparison the other way round
OldWhenYoung(conn) == conn.age < RawTimeout

\* The times of tcp_raw_timeout
Old(conn) == conn.age > RawTimeout

\* A second passes
Aged(tab) ==
    [b \in Buckets |->
        [i \in DOMAIN tab[b] |->
            [tab[b][i] EXCEPT !.age = IF @ > RawTimeout THEN @ ELSE @ + 1]]]

-----------------------------------------------------------------------------
\* A segment is kept twice only in a node whose segments came out of order: bsearch
\* is right as long as the array is sorted, and it is not sorted again before the
\* stream is handed over.
TwiceOnlyOutOfOrder ==
    \A b \in Buckets : \A i \in DOMAIN conntab[b] :
        LET seg == conntab[b][i].seg IN
        (\A k \in 1 .. Len(seg) - 1 : seg[k].seq <= seg[k + 1].seq)
            => \A k \in 1 .. Len(seg) - 1 : seg[k].seq < seg[k + 1].seq

\* A node holds the segments of one stream, the "half-duplex stream associated with
\* this segment".  Two connections between two hosts to one port refute it.
StreamsAreApart ==
    \A b \in Buckets : \A i \in DOMAIN conntab[b] :
        \A s, t \in Range(conntab[b][i].seg) : s.sport = t.sport
=============================================================================
