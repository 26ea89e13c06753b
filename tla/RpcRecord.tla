------------------------------- MODULE RpcRecord -------------------------------
(***************************************************************************)
(* Records of RPC over TCP, as filesnarf reads them: decode_tcp_nfs_half   *)
(* (filesnarf.c) looks for whole records in what has come, and rpc_decode  *)
(* (rpc.c) takes the headers of their fragments out, in libnids' buffer    *)
(* itself.                                                                 *)
(*                                                                         *)
(* The unit is the word of four bytes.  A word is a number whose two lower *)
(* bytes are below ByteBase each and whose highest bit is LastFrag.        *)
(***************************************************************************)
EXTENDS Integers, Sequences, SequencesExt

CONSTANTS
    Wires,          \* the connections: records (sequences of fragments of words), whole
    MaxWords,       \* bound: words that arrive at once
    ByteBase,       \* 2^8 in the source
    MinWords,       \* the words of the shortest message, 5 in the source
    Call, Reply     \* the second word of a message, 0 and 1 in the source

VARIABLES
    wire,           \* what is sent; whole: segments end with records
    arrived,        \* how many words of it have come
    buf,            \* hs->data, what has come and was not discarded
    decoded,        \* the messages that rpc_decode has handed to XDR
    closed,         \* the connection has ended
    spoiled         \* history: records were decoded in a call that then kept its bytes

rvars == <<wire, arrived, buf, decoded, closed, spoiled>>

LastFrag == ByteBase * ByteBase

\* pntohl of a word: its second byte is shifted by ten bits too many
Pntohl(w) == ((w % LastFrag) \div ByteBase) * ByteBase * ByteBase * 4 + (w % ByteBase)

FragLen(w) == Pntohl(w)
IsLast(w) == w >= LastFrag

\* What goes over the wire: each fragment behind its length
Fragment(words, last) == <<(IF last THEN LastFrag ELSE 0) + Len(words)>> \o words

RecordOf(frags) == FlattenSeq([i \in DOMAIN frags |-> Fragment(frags[i], i = Len(frags))])

Words == FlattenSeq([i \in DOMAIN wire.records |-> RecordOf(wire.records[i])])

\* memmove(tmp, tmp + 4, len): the word at p is taken out, the last one is doubled
MoveDown(d, p, n) == [i \in DOMAIN d |-> IF i \in p .. p + n - 1 THEN d[i + 1] ELSE d[i]]

\* mutant: the first fragment is taken for the whole record
DefragmentOne(d, p, n) ==
    LET f == FragLen(d[p]) IN
    IF f + 1 > n THEN [data |-> d, len |-> 0] ELSE [data |-> MoveDown(d, p, n - 1), len |-> p + f - 1]

\* The loop of rpc_decode over the fragments from p on, n words of which are left
RECURSIVE Defragment(_, _, _)
Defragment(d, p, n) ==
    LET f == FragLen(d[p])
        moved == MoveDown(d, p, n - 1)
    IN
    IF f + 1 > n THEN [data |-> d, len |-> 0]
    ELSE IF IsLast(d[p]) THEN [data |-> moved, len |-> p + f - 1]
    ELSE IF n - 1 - f < 1 THEN [data |-> moved, len |-> 0]
    ELSE Defragment(moved, p + f, n - 1 - f)

\* rpc_decode: the words as it leaves them, and the message, if there is one; d[2]
\* tells a message from a fragment
RpcDecode(d) ==
    LET plain == Pntohl(d[2]) \in {Call, Reply}
        in == IF plain THEN [data |-> d, len |-> Len(d)] ELSE Defragment(d, 1, Len(d))
    IN
    IF Len(d) < MinWords THEN [data |-> d, message |-> <<>>]
    ELSE [data |-> in.data, message |-> SubSeq(in.data, 1, in.len)]

\* The loop of decode_tcp_nfs_half: start is buf, p the place of the next header; a
\* fragment that has not come whole ends it with 0, whatever was decoded before
RECURSIVE Half(_, _, _, _)
Half(d, start, p, messages) ==
    LET next == p + 1 + FragLen(d[p])
        rpc == RpcDecode(SubSeq(d, start, next - 1))
    IN
    IF p + 1 > Len(d) THEN [data |-> d, discard |-> start - 1, messages |-> messages]
    ELSE IF next > Len(d) + 1 THEN [data |-> d, discard |-> 0, messages |-> messages]
    ELSE IF IsLast(d[p])
    THEN Half(SubSeq(d, 1, start - 1) \o rpc.data \o SubSeq(d, next, Len(d)), next, next,
              IF rpc.message = <<>> THEN messages ELSE Append(messages, rpc.message))
    ELSE Half(d, start, next, messages)

RpcInit ==
    /\ wire \in Wires
    /\ arrived = 0
    /\ buf = <<>>
    /\ decoded = <<>>
    /\ closed = FALSE
    /\ spoiled = FALSE

Ends == {Len(FlattenSeq([i \in 1 .. k |-> RecordOf(wire.records[i])])) : k \in 0 .. Len(wire.records)}

\* One call of decode_tcp_nfs_half: what it discards is gone
DecodeTcpNfsHalf(d) ==
    LET half == Half(d, 1, 1, <<>>) IN
    /\ buf' = SubSeq(half.data, half.discard + 1, Len(half.data))
    /\ decoded' = decoded \o half.messages
    /\ spoiled' = (spoiled \/ (half.messages # <<>> /\ half.discard = 0))

\* decode_tcp_nfs at NIDS_DATA: n more words have come
Arrive(n) ==
    /\ ~closed
    /\ arrived + n <= Len(Words)
    /\ wire.whole => arrived + n \in Ends
    /\ arrived' = arrived + n
    /\ DecodeTcpNfsHalf(buf \o SubSeq(Words, arrived + 1, arrived + n))
    /\ UNCHANGED <<wire, closed>>

\* At the end of the connection, what is left is looked at once more
Close ==
    /\ ~closed
    /\ closed' = TRUE
    /\ IF arrived > 0 THEN DecodeTcpNfsHalf(buf) ELSE UNCHANGED <<buf, decoded, spoiled>>
    /\ UNCHANGED <<wire, arrived>>

RpcNext == (\E n \in 1 .. MaxWords : Arrive(n)) \/ Close

RpcSpec == RpcInit /\ [][RpcNext]_rvars

-----------------------------------------------------------------------------
\* The messages whose records have come
Sent ==
    LET n(k) == Len(FlattenSeq([i \in 1 .. k |-> RecordOf(wire.records[i])]))
        come == {k \in DOMAIN wire.records : n(k) <= arrived}
    IN  [k \in come |-> FlattenSeq(wire.records[k])]

\* Every record that has come is decoded, once, in order and with its fragments put
\* together, however it is cut: as long as no call keeps what it has decoded, as it
\* does when a record is followed by a part of the next one, and no fragment is so
\* long that its length has a second byte.
RecordsOnce ==
    (~spoiled /\ \A k \in DOMAIN wire.records : \A i \in DOMAIN wire.records[k] :
                     Len(wire.records[k][i]) < ByteBase)
        => decoded = Sent
=============================================================================
