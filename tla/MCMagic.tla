-------------------------------- MODULE MCMagic --------------------------------
(* Small magic files and data for Magic: bytes of 16 values, and for each    *)
(* feature of the file a table that uses it as dsniff.magic does.            *)
EXTENDS Magic

Codes == [NL |-> 1, SP |-> 2, x |-> 3, a |-> 5, b |-> 6, n |-> 7, TAB |-> 8, CR |-> 9,
          BS |-> 10, FF |-> 11, VT |-> 12] @@ ("\\" :> 4) @@ ("!" :> 12) @@ ("0" :> 13) @@ ("7" :> 14) @@ (">" :> 15)

Line(level, offset, type, reln, number, text) ==
    [kind |-> "entry", level |-> level, indir |-> FALSE, in |-> [type |-> "long", offset |-> 0],
     add |-> FALSE, offset |-> offset, unsigned |-> FALSE, type |-> type, mask |-> AllOnes,
     reln |-> reln, number |-> number, text |-> text, newline |-> TRUE,
     means |-> <<>>, name |-> <<>>]

Indir(line, type, offset) == [line EXCEPT !.indir = TRUE, !.in = [type |-> type, offset |-> offset]]
Rel(line) == [line EXCEPT !.add = TRUE]
U(line) == [line EXCEPT !.unsigned = TRUE]

Comment == [kind |-> "comment"]

(* Alternatives on two levels, as for the services on top of a first byte 5 *)
Tree == <<
    Line(0, 0, "byte", "=", 5, <<>>),
    Line(1, 1, "leshort", "=", 2, <<>>),
    Line(2, 3, "byte", "=", 0, <<"s">>),
    Line(1, 1, "leshort", "=", 1, <<"t">>),
    Line(2, 3, "byte", "!", 0, <<"u">>),
    Line(3, 4, "byte", "=", 1, <<>>),
    Line(1, 3, "byte", "=", 0, <<"w">>),
    Line(0, 0, "byte", "=", 5, <<"l">>)>>

(* Offsets relative to what was matched, and offsets found in the data *)
Offsets == <<
    Comment,
    Line(0, 0, "byte", "<", 7, <<"p">>),
    Rel(Line(1, 0, "byte", ">", 0, <<"q">>)),
    Rel(Line(2, 1, "byte", "&", 1, <<"r">>)),
    Rel(Line(1, 1, "leshort", "^", 1, <<"v">>)),
    Indir(Line(1, 1, "byte", "=", 1, <<"i">>), "byte", 1),
    [Indir(Line(1, 2, "short", "=", 1, <<"k">>), "short", 0) EXCEPT !.newline = FALSE]>>

(* Comparisons of each width, sign and byte order *)
Numbers == <<
    U(Line(0, 0, "byte", ">", 9, <<"a">>)),
    Line(1, 1, "byte", ">", 1, <<"b">>),
    U(Line(0, 1, "beshort", "<", 32, <<"c">>)),
    Line(0, 0, "belong", "=", 1 + 5 * Base * Base * Base, <<"d">>),
    Line(0, 1, "lelong", "<", AllOnes, <<"e">>),
    U(Line(0, 0, "leshort", "=", 15 + 15 * Base, <<"f">>)),
    Line(0, 3, "bedate", "!", 0, <<>>),
    Rel(Line(1, 0, "short", "x", 0, <<"g">>))>>

Masked == <<
    [Line(0, 0, "byte", "=", 1, <<"m">>) EXCEPT !.mask = 3],
    [U(Line(0, 1, "byte", "=", 8, <<"u">>)) EXCEPT !.mask = 8],
    Line(0, 0, "byte", "=", 3, <<"y">>)>>

(* A byte written as itself or with a letter, in octal or in hexadecimal *)
Plain(byte) ==
    LET c == CHOOSE d \in DOMAIN Codes : Codes[d] = byte IN
    IF \E e \in DOMAIN Control : Control[e] = c THEN <<"\\", CHOOSE e \in DOMAIN Control : Control[e] = c>>
    ELSE IF c \in {"\\", ">", "SP"} THEN <<"\\", c>> ELSE <<c>>

Octal(byte) == <<"\\", "0", OctalDigits[byte \div 8 + 1], OctalDigits[(byte % 8) + 1]>>

Hex(byte) == <<"\\", "x", "0", HexDigits[byte + 1]>>

Written(byte, style) ==
    IF style = "octal" THEN Octal(byte) ELSE IF style = "hex" THEN Hex(byte) ELSE Plain(byte)

StringLine(bytes, first, rest) ==
    [Line(0, 0, "string", "=", 0,
          FlattenSeq([i \in DOMAIN bytes |-> Written(bytes[i], IF i = 1 THEN first ELSE rest)])
             \o <<"TAB", "a">>)
     EXCEPT !.means = bytes, !.name = <<"a">>]

Strings == <<StringLine(<<5, 6>>, "plain", "plain"), StringLine(<<1, 14>>, "octal", "plain"),
             StringLine(<<2, 13, 4>>, "hex", "plain"), StringLine(<<15, 3>>, "plain", "hex"),
             StringLine(<<4, 9, 12>>, "plain", "octal"), StringLine(<<6, 6, 6, 6, 6>>, "plain", "plain")>>

(* Relations in front of strings, a string that is the letter x, and a line *)
(* that cannot be parsed                                                     *)
Relations == <<
    Line(0, 0, "string", "=", 0, <<">", "a", "SP", "g">>),
    Line(1, 0, "string", "=", 0, <<"SP", "x", "SP", "h">>),
    Rel(Line(2, 0, "string", "=", 0, <<"<", "b", "TAB", "i">>)),
    Line(0, 2, "string", "=", 0, <<"!", "a", "SP", "j">>),
    Line(1, 0, "string", "=", 0, <<"=", "x">>),
    [Line(0, 0, "string", "=", 0, <<"\\">>) EXCEPT !.means = <<>>]>>

Broken == <<Line(0, 0, "byte", "=", 5, <<>>), Indir(Line(0, 0, "byte", "=", 5, <<>>), "byte", 0)>>

AllFiles == {Tree, Offsets, Numbers, Masked, Strings, Relations, Broken, Tree \o Tree}

AllPackets ==
    {<<a, b, c, d>> : a \in {5, 6, 15}, b \in {1, 2, 8}, c \in {0, 1}, d \in {0, 1}}
        \cup {<<5, 2, 0, 1, 1, 0, 0, 1, 0>>, <<5, 3, 0, 1, 0, 0, 1, 0>>, <<1, 0, 1, 0, 0, 0, 0>>,
              <<5, 1, 0, 1, 1>>, <<15, 15, 0>>, <<5, 0, 0, 1>>, <<5>>, <<5, 6, 1, 2>>, <<3>>,
              <<1, 14>>, <<6, 6, 6, 6, 6>>, <<8, 9, 15, 15, 15>>}
=============================================================================
