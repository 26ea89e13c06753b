-------------------------------- MODULE Magic --------------------------------
(***************************************************************************)
(* The magic table of dsniff -m (magic.c): the lines of dsniff.magic are   *)
(* parsed into entries, and the first bytes of a packet or a stream are    *)
(* compared with them, main entries first and then the continuations of    *)
(* the one that matches.                                                   *)
(*                                                                         *)
(* A byte has Base values, a short two bytes and a long four, so that TLC  *)
(* can count; the machine is little-endian.  A line comes split into its   *)
(* fields, except for the text of a string, which is characters.  The type *)
(* "null", at which dsniff exits when it reaches the entry, is left out,   *)
(* and so are offsets before the data.                                     *)
(***************************************************************************)
EXTENDS Integers, Sequences, FiniteSets, SequencesExt, FiniteSetsExt, Bitwise

CONSTANTS
    Base,       \* the values of a byte, 256 in the source
    VALSIZE,    \* sizeof(union VALUETYPE), 32
    TimeSize,   \* sizeof(time_t)
    Magicmax,   \* the size of the table, 512
    DescSize,   \* sizeof(m->desc), 50
    CodeOf,     \* CodeOf[c]: the byte of character c
    Files,      \* the magic files to start with
    Packets     \* the data that is to be recognised

VARIABLES
    Magic,      \* the table
    lines,      \* the lines of the file that are still to be read
    pc,         \* "init", "run", or "exit" after errx
    asked,      \* the data magic_match was called with last
    found,      \* what it has returned
    origin      \* history: the lines of the entries

vars == <<Magic, lines, pc, asked, found, origin>>

Word == Base * Base * Base * Base

AllOnes == Word - 1

Shorts == {"short", "beshort", "leshort"}
Longs == {"long", "belong", "lelong"}
Dates == {"date", "bedate", "ledate"}

NUL == 0

-----------------------------------------------------------------------------
(* Parsing                                                                 *)

Blank == {"SP", "TAB", "NL"}

OctalDigits == <<"0", "1", "2", "3", "4", "5", "6", "7">>
HexDigits == OctalDigits \o <<"8", "9", "a", "b", "c", "d", "e", "f">>

\* hextoint, and the same for octal digits: the digit's value, -1 for another
DigitOf(digits, c) ==
    IF Contains(digits, c) THEN (CHOOSE i \in DOMAIN digits : digits[i] = c) - 1 ELSE -1

\* What C writes after a backslash for a control character
Control == [n |-> "NL", r |-> "CR", b |-> "BS", t |-> "TAB", f |-> "FF", v |-> "VT"]

\* The digits from place i on, n at most, as a number and a width
Number(s, i, digits, n) ==
    LET isDigit(k) == k <= Len(s) /\ DigitOf(digits, s[k]) >= 0
        width == CHOOSE w \in 0 .. n :
                    /\ \A k \in i .. i + w - 1 : isDigit(k)
                    /\ w < n => ~isDigit(i + w)
    IN  [width |-> width,
         value |-> FoldLeft(LAMBDA v, c : v * Len(digits) + DigitOf(digits, c), 0,
                            SubSeq(s, i, i + width - 1))]

\* One character or one escape from place i on: its width and its byte
Unit(s, i) ==
    LET octal == Number(s, i + 1, OctalDigits, 3)
        hex == Number(s, i + 2, HexDigits, 2)
    IN
    IF s[i] # "\\" THEN [width |-> 1, byte |-> CodeOf[s[i]]]
    ELSE IF octal.width > 0 THEN [width |-> 1 + octal.width, byte |-> octal.value % Base]
    ELSE IF s[i + 1] = "x"
    THEN [width |-> 2 + hex.width,
          byte |-> IF hex.width = 0 THEN CodeOf["x"] ELSE hex.value % Base]
    ELSE IF s[i + 1] \in DOMAIN Control THEN [width |-> 2, byte |-> CodeOf[Control[s[i + 1]]]]
    ELSE [width |-> 2, byte |-> CodeOf[s[i + 1]]]

\* getstr: the bytes up to a blank, VALSIZE - 1 at most, and the text behind the
\* blank or behind the first character that is too many
GetStr(s) ==
    LET scan[i \in 1 .. Len(s) + 3, bytes \in Seq(0 .. Base - 1)] ==
            IF i > Len(s) \/ (s[i] = "\\" /\ i = Len(s)) THEN [bytes |-> bytes, rest |-> <<>>]
            ELSE IF s[i] \in Blank \/ Len(bytes) >= VALSIZE - 1
            THEN [bytes |-> bytes, rest |-> IF i = Len(s) THEN <<>> ELSE SubSeq(s, i + 1, Len(s))]
            ELSE scan[i + Unit(s, i).width, Append(bytes, Unit(s, i).byte)]
    IN  scan[1, <<>>]

\* signextend
SignExtend(m, v) ==
    LET extended(n) == IF v % n >= n \div 2 THEN (v % n) + Word - n ELSE v % n IN
    IF ~m.unsigned THEN v
    ELSE IF m.type = "byte" THEN extended(Base)
    ELSE IF m.type \in Shorts THEN extended(Base * Base)
    ELSE v

\* The text of a string's line after its relation, and the relation: a "!" is
\* the text's first character, "x" is a relation when a blank follows
StringReln(text) ==
    IF text # <<>> /\ text[1] \in {">", "<", "&", "^", "="}
    THEN [reln |-> text[1], text |-> Tail(text)]
    ELSE IF Len(text) > 1 /\ text[1] = "x" /\ text[2] \in Blank
    THEN [reln |-> "x", text |-> Tail(text)]
    ELSE [reln |-> "=", text |-> text]

\* The text without the blanks before it
Skipped(s) ==
    LET words == {i \in DOMAIN s : s[i] \notin Blank} IN
    IF words = {} THEN <<>> ELSE SubSeq(s, Min(words), Len(s))

\* strlcpy to desc
Desc(s) == SubSeq(Skipped(s), 1, Min({DescSize - 1, Len(Skipped(s))}))

\* Indirection and relative offsets are for continuations only
BadOffset(line) == line.level = 0 /\ (line.indir \/ line.add)

\* magic_parse and getvalue
MagicParse(line) ==
    LET entry == [level |-> line.level, indir |-> line.indir, in |-> line.in, add |-> line.add,
                  offset |-> line.offset, unsigned |-> line.unsigned, type |-> line.type]
        with(reln, number, bytes, rest) ==
            [level |-> entry.level, indir |-> entry.indir, in |-> entry.in, add |-> entry.add,
             offset |-> entry.offset, unsigned |-> entry.unsigned, type |-> entry.type,
             mask |-> SignExtend(entry, line.mask), reln |-> reln, number |-> number, bytes |-> bytes, desc |-> Desc(rest)]
        string == StringReln(Skipped(line.text))
        value == GetStr(Skipped(string.text))
    IN
    IF line.type = "string"
    THEN IF string.reln = "x" THEN with("x", 0, <<>>, string.text)
         ELSE with(string.reln, 0, value.bytes, value.rest)
    ELSE IF line.reln = "x" THEN with("x", 0, <<>>, line.text)
    ELSE with(line.reln, SignExtend(entry, line.number), <<>>, line.text)

\* fgets and buf[strlen(buf) - 1] = 0: a last line without a newline loses its
\* last character
Chopped(line) == IF line.newline THEN line ELSE [line EXCEPT !.text = Front(@)]

-----------------------------------------------------------------------------
(* Matching                                                                *)

\* A C string ends before the first NUL
StrLen(s) == LET nuls == {i \in DOMAIN s : s[i] = NUL} IN IF nuls = {} THEN Len(s) ELSE Min(nuls) - 1

\* mconvert: the bytes in the order of the machine; a string ends at a newline
MConvert(p, m) ==
    IF m.type = "string"
    THEN [i \in DOMAIN p |->
            IF i = VALSIZE \/ \E k \in 1 .. i :
                    p[k] = CodeOf["NL"] /\ \A j \in 1 .. k - 1 : p[j] # NUL
            THEN NUL ELSE p[i]]
    ELSE IF m.type = "beshort" THEN [p EXCEPT ![1] = p[2], ![2] = p[1]]
    ELSE IF m.type \in {"belong", "bedate"}
    THEN [p EXCEPT ![1] = p[4], ![2] = p[3], ![3] = p[2], ![4] = p[1]]
    ELSE p

ByteOf(p) == p[1]
ShortOf(p) == p[1] + Base * p[2]
LongOf(p) == p[1] + Base * (p[2] + Base * (p[3] + Base * p[4]))

\* VALSIZE bytes of the data from the offset on, with zeroes behind its end
BytesAt(data, offset) ==
    [i \in 1 .. VALSIZE |-> IF offset + i <= Len(data) THEN data[offset + i] ELSE NUL]

\* The offset that an indirect entry reads
Indirect(p, m) ==
    m.in.offset + (CASE m.in.type = "byte" -> ByteOf(p)
                     [] m.in.type = "short" -> ShortOf(p)
                     [] m.in.type = "long" -> LongOf(p))

\* mget: the value at the entry's offset; {} when an indirect one is too far
MGet(data, m) ==
    LET p == MConvert(BytesAt(data, m.offset), m) IN
    IF ~m.indir THEN {p}
    ELSE IF Indirect(p, m) + VALSIZE > Len(data) THEN {}
    ELSE {MConvert(BytesAt(data, Indirect(p, m)), m)}

\* The first difference between the data and the string, as an unsigned long
StrDiff(p, bytes) ==
    LET differ == {i \in DOMAIN bytes : p[i] # bytes[i]} IN
    IF differ = {} THEN 0 ELSE (p[Min(differ)] - bytes[Min(differ)]) % Word

Signed(v) == IF v >= Word \div 2 THEN v - Word ELSE v

\* The value of the entry is the letter x: the string, or the number
IsX(m) ==
    IF m.type = "string" THEN SubSeq(m.bytes \o <<NUL, NUL>>, 1, 2) = <<CodeOf["x"], NUL>>
    ELSE m.number % (Base * Base) = CodeOf["x"]

\* The number that is compared
Value(p, m) ==
    LET v == IF m.type = "string" THEN StrDiff(p, m.bytes)
             ELSE IF m.type = "byte" THEN ByteOf(p)
             ELSE IF m.type \in Shorts THEN ShortOf(p)
             ELSE LongOf(p)
    IN  SignExtend(m, v) & m.mask

\* mcheck
MCheck(p, m) ==
    LET v == Value(p, m)
        l == m.number
    IN
    \/ IsX(m)
    \/ CASE m.reln = "x" -> TRUE
         [] m.reln = "=" -> v = l
         [] m.reln = "!" -> v # l
         [] m.reln = ">" -> IF m.unsigned THEN v > l ELSE Signed(v) > Signed(l)
         [] m.reln = "<" -> IF m.unsigned THEN v < l ELSE Signed(v) < Signed(l)
         [] m.reln = "&" -> (v & l) = l
         [] m.reln = "^" -> (v & l) # l

\* mprint: where the value ends
MPrint(p, m) ==
    m.offset + (IF m.type = "byte" THEN 1
                ELSE IF m.type \in Shorts THEN 2
                ELSE IF m.type \in Longs THEN 4
                ELSE IF m.type \in Dates THEN TimeSize
                ELSE IF m.reln = "=" THEN StrLen(m.bytes)
                ELSE StrLen(p))

\* The values with which an entry matches: none or one
Matching(data, m) == {p \in MGet(data, m) : MCheck(p, m)}

\* The entry with a relative offset moved behind what the level above has matched
Moved(m, tmpoff, level) == IF m.add THEN [m EXCEPT !.offset = @ + tmpoff[level]] ELSE m

\* mutant: the level does not come back down
ContinuationStays(data, state, m) ==
    LET here == Moved(m, state.tmpoff, m.level)
        hits == Matching(data, here)
    IN
    IF state.level < m.level \/ hits = {} THEN state
    ELSE [level |-> state.level + 1,
          tmpoff |-> SubSeq(state.tmpoff, 1, m.level)
                        \o <<MPrint(CHOOSE p \in hits : TRUE, here)>>,
          match |-> m.desc]

\* One continuation of the entry that has matched
Continuation(data, state, m) ==
    LET level == IF state.level > m.level THEN m.level ELSE state.level
        here == Moved(m, state.tmpoff, m.level)
        hits == Matching(data, here)
    IN
    IF state.level < m.level THEN state
    ELSE IF hits = {} THEN [state EXCEPT !.level = level]
    ELSE [level |-> level + 1,
          tmpoff |-> SubSeq(state.tmpoff, 1, level)
                        \o <<MPrint(CHOOSE p \in hits : TRUE, here)>>,
          match |-> m.desc]

\* The entries from which the loop goes on: those without a level above
Mains(table) == {i \in DOMAIN table : i = 1 \/ table[i].level = 0}

\* The continuations behind a main entry
Continuations(table, i) ==
    LET ends == {j \in i + 1 .. Len(table) : table[j].level = 0} IN
    SubSeq(table, i + 1, IF ends = {} THEN Len(table) ELSE Min(ends) - 1)

\* magic_match: the description of the last entry that matched, empty for none
MagicMatch(table, data) ==
    LET hits == {i \in Mains(table) : Matching(data, table[i]) # {}}
        i == Min(hits)
        start == [level |-> 1,
                  tmpoff |-> <<MPrint(CHOOSE p \in Matching(data, table[i]) : TRUE, table[i])>>,
                  match |-> table[i].desc]
    IN
    IF hits = {} THEN <<>>
    ELSE FoldLeft(LAMBDA state, m : Continuation(data, state, m), start,
                  Continuations(table, i)).match

-----------------------------------------------------------------------------
Init ==
    /\ Magic = <<>>
    /\ lines \in Files
    /\ pc = "init"
    /\ asked = <<>>
    /\ found = <<>>
    /\ origin = <<>>

\* magic_init: a comment or an empty line
SkipLine ==
    /\ pc = "init"
    /\ lines # <<>>
    /\ Head(lines).kind = "comment"
    /\ lines' = Tail(lines)
    /\ UNCHANGED <<Magic, pc, asked, found, origin>>

\* magic_init: a line; errx when the table is full or the offset is none
ParseLine ==
    /\ pc = "init"
    /\ lines # <<>>
    /\ Head(lines).kind = "entry"
    /\ lines' = Tail(lines)
    /\ IF Len(Magic) + 1 > Magicmax \/ BadOffset(Head(lines))
       THEN pc' = "exit" /\ UNCHANGED <<Magic, origin>>
       ELSE /\ Magic' = Append(Magic, MagicParse(Chopped(Head(lines))))
            /\ origin' = Append(origin, Head(lines))
            /\ UNCHANGED pc
    /\ UNCHANGED <<asked, found>>

MagicInitEnds ==
    /\ pc = "init"
    /\ lines = <<>>
    /\ pc' = "run"
    /\ UNCHANGED <<Magic, lines, asked, found, origin>>

Recognise(data) ==
    /\ pc = "run"
    /\ asked' = data
    /\ found' = MagicMatch(Magic, data)
    /\ UNCHANGED <<Magic, lines, pc, origin>>

Next ==
    \/ SkipLine
    \/ ParseLine
    \/ MagicInitEnds
    \/ \E data \in Packets : Recognise(data)

Spec == Init /\ [][Next]_vars

-----------------------------------------------------------------------------
\* The entry that controls a continuation: the last one before it on a lower level
Parent(t, i) == Max({j \in 1 .. i - 1 : t[j].level < t[i].level})

\* A main entry and its continuations read as a tree: where the value of entry i
\* ends, {} when it does not match or what controls it does not
TreeEnds(t, data) ==
    LET ends[i \in DOMAIN t] ==
            IF i = 1 THEN {MPrint(p, t[1]) : p \in Matching(data, t[1])}
            ELSE IF t[Parent(t, i)].level + 1 # t[i].level THEN {}
            ELSE UNION {LET here == Moved(t[i], [k \in {t[i].level} |-> off], t[i].level)
                        IN  {MPrint(p, here) : p \in Matching(data, here)}
                          : off \in ends[Parent(t, i)]}
    IN  ends

\* What the comment at magic.c:744 promises: the first main entry that matches
\* decides; each continuation counts when the entry that controls it, its parent
\* in the tree of levels, has matched, with relative offsets from that parent's
\* end; the last that counts names the data.
MatchIsOfTree ==
    asked # <<>> =>
        LET trees == {i \in Mains(Magic) : Matching(asked, Magic[i]) # {}}
            t == <<Magic[Min(trees)]>> \o Continuations(Magic, Min(trees))
            counts == {i \in DOMAIN t : TreeEnds(t, asked)[i] # {}}
        IN  found = IF trees = {} THEN <<>> ELSE t[Max(counts)].desc

SizeOf(m) == IF m.type = "byte" THEN Base ELSE IF m.type \in Shorts THEN Base * Base ELSE Word

\* The bytes of the data as a number, in the order that the type names
NumberIn(data, m) ==
    LET width == IF m.type = "byte" THEN 1 ELSE IF m.type \in Shorts THEN 2 ELSE 4
        p == BytesAt(data, m.offset)
        big == m.type \in {"beshort", "belong", "bedate"}
    IN  FoldLeft(LAMBDA v, i : v * Base + p[IF big THEN i ELSE width + 1 - i], 0,
                 [i \in 1 .. width |-> i])

\* The number that n stands for with this type, negative when the type is signed
Meant(m, n) == IF ~m.unsigned /\ n >= SizeOf(m) \div 2 THEN n - SizeOf(m) ELSE n

Compares(m, a, b) ==
    CASE m.reln = "=" -> a = b [] m.reln = "!" -> a # b
      [] m.reln = "<" -> a < b [] m.reln = ">" -> a > b

\* The entries that compare a number with all the bits of the data
Numeric(m) ==
    /\ m.type # "string" /\ m.reln \in {"=", "!", "<", ">"}
    /\ ~m.indir /\ ~m.add /\ m.mask = AllOnes /\ ~IsX(m)

AsMeant(data, m) ==
    \A p \in MGet(data, m) :
        MCheck(p, m) = Compares(m, Meant(m, NumberIn(data, m)), Meant(m, m.number % SizeOf(m)))

\* A number in the data compares with the number in the line as the type says,
\* whatever the byte order; of the types narrower than a long, the unsigned ones
\* and the numbers without a sign bit.
NumbersCompare ==
    asked # <<>> => \A i \in DOMAIN Magic :
        LET m == Magic[i]
            small(n) == n < SizeOf(m) \div 2
        IN  (Numeric(m) /\ (m.unsigned \/ SizeOf(m) = Word
                             \/ (small(NumberIn(asked, m)) /\ m.number < SizeOf(m) \div 2)))
                => AsMeant(asked, m)

\* A string in a line is compared as its author meant it, whichever of its bytes
\* are written as escapes, and what follows it is the description, as long as the
\* string fits the entry.
StringsAsWritten ==
    \A i \in DOMAIN Magic :
        (origin[i].means # <<>> /\ Len(origin[i].means) < VALSIZE)
            => Magic[i].bytes = origin[i].means /\ Magic[i].desc = origin[i].name

\* From the file of magic numbers to the name of the data: a line is read as its
\* author meant it, its number or string compares as its type says, and the entries
\* that match are taken along the tree of levels.
MagicIsUnderstood == StringsAsWritten /\ NumbersCompare /\ MatchIsOfTree
=============================================================================
