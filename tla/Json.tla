-------------------------------- MODULE Json --------------------------------
(***************************************************************************)
(* The JSON reader and writer of src/src/crowlib/crow/json.h, which carry  *)
(* every request body and every WebSocket frame.  A text is a sequence of  *)
(* bytes.  A read returns the value and where the text goes on; the byte   *)
(* after the end is 0, as in the copy that load makes, and an error is the *)
(* value Bad.  Floating-point numbers and functions are not written by the *)
(* program and are left out of the writer.                                 *)
(***************************************************************************)
EXTENDS Integers, Sequences, FiniteSets, SequencesExt

CONSTANT MaxDepth   \* max_depth (10000)

White == {32, 9, 13, 10}
True4 == <<116, 114, 117, 101>>
False5 == <<102, 97, 108, 115, 101>>
Null4 == <<110, 117, 108, 108>>

\* The characters that have an escape of one letter, and the letter: quote,
\* backslash, \b, \f, \n, \r and \t.
ShortEscapes ==
    [c \in {34, 92, 8, 12, 10, 13, 9} |->
        CASE c = 8 -> 98 [] c = 12 -> 102 [] c = 10 -> 110 [] c = 13 -> 114 [] c = 9 -> 116
          [] OTHER -> c]

----------------------------------------------------------------------------
(* Values.                                                                 *)

Null == [t |-> "Null"]
Truth(b) == [t |-> IF b THEN "True" ELSE "False"]
Number(n) == [t |-> "Number", n |-> n]
Str(s) == [t |-> "String", s |-> s]
List(l) == [t |-> "List", l |-> l]
Object(o) == [t |-> "Object", o |-> o]      \* a function from keys to values
Members(l) == [t |-> "Object", l |-> l]     \* as read: members in their order

Bad == [t |-> "Bad"]
Read(v, p) == [v |-> v, p |-> p]
Ok(r) == r.v.t # "Bad"

At(text, p) == IF p <= Len(text) THEN text[p] ELSE 0
SkipWs(text, p) == Min({i \in p .. Len(text) + 1 : At(text, i) \notin White})

----------------------------------------------------------------------------
(* Writing.                                                                *)

HexDigit(n) == IF n < 10 THEN 48 + n ELSE 97 + n - 10

\* Mutant of EscapeByte: the backslash is not escaped.
EscapeByteBare(c) ==
    IF c \in DOMAIN ShortEscapes \ {92} THEN <<92, ShortEscapes[c]>>
    ELSE IF c < 32 THEN <<92, 117, 48, 48, HexDigit(c \div 16), HexDigit(c % 16)>> ELSE <<c>>

\* escape: a letter, \u00xx for other control characters, or the byte.
EscapeByte(c) ==
    IF c \in DOMAIN ShortEscapes THEN <<92, ShortEscapes[c]>>
    ELSE IF c < 32 THEN <<92, 117, 48, 48, HexDigit(c \div 16), HexDigit(c % 16)>> ELSE <<c>>

Quoted(s) == <<34>> \o FlattenSeq([i \in DOMAIN s |-> EscapeByte(s[i])]) \o <<34>>

RECURSIVE ToDigits(_)
ToDigits(n) == IF n < 10 THEN <<48 + n>> ELSE ToDigits(n \div 10) \o <<48 + (n % 10)>>

\* dump_indentation_part, if there is an indentation at all.
NewLine(indent, level) ==
    IF indent < 0 THEN <<>> ELSE <<10>> \o [i \in 1 .. level * indent |-> 32]

RECURSIVE Dump(_, _, _)
\* dump_internal; the members of an object come in the order of SetToSeq,
\* which stands for the order of the hash map.
Dump(v, indent, level) ==
    LET Sep == <<44>> \o NewLine(indent, level + 1)
        Block(open, items, close) ==
            <<open>> \o NewLine(indent, level + 1)
            \o FlattenSeq([i \in DOMAIN items |-> (IF i = 1 THEN <<>> ELSE Sep) \o items[i]])
            \o NewLine(indent, level) \o <<close>>
        Colon == IF indent < 0 THEN <<58>> ELSE <<58, 32>>
    IN CASE v.t = "Null" -> Null4
         [] v.t = "True" -> True4
         [] v.t = "False" -> False5
         [] v.t = "Number" -> IF v.n < 0 THEN <<45>> \o ToDigits(-v.n) ELSE ToDigits(v.n)
         [] v.t = "String" -> Quoted(v.s)
         [] v.t = "List" -> Block(91, [i \in DOMAIN v.l |-> Dump(v.l[i], indent, level + 1)], 93)
         [] v.t = "Object" ->
              LET keys == SetToSeq(DOMAIN v.o)
              IN Block(123, [i \in DOMAIN keys |->
                    Quoted(keys[i]) \o Colon \o Dump(v.o[keys[i]], indent, level + 1)], 125)

----------------------------------------------------------------------------
(* Reading.                                                                *)

IsHex(c) == c \in 48 .. 57 \cup 97 .. 102 \cup 65 .. 70
FromHex(c) == IF c >= 97 THEN c - 97 + 10 ELSE IF c >= 65 THEN c - 65 + 10 ELSE c - 48
ShortLetters == {34, 92, 47, 98, 102, 110, 114, 116}

RECURSIVE StringEnd(_, _)
\* decode_string after the opening quote: where the closing one is, 0 if the
\* text ends first or an escape is wrong.
StringEnd(text, p) ==
    LET c == At(text, p) IN
    CASE c = 0 -> 0
      [] c = 34 -> p
      [] c = 92 ->
           IF At(text, p + 1) = 117
           THEN IF \A i \in 2 .. 5 : IsHex(At(text, p + i)) THEN StringEnd(text, p + 6) ELSE 0
           ELSE IF At(text, p + 1) \in ShortLetters THEN StringEnd(text, p + 2) ELSE 0
      [] OTHER -> StringEnd(text, p + 1)

\* The bytes that unescape writes for \uxxxx: UTF-8 of the one code unit.
Utf8(code) ==
    IF code >= 2048 THEN <<224 + code \div 4096, 128 + ((code \div 64) % 64), 128 + (code % 64)>>
    ELSE IF code >= 128 THEN <<192 + code \div 64, 128 + (code % 64)>> ELSE <<code>>

RECURSIVE Unescape(_)
\* rvalue::unescape, for a string that decode_string accepted.
Unescape(s) ==
    IF s = <<>> THEN <<>>
    ELSE IF s[1] # 92 THEN <<s[1]>> \o Unescape(Tail(s))
    ELSE IF s[2] = 117
         THEN Utf8(4096 * FromHex(s[3]) + 256 * FromHex(s[4]) + 16 * FromHex(s[5]) + FromHex(s[6]))
              \o Unescape(SubSeq(s, 7, Len(s)))
         ELSE LET hits == {c \in DOMAIN ShortEscapes : ShortEscapes[c] = s[2]}
              IN <<IF hits = {} THEN s[2] ELSE CHOOSE c \in hits : TRUE>> \o Unescape(SubSeq(s, 3, Len(s)))

DecodeString(text, p) ==
    LET to == StringEnd(text, p + 1) IN
    IF At(text, p) # 34 \/ to = 0 THEN Read(Bad, p)
    ELSE Read(Str(Unescape(SubSeq(text, p + 1, to - 1))), to + 1)

\* The states of decode_number: 0 Minus, 1 AfterMinus, 2 ZeroFirst, 3 Digits,
\* 4 DigitsAfterPoints, 5 E, 6 DigitsAfterE, 7 Invalid.
NumberNext(s, c) ==
    CASE c = 48 -> <<2, 2, 7, 3, 4, 6, 6>>[s + 1]
      [] c \in 49 .. 57 -> <<3, 3, 7, 3, 4, 6, 6>>[s + 1]
      [] c = 46 -> <<7, 7, 4, 4, 7, 7, 7>>[s + 1]
      [] c = 45 -> <<1, 7, 7, 7, 7, 6, 7>>[s + 1]
      [] c = 43 -> <<7, 7, 7, 7, 7, 6, 7>>[s + 1]
      [] OTHER  -> <<7, 7, 7, 5, 5, 7, 7>>[s + 1]

NumberBytes == 48 .. 57 \cup {46, 45, 43, 101, 69}

RECURSIVE NumberEnd(_, _, _)
\* The end of the number, 0 if it is none.
NumberEnd(text, p, s) ==
    IF s = 7 THEN 0
    ELSE IF At(text, p) \in NumberBytes THEN NumberEnd(text, p + 1, NumberNext(s, At(text, p)))
    ELSE IF s \in {2, 3, 4, 6} THEN p ELSE 0

\* An integer's value (rvalue::i); other numbers keep their text.
NumberValue(s) ==
    LET digits == IF s[1] = 45 THEN Tail(s) ELSE s
        Dec(acc, c) == 10 * acc + (c - 48)
        n == FoldLeft(Dec, 0, digits)
    IN IF \E i \in DOMAIN s : s[i] \in {46, 101, 69} THEN s ELSE IF s[1] = 45 THEN -n ELSE n

DecodeNumber(text, p) ==
    LET to == NumberEnd(text, p, 0) IN
    IF to = 0 THEN Read(Bad, p) ELSE Read(Number(NumberValue(SubSeq(text, p, to - 1))), to)

Word(text, p, word, v) ==
    IF \A i \in DOMAIN word : At(text, p + i - 1) = word[i]
    THEN Read(v, p + Len(word)) ELSE Read(Bad, p)

RECURSIVE DecodeValue(_, _, _), DecodeItems(_, _, _, _), DecodeMembers(_, _, _, _)

\* decode_list and decode_object check the depth after the bracket.
DecodeValue(text, p, depth) ==
    LET q == SkipWs(text, p + 1) IN
    CASE At(text, p) = 91 ->
           IF depth + 1 > MaxDepth THEN Read(Bad, q)
           ELSE IF At(text, q) = 93 THEN Read(List(<<>>), q + 1)
           ELSE DecodeItems(text, q, depth + 1, <<>>)
      [] At(text, p) = 123 ->
           IF depth + 1 > MaxDepth THEN Read(Bad, q)
           ELSE IF At(text, q) = 125 THEN Read(Members(<<>>), q + 1)
           ELSE DecodeMembers(text, q, depth + 1, <<>>)
      [] At(text, p) = 34  -> DecodeString(text, p)
      [] At(text, p) = 116 -> Word(text, p, True4, Truth(TRUE))
      [] At(text, p) = 102 -> Word(text, p, False5, Truth(FALSE))
      [] At(text, p) = 110 -> Word(text, p, Null4, Null)
      [] OTHER -> DecodeNumber(text, p)

\* The loop of decode_list.
DecodeItems(text, p, depth, l) ==
    LET r == DecodeValue(text, p, depth + 1)
        q == SkipWs(text, r.p)
        m == Append(l, r.v)
    IN IF ~Ok(r) THEN r
       ELSE IF At(text, q) = 93 THEN Read(List(m), q + 1)
       ELSE IF At(text, q) = 44 THEN DecodeItems(text, SkipWs(text, q + 1), depth, m)
       ELSE Read(Bad, q)

\* The loop of decode_object: key, colon, value.
DecodeMembers(text, p, depth, l) ==
    LET k == DecodeString(text, p)
        c == SkipWs(text, k.p)
        r == DecodeValue(text, SkipWs(text, c + 1), depth + 1)
        q == SkipWs(text, r.p)
        m == Append(l, [key |-> k.v.s, v |-> r.v])
    IN IF ~Ok(k) THEN k
       ELSE IF At(text, c) # 58 THEN Read(Bad, c)
       ELSE IF ~Ok(r) THEN r
       ELSE IF At(text, q) = 125 THEN Read(Members(m), q + 1)
       ELSE IF At(text, q) = 44 THEN DecodeMembers(text, SkipWs(text, q + 1), depth, m)
       ELSE Read(Bad, q)

\* load: the whole text, white space around it, is one value.
Load(text) ==
    LET r == DecodeValue(text, SkipWs(text, 1), 0) IN
    IF Ok(r) /\ At(text, SkipWs(text, r.p)) # 0 THEN Bad ELSE r.v

----------------------------------------------------------------------------
(* Access.                                                                 *)

\* has and operator[]: the members are sorted by key; with a key twice, the
\* sort, which is not stable, decides which is found.
Has(v, key) == \E i \in DOMAIN v.l : v.l[i].key = key
Found(v, key) == {v.l[i].v : i \in {j \in DOMAIN v.l : v.l[j].key = key}}

=============================================================================
