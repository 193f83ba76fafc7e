---------------------------- MODULE QueryString ----------------------------
(***************************************************************************)
(* The query of a URL: src/src/crowlib/crow/query_string.h.  Every request *)
(* has its URL parsed by it (on_url), and onaccept asks it for the room;   *)
(* the values are decoded in place, the keys while they are compared.  NUL *)
(* ends a string of C.                                                     *)
(***************************************************************************)
EXTENDS Integers, Sequences, SequencesExt, Text

CONSTANT MaxPairs       \* MAX_KEY_VALUE_PAIRS_COUNT (256)

Nul == "NUL"
Ends == {"=", "#", "&", Nul}        \* what is not CROW_QS_ISQSCHR
At(s, i) == IF i <= Len(s) THEN s[i] ELSE Nul

\* The character with code 16 * a + b, for the few that the checks encode.
Decoded(a, b) == CASE 16 * a + b = 32 -> " " [] 16 * a + b = 37 -> "%" [] 16 * a + b = 38 -> "&"
                   [] 16 * a + b = 43 -> "+" [] 16 * a + b = 61 -> "=" [] 16 * a + b = 35 -> "#"
                   [] 16 * a + b = 0 -> Nul [] OTHER -> "?"

\* One character of a query and where the next begins; a percent sign that
\* no two digits follow reads as NUL.
Unit(s, i) ==
    LET a == Unhex(At(s, i + 1))
        b == Unhex(At(s, i + 2))
    IN CASE At(s, i) = "+" -> <<" ", i + 1>>
         [] At(s, i) = "%" -> <<IF a # -1 /\ b # -1 THEN Decoded(a, b) ELSE Nul, i + 3>>
         [] At(s, i) \in Ends -> <<Nul, i + 1>>
         [] OTHER -> <<At(s, i), i + 1>>

\* Mutant of DecodeFrom: a plus sign stays as it is.
RECURSIVE DecodeRaw(_, _)
DecodeRaw(s, i) ==
    IF At(s, i) \in Ends \/ (At(s, i) = "%" /\ (Unhex(At(s, i + 1)) = -1 \/ Unhex(At(s, i + 2)) = -1))
    THEN <<>>
    ELSE IF At(s, i) = "+" THEN <<"+">> \o DecodeRaw(s, i + 1)
    ELSE <<Unit(s, i)[1]>> \o DecodeRaw(s, Unit(s, i)[2])

RECURSIVE DecodeFrom(_, _)
\* qs_decode: up to the end of the value or a percent sign that encodes nothing.
DecodeFrom(s, i) ==
    IF At(s, i) \in Ends \/ (At(s, i) = "%" /\ (Unhex(At(s, i + 1)) = -1 \/ Unhex(At(s, i + 2)) = -1))
    THEN <<>>
    ELSE <<Unit(s, i)[1]>> \o DecodeFrom(s, Unit(s, i)[2])

CString(s) == SubSeq(s, 1, FirstIn(s, 1, {Nul}) - 1)

RECURSIVE SplitPairs(_, _)
\* The pairs between ampersands, `room' of them at most.
SplitPairs(s, room) ==
    IF room = 0 THEN <<>>
    ELSE LET i == FirstIn(s, 1, {"&"})
         IN IF i > Len(s) THEN <<s>>
            ELSE <<SubSeq(s, 1, i - 1)>> \o SplitPairs(SubSeq(s, i + 1, Len(s)), room - 1)

\* The string that a pair becomes: its key, then the value decoded.
DecodePair(pair) ==
    LET i == FirstIn(pair, 1, {"=", "#"})
    IN IF i > Len(pair) THEN pair ELSE CString(SubSeq(pair, 1, i) \o DecodeFrom(pair, i + 1))

\* qs_parse and the constructor: what follows the first ? or #.
Parse(url) ==
    LET i == FirstIn(url, 1, {"?", "#"})
        pairs == SplitPairs(SubSeq(url, i + 1, Len(url)), MaxPairs)
    IN IF i > Len(url) THEN <<>> ELSE [j \in DOMAIN pairs |-> DecodePair(pairs[j])]

RECURSIVE SameKey(_, _, _, _, _)
\* qs_strncmp = 0, with n characters of the key left.
SameKey(key, i, pair, j, n) ==
    IF n = 0 THEN At(pair, j) \in Ends
    ELSE LET k == Unit(key, i)
             p == Unit(pair, j)
         IN k[1] = p[1] /\ (k[1] = Nul \/ SameKey(key, k[2], pair, p[2], n - 1))

\* qs_k2v: the values of the pairs with this key, in their order (get returns
\* the first, get_list all).
Values(pairs, key) ==
    LET hits == SelectSeq(pairs, LAMBDA pair : SameKey(key, 1, pair, 1, Len(key)))
    IN [j \in DOMAIN hits |-> LET i == FirstIn(hits[j], 1, {"="})
                              IN SubSeq(hits[j], i + 1, Len(hits[j]))]

=============================================================================
