-------------------------------- MODULE Text --------------------------------
(***************************************************************************)
(* Characters and bytes, as the modules on formats write them: a text is a *)
(* sequence of strings of length one, a byte a number below 256.           *)
(***************************************************************************)
EXTENDS Integers, Sequences, SequencesExt

Chars(s) == [i \in 1 .. Len(s) |-> SubSeq(s, i, i)]
CharSet(s) == Range(Chars(s))

Upper == "ABCDEFGHIJKLMNOPQRSTUVWXYZ"
Small == "abcdefghijklmnopqrstuvwxyz"
Digits == "0123456789"
UpperSet == {"A", "B", "C", "D", "E", "F", "G", "H", "I", "J", "K", "L", "M", "N", "O", "P", "Q",
             "R", "S", "T", "U", "V", "W", "X", "Y", "Z"}
Alpha == UpperSet \cup CharSet(Small)
Num == CharSet(Digits)

\* tolower.
Cases == {<<SubSeq(Upper, i, i), SubSeq(Small, i, i)>> : i \in 1 .. 26}
Lower(c) == IF c \in UpperSet THEN (CHOOSE pair \in Cases : pair[1] = c)[2] ELSE c
LowerAll(s) == [i \in DOMAIN s |-> Lower(s[i])]

\* The digit a character stands for, -1 if it is none.
HexDigits == {<<SubSeq("0123456789abcdef", i + 1, i + 1), i>> : i \in 0 .. 15}
Unhex(c) == LET hits == {pair \in HexDigits : pair[1] = Lower(c)}
            IN IF hits = {} THEN -1 ELSE (CHOOSE pair \in hits : TRUE)[2]

\* n as k bytes in network byte order; n is below 2^31.
Bytes(n, k) == [i \in 1 .. k |-> IF k - i > 3 THEN 0 ELSE (n \div 256 ^ (k - i)) % 256]

\* The least index from p on whose element is in set, Len(s) + 1 if there is
\* none (strcspn).
FirstIn(s, p, set) ==
    LET hits == {i \in p .. Len(s) : s[i] \in set}
    IN IF hits = {} THEN Len(s) + 1 ELSE Min(hits)

=============================================================================
