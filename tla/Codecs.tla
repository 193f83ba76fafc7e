------------------------------- MODULE Codecs -------------------------------
(***************************************************************************)
(* The small conversions: base64 and hexadecimal (src/src/util.cpp and, for *)
(* the WebSocket handshake, src/src/crowlib/crow/utility.h), the test of a *)
(* proof of work (src/src/captcha.cpp), and the cleaning of the path of a  *)
(* static file (utility.h).                                                *)
(*                                                                         *)
(* A base64 text is a sequence of the digits 0 .. 63 and of Pad, White and *)
(* Other, which stand for `=', for a blank and for any other character.    *)
(***************************************************************************)
EXTENDS Integers, Sequences, SequencesExt, Text

CONSTANTS
    MaxPath,        \* the longest file name (255)
    Control         \* the control characters, and those from 0x80 to 0x9f

\* The character that replaces others is none of those replaced.
ASSUME NameAssumption == MaxPath \in Nat /\ "_" \notin Control

Pad == 64
White == 65
Other == 66

ByteAt(bytes, i) == IF i <= Len(bytes) THEN bytes[i] ELSE 0

\* base64Encode: three bytes make a number of 24 bits and four digits.
Base64Encode(bytes) ==
    [k \in 1 .. 4 * ((Len(bytes) + 2) \div 3) |->
        LET i == 3 * ((k - 1) \div 4) + 1       \* the first byte of the three
            j == (k - 1) % 4                    \* which of the four digits
            v == ByteAt(bytes, i) * 65536 + ByteAt(bytes, i + 1) * 256 + ByteAt(bytes, i + 2)
        IN IF i + j > Len(bytes) + 1 THEN Pad ELSE (v \div <<262144, 4096, 64, 1>>[j + 1]) % 64]

\* Crow's base64encode: each digit from the bits of one or two bytes.
CrowBase64Encode(bytes) ==
    [k \in 1 .. 4 * ((Len(bytes) + 2) \div 3) |->
        LET i == 3 * ((k - 1) \div 4) + 1
            j == (k - 1) % 4
        IN IF j = 0 THEN bytes[i] \div 4
           ELSE IF j = 1 THEN (bytes[i] % 4) * 16 + ByteAt(bytes, i + 1) \div 16
           ELSE IF i + j > Len(bytes) + 1 THEN Pad
           ELSE IF j = 2 THEN (bytes[i + 1] % 16) * 4 + ByteAt(bytes, i + 2) \div 64
           ELSE bytes[i + 2] % 64]

\* Six more bits; of buf, the code keeps 32 bits and reads the last 14.
Shift(buf, c) == (buf * 64 + c) % 65536
\* The byte above the last `bits' bits.
ByteFrom(buf, bits) == (buf \div 2 ^ bits) % 256

\* Mutant of DecodeDigit: blanks are not skipped.
DecodeDigitStrict(d, c) ==
    LET bits == d.bits + 6
        buf  == Shift(d.buf, c)
    IN IF d.ended \/ ~d.ok THEN d
       ELSE IF c = Pad THEN [d EXCEPT !.ended = TRUE]
       ELSE IF c \in {White, Other} THEN [d EXCEPT !.ok = FALSE]
       ELSE IF bits < 8 THEN [d EXCEPT !.buf = buf, !.bits = bits]
       ELSE [d EXCEPT !.buf = buf, !.bits = bits - 8,
                      !.out = Append(@, ByteFrom(buf, bits - 8))]

\* One character of base64Decode.
DecodeDigit(d, c) ==
    LET bits == d.bits + 6
        buf  == Shift(d.buf, c)
    IN IF d.ended \/ ~d.ok \/ c = White THEN d
       ELSE IF c = Pad THEN [d EXCEPT !.ended = TRUE]
       ELSE IF c = Other THEN [d EXCEPT !.ok = FALSE]
       ELSE IF bits < 8 THEN [d EXCEPT !.buf = buf, !.bits = bits]
       ELSE [d EXCEPT !.buf = buf, !.bits = bits - 8,
                      !.out = Append(@, ByteFrom(buf, bits - 8))]

\* base64Decode: what is known after each character, and after the last.
Unread == [buf |-> 0, bits |-> 0, out |-> <<>>, ok |-> TRUE, ended |-> FALSE]
Decoded(text) ==
    LET after[i \in 0 .. Len(text)] == IF i = 0 THEN Unread ELSE DecodeDigit(after[i - 1], text[i])
    IN after
Base64Decode(text) == Decoded(text)[Len(text)]

\* toHex, randomTokenHex, peerIdFromToken: two digits for each byte.
ToHex(bytes) == [k \in 1 .. 2 * Len(bytes) |->
                    LET b == bytes[(k + 1) \div 2] IN IF k % 2 = 1 THEN b \div 16 ELSE b % 16]

----------------------------------------------------------------------------
(* Proof of work.                                                          *)

\* meetsDifficulty: whole bytes first, then the high bits of the next one.
MeetsDifficulty(digest, bits) ==
    /\ \A i \in 1 .. bits \div 8 : digest[i] = 0
    /\ bits % 8 > 0 => digest[bits \div 8 + 1] \div 2 ^ (8 - (bits % 8)) = 0

----------------------------------------------------------------------------
(* File names.                                                             *)

Separators == {"/", "\\"}
Ends == {".", ":"} \cup Separators
Illegal == {"?", "<", ">", ":", "*", "|", "\""} \cup Control

\* The special names, and whether a digit belongs to the name.
SpecialFiles ==
    {[name |-> <<"a", "u", "x">>, number |-> FALSE], [name |-> <<"c", "o", "n">>, number |-> FALSE],
     [name |-> <<"c", "o", "m">>, number |-> TRUE], [name |-> <<"l", "p", "t">>, number |-> TRUE],
     [name |-> <<"n", "u", "l">>, number |-> FALSE], [name |-> <<"p", "r", "n">>, number |-> FALSE],
     [name |-> <<".", ".">>, number |-> FALSE]}

\* The index after a special name that begins at p.
After(p, special) == p + Len(special.name) + (IF special.number THEN 1 ELSE 0)

\* The special name begins at p, and what follows is the end or one of Ends.
IsSpecial(data, p, special) ==
    LET next == After(p, special)
    IN /\ next <= Len(data) + 1
       /\ \A k \in 1 .. Len(special.name) : Lower(data[p + k - 1]) = special.name[k]
       /\ special.number => data[next - 1] \in {"1", "2", "3", "4", "5", "6", "7", "8", "9"}
       /\ next > Len(data) \/ data[next] \in Ends

\* sanitizeSpecialFile, for the special names that begin with data[p]: no
\* two of them can be there.
SanitizeSpecialFile(data, p) ==
    LET found == {special \in SpecialFiles : IsSpecial(data, p, special)}
    IN IF found = {} THEN data
       ELSE LET next == After(p, CHOOSE special \in found : TRUE)
            IN SubSeq(data, 1, p - 1) \o <<"_">> \o SubSeq(data, next, Len(data))

\* One round of the loop of sanitize_filename; `check' is checkForSpecialEntries.
SanitizeChar(s, p) ==
    IF p > Len(s.data) THEN s
    ELSE LET clean == IF s.check THEN SanitizeSpecialFile(s.data, p) ELSE s.data
             slash == clean[p] \in Separators
         IN IF clean[p] \in Illegal \/ (slash /\ p = 1)
            THEN [data |-> [clean EXCEPT ![p] = "_"], check |-> FALSE]
            ELSE [data |-> clean, check |-> slash]

\* The loop: what the name is after each of its characters.  It ends early
\* when the name has become shorter.
Sanitized(data) ==
    LET after[p \in 0 .. Len(data)] ==
            IF p = 0 THEN [data |-> data, check |-> TRUE] ELSE SanitizeChar(after[p - 1], p)
    IN after
Sanitize(data) == Sanitized(data)[Len(data)].data

\* resize.
Cut(data) == SubSeq(data, 1, IF Len(data) < MaxPath THEN Len(data) ELSE MaxPath)

\* Mutant of SanitizeFilename: a name that is too long is cut afterwards.
SanitizeFilenameLate(data) == Cut(Sanitize(data))

\* sanitize_filename.
SanitizeFilename(data) == Sanitize(Cut(data))

=============================================================================
