------------------------------- MODULE Digest -------------------------------
(***************************************************************************)
(* How a message becomes the blocks that are hashed: SHA-256               *)
(* (src/src/sha256/sha256.cpp), SHA-1 for the WebSocket handshake          *)
(* (src/src/crowlib/crow/TinySHA1.hpp) and HMAC (src/src/captcha.cpp).     *)
(*                                                                         *)
(* The compression functions are not computed: the state of a hash is the  *)
(* sequence of the blocks it was given, and a byte of a digest is a value  *)
(* made of that sequence, so that two digests are equal exactly when the   *)
(* blocks are.  Every byte is a tuple headed by its kind.                  *)
(***************************************************************************)
EXTENDS Integers, Sequences, SequencesExt, Text

Octet(n) == <<"byte", n>>
Zero == Octet(0)
Xored(byte, n) == <<"xor", byte, n>>
DigestOf(blocks, size) == [i \in 1 .. size |-> <<"digest", i, blocks>>]
Octets(numbers) == [i \in DOMAIN numbers |-> Octet(numbers[i])]

----------------------------------------------------------------------------
(* SHA-256.  m_data keeps what earlier blocks left in it.                  *)

Sha256 == [data |-> [i \in 1 .. 64 |-> Zero], blocklen |-> 0, bitlen |-> 0, blocks |-> <<>>]

Transform(h) == [h EXCEPT !.blocks = Append(@, h.data)]

UpdateByte(h, byte) ==
    LET t == [h EXCEPT !.data[h.blocklen + 1] = byte, !.blocklen = @ + 1]
    IN IF t.blocklen < 64 THEN t
       ELSE [Transform(t) EXCEPT !.bitlen = @ + 512, !.blocklen = 0]

\* update: the hash after each byte, and after the last.
Updated(h, bytes) ==
    LET after[i \in 0 .. Len(bytes)] == IF i = 0 THEN h ELSE UpdateByte(after[i - 1], bytes[i])
    IN after
Update(h, bytes) == Updated(h, bytes)[Len(bytes)]

\* Mutant of PadBlock: a block of 56 bytes is taken to have room for the length.
PadBlockLate(h) ==
    LET end    == IF h.blocklen <= 56 THEN 56 ELSE 64
        filled == [i \in 1 .. 64 |-> IF i = h.blocklen + 1 THEN Octet(128)
                                     ELSE IF i \in h.blocklen + 2 .. end THEN Zero ELSE h.data[i]]
        t      == [h EXCEPT !.data = filled]
        room   == IF h.blocklen <= 56 THEN t
                  ELSE [Transform(t) EXCEPT !.data = [i \in 1 .. 64 |-> IF i <= 56 THEN Zero ELSE @[i]]]
        length == Octets(Bytes(h.bitlen + 8 * h.blocklen, 8))
    IN Transform([room EXCEPT !.data = SubSeq(@, 1, 56) \o length])

\* pad: a 1 bit, zeros, and the length in bits, in a block of its own where
\* the last one has no room.
PadBlock(h) ==
    LET end    == IF h.blocklen < 56 THEN 56 ELSE 64
        filled == [i \in 1 .. 64 |-> IF i = h.blocklen + 1 THEN Octet(128)
                                     ELSE IF i \in h.blocklen + 2 .. end THEN Zero ELSE h.data[i]]
        t      == [h EXCEPT !.data = filled]
        room   == IF h.blocklen < 56 THEN t
                  ELSE [Transform(t) EXCEPT !.data = [i \in 1 .. 64 |-> IF i <= 56 THEN Zero ELSE @[i]]]
        length == Octets(Bytes(h.bitlen + 8 * h.blocklen, 8))
    IN Transform([room EXCEPT !.data = SubSeq(@, 1, 56) \o length])

\* digest and revert.
Sha256Digest(h) == DigestOf(PadBlock(h).blocks, 32)

\* hmacSha256.
HmacSha256(key, msg) ==
    LET short == IF Len(key) > 64 THEN Sha256Digest(Update(Sha256, key)) ELSE key
        kPad  == [i \in 1 .. 64 |-> IF i <= Len(short) THEN short[i] ELSE Zero]
        ipad  == [i \in 1 .. 64 |-> Xored(kPad[i], 54)]
        opad  == [i \in 1 .. 64 |-> Xored(kPad[i], 92)]
        inner == Sha256Digest(Update(Update(Sha256, ipad), msg))
    IN Sha256Digest(Update(Update(Sha256, opad), inner))

----------------------------------------------------------------------------
(* SHA-1.                                                                  *)

Sha1 == [block |-> [i \in 1 .. 64 |-> Zero], index |-> 0, count |-> 0, blocks |-> <<>>]

ProcessByte(h, byte) ==
    LET t == [h EXCEPT !.block[h.index + 1] = byte, !.index = @ + 1, !.count = @ + 1]
    IN IF t.index < 64 THEN t ELSE [t EXCEPT !.index = 0, !.blocks = Append(@, t.block)]

Processed(h, bytes) ==
    LET after[i \in 0 .. Len(bytes)] == IF i = 0 THEN h ELSE ProcessByte(after[i - 1], bytes[i])
    IN after
ProcessBytes(h, bytes) == Processed(h, bytes)[Len(bytes)]

ZeroBytes(n) == [i \in 1 .. n |-> Zero]

\* getDigest: zeros up to byte 56, of the next block if this one is past it.
Sha1Digest(h) ==
    LET t      == ProcessByte(h, Octet(128))
        zeros  == IF t.index > 56 THEN 64 - t.index + 56 ELSE 56 - t.index
        padded == ProcessBytes(t, ZeroBytes(zeros))
        whole  == ProcessBytes(padded, ZeroBytes(4) \o Octets(Bytes(8 * h.count, 4)))
    IN DigestOf(whole.blocks, 20)

=============================================================================
