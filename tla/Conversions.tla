----------------------------- MODULE Conversions -----------------------------
(***************************************************************************)
(* What the conversions of Codecs and Digest promise, for any inputs.      *)
(* `job' is one conversion, its input and its result; every behaviour is   *)
(* one conversion.  MCFormats gives the inputs and adds the conversions of *)
(* the other modules.                                                      *)
(***************************************************************************)
EXTENDS Codecs, Digest

CONSTANTS
    ByteStrings,    \* bytes to write in base64 and hexadecimal
    Digests,        \* digests to test against a difficulty
    Paths,          \* paths of static files
    Messages,       \* messages to hash
    Cuts            \* lengths of the first of two pieces a message comes in

Byte == 0 .. 255

ASSUME InputAssumption ==
    /\ ByteStrings \subseteq Seq(Byte)
    /\ Digests \subseteq Seq(Byte)
    /\ Paths \subseteq Seq(STRING)
    /\ Cuts \subseteq Nat
    \* The length in bits, as a digest writes it, is taken to fit in 32 bits.
    /\ \A msg \in Messages : msg \in Seq({Octet(n) : n \in Byte}) /\ Len(msg) < 2 ^ 28

VARIABLE job

----------------------------------------------------------------------------
(* Base64 and hexadecimal.                                                 *)

\* A text with a blank after each character, as a line break would be.
Spaced(text) == [k \in 1 .. 2 * Len(text) |-> IF k % 2 = 1 THEN text[(k + 1) \div 2] ELSE White]

Encode64 ==
    \E bytes \in ByteStrings :
        LET text == Base64Encode(bytes)
        IN job' = [kind |-> "base64", bytes |-> bytes, text |-> text,
                   crow |-> CrowBase64Encode(bytes), read |-> Base64Decode(text),
                   spaced |-> Base64Decode(Spaced(text)),
                   spoilt |-> Base64Decode(<<Other>> \o text), hex |-> ToHex(bytes)]

\* Bytes written in base64 are read back, also when blanks break the text up;
\* another character makes it unreadable; the encoder of the chat's
\* challenges and the one of the handshake write the same text; and no two
\* byte strings have the same hexadecimal form (tokens, peer ids, nonces).
Base64RoundTrip ==
    job.kind = "base64" =>
        /\ job.crow = job.text
        /\ job.read.ok /\ job.read.out = job.bytes
        /\ job.spaced.ok /\ job.spaced.out = job.bytes
        /\ ~job.spoilt.ok
        /\ Len(job.hex) = 2 * Len(job.bytes)
        /\ \A i \in DOMAIN job.bytes : job.bytes[i] = 16 * job.hex[2 * i - 1] + job.hex[2 * i]

----------------------------------------------------------------------------
(* File names.                                                             *)

CleanPath ==
    \E path \in Paths :
        job' = [kind |-> "path", path |-> path, clean |-> SanitizeFilename(path),
                again |-> SanitizeFilename(SanitizeFilename(path))]

\* A cleaned path stays in the directory it is appended to: no part of it is
\* "..", it does not begin with a separator, and cleaning it again leaves it
\* as it is.  This holds also when the path is cut to the longest length.
StaticPathsStayInside ==
    job.kind = "path" =>
        LET clean == job.clean
            Sep(i) == i = 0 \/ i > Len(clean) \/ clean[i] \in Separators
        IN /\ \A i \in 1 .. Len(clean) - 1 :
                ~(clean[i] = "." /\ clean[i + 1] = "." /\ Sep(i - 1) /\ Sep(i + 2))
           /\ clean # <<>> => clean[1] \notin Separators
           /\ Len(clean) <= MaxPath
           /\ job.again = clean

----------------------------------------------------------------------------
(* Digests.                                                                *)

TestProof ==
    \E digest \in Digests : \E bits \in 0 .. 8 * Len(digest) :
        job' = [kind |-> "proof", digest |-> digest, bits |-> bits,
                meets |-> MeetsDifficulty(digest, bits)]

\* The padding of the standard: a 1 bit, the fewest zeros, 64 bits of length.
Padded(msg) ==
    LET zeros == (55 - Len(msg)) % 64
    IN msg \o <<Octet(128)>> \o ZeroBytes(zeros) \o Octets(Bytes(8 * Len(msg), 8))
BlocksOf(msg) == LET all == Padded(msg)
                 IN [b \in 1 .. Len(all) \div 64 |-> SubSeq(all, 64 * b - 63, 64 * b)]

Hash ==
    \E msg \in Messages : \E cut \in Cuts \cap (0 .. Len(msg)) :
        LET front == SubSeq(msg, 1, cut)
            back == SubSeq(msg, cut + 1, Len(msg))
        IN job' = [kind |-> "hash", msg |-> msg, front |-> front, back |-> back,
                   sha256 |-> Sha256Digest(Update(Update(Sha256, front), back)),
                   sha1 |-> Sha1Digest(ProcessBytes(ProcessBytes(Sha1, front), back)),
                   hmac |-> HmacSha256(front, back)]

\* HMAC as the standard defines it, with the hash of the standard.
StandardHash(msg) == DigestOf(BlocksOf(msg), 32)
StandardHmac(key, msg) ==
    LET short == IF Len(key) > 64 THEN StandardHash(key) ELSE key
        Mask(n) == [i \in 1 .. 64 |-> Xored(IF i <= Len(short) THEN short[i] ELSE Zero, n)]
    IN StandardHash(Mask(92) \o StandardHash(Mask(54) \o msg))

\* What is hashed is the message with the padding of the standard, whatever
\* the lengths of the pieces it comes in; the code of a challenge is the HMAC
\* of the standard; and a digest meets a difficulty exactly when that many of
\* its first bits are zero, also where they are not a whole number of bytes.
DigestsAreStandard ==
    /\ job.kind = "hash" =>
          /\ job.sha256 = DigestOf(BlocksOf(job.msg), 32)
          /\ job.sha1 = DigestOf(BlocksOf(job.msg), 20)
          /\ job.hmac = StandardHmac(job.front, job.back)
    /\ job.kind = "proof" =>
          LET Bit(i) == (job.digest[(i - 1) \div 8 + 1] \div 2 ^ (7 - ((i - 1) % 8))) % 2
          IN job.meets <=> \A i \in 1 .. job.bits : Bit(i) = 0

----------------------------------------------------------------------------
Idle == [kind |-> "none"]

Convert == Encode64 \/ CleanPath \/ TestProof \/ Hash

ConversionSpec == job = Idle /\ [][job.kind = "none" /\ Convert]_job

=============================================================================
