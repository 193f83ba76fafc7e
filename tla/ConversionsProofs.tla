-------------------------- MODULE ConversionsProofs --------------------------
(***************************************************************************)
(* Proofs about the conversions of Conversions, for inputs of any length.  *)
(***************************************************************************)
EXTENDS Conversions, WellFoundedInduction, SequenceTheorems, TLAPS

LEMMA LeastNumber ==
    ASSUME NEW S \in SUBSET Nat, S # {}
    PROVE  \E x \in S : \A y \in S : x <= y
  <1>1. PICK x \in S : \A y \in S : ~ (<<y, x>> \in OpToRel(<, Nat))
    BY NatLessThanWellFounded, WFMin
  <1>2. x \in Nat /\ \A y \in S : y \in Nat /\ ~ (y < x)
    BY <1>1 DEF OpToRel
  <1>3. \A y \in S : x <= y
    BY <1>2
  <1> QED
    BY <1>3

\* Induction up to n, for a set instead of a predicate.
LEMMA Induction ==
    ASSUME NEW n \in Nat, NEW S, 0 \in S, \A i \in 0 .. n - 1 : i \in S => i + 1 \in S
    PROVE  0 .. n \subseteq S
  <1> DEFINE T == {i \in 0 .. n : i \notin S}
  <1> SUFFICES ASSUME T # {} PROVE FALSE
    OBVIOUS
  <1>1. T \in SUBSET Nat
    OBVIOUS
  <1>2. PICK x \in T : \A y \in T : x <= y
    BY <1>1, LeastNumber
  <1>3. x # 0 /\ x - 1 \in 0 .. n - 1 /\ x - 1 \notin T
    BY <1>2
  <1>4. x - 1 \in S
    BY <1>3
  <1>5. (x - 1) + 1 \in S
    BY <1>3, <1>4
  <1> QED
    BY <1>2, <1>5

\* What the recursive function of Decoded is, step by step: it exists.
LEMMA DecodedSteps ==
    ASSUME NEW text, Len(text) \in Nat
    PROVE  /\ Decoded(text)[0] = Unread
           /\ \A i \in 1 .. Len(text) : Decoded(text)[i] = DecodeDigit(Decoded(text)[i - 1], text[i])
  <1> DEFINE Defined(n, f) ==
                f = [i \in 0 .. n |-> IF i = 0 THEN Unread ELSE DecodeDigit(f[i - 1], text[i])]
             S == {n \in Nat : \E f : Defined(n, f)}
  <1>1. 0 \in S
    <2> DEFINE f == [i \in 0 .. 0 |-> Unread]
    <2>1. Defined(0, f)
      OBVIOUS
    <2> QED
      BY <2>1
  <1>2. ASSUME NEW n \in Nat, n \in S PROVE n + 1 \in S
    <2>1. PICK g : Defined(n, g)
      BY <1>2
    <2> DEFINE last == DecodeDigit(g[n], text[n + 1])
               f == [i \in 0 .. n + 1 |-> IF i = n + 1 THEN last ELSE g[i]]
    <2>2. \A i \in 0 .. n : f[i] = g[i]
      OBVIOUS
    <2>3. ASSUME NEW i \in 0 .. n + 1
          PROVE  f[i] = IF i = 0 THEN Unread ELSE DecodeDigit(f[i - 1], text[i])
      <3>1. CASE i = n + 1
        <4>1. i # 0 /\ i - 1 \in 0 .. n /\ i - 1 = n /\ f[i] = last
          BY <3>1
        <4>2. f[i - 1] = g[n]
          BY <4>1, <2>2
        <4> QED
          BY <4>1, <4>2, <3>1
      <3>2. CASE i \in 0 .. n
        <4>1. g[i] = IF i = 0 THEN Unread ELSE DecodeDigit(g[i - 1], text[i])
          BY <2>1, <3>2
        <4>2. i # 0 => i - 1 \in 0 .. n /\ f[i - 1] = g[i - 1]
          BY <2>2, <3>2
        <4> QED
          BY <4>1, <4>2, <2>2, <3>2
      <3> QED
        BY <3>1, <3>2
    <2>4. Defined(n + 1, f)
      <3> HIDE DEF last
      <3> QED
        BY <2>3
    <2> HIDE DEF Defined, f
    <2> QED
      BY <2>4
  <1>3. ASSUME NEW n \in Nat PROVE n \in S
    <2> HIDE DEF S
    <2>1. S \subseteq Nat
      BY DEF S
    <2>2. 0 .. n \subseteq S
      BY <1>1, <1>2, <2>1, Induction
    <2> QED
      BY <2>2
  <1>4. \E g : g = [i \in 0 .. Len(text) |-> IF i = 0 THEN Unread ELSE DecodeDigit(g[i - 1], text[i])]
    BY <1>3
  <1> HIDE DEF S, Defined
  <1> DEFINE f == Decoded(text)
  <1>5. f = [i \in 0 .. Len(text) |-> IF i = 0 THEN Unread ELSE DecodeDigit(f[i - 1], text[i])]
    BY <1>4 DEF Decoded
  <1> HIDE DEF f
  <1>6. f[0] = Unread
    BY <1>5
  <1>7. ASSUME NEW i \in 1 .. Len(text) PROVE f[i] = DecodeDigit(f[i - 1], text[i])
    <2>1. i \in 0 .. Len(text) /\ i # 0
      OBVIOUS
    <2> QED
      BY <1>5, <2>1
  <1> QED
    BY <1>6, <1>7 DEF f

\* What the recursive function of Sanitized is, step by step: it exists.
LEMMA SanitizedSteps ==
    ASSUME NEW text, Len(text) \in Nat
    PROVE  /\ Sanitized(text)[0] = [data |-> text, check |-> TRUE]
           /\ \A i \in 1 .. Len(text) : Sanitized(text)[i] = SanitizeChar(Sanitized(text)[i - 1], i)
  <1> DEFINE Defined(n, f) ==
                f = [i \in 0 .. n |-> IF i = 0 THEN [data |-> text, check |-> TRUE] ELSE SanitizeChar(f[i - 1], i)]
             S == {n \in Nat : \E f : Defined(n, f)}
  <1>1. 0 \in S
    <2> DEFINE f == [i \in 0 .. 0 |-> [data |-> text, check |-> TRUE]]
    <2>1. Defined(0, f)
      OBVIOUS
    <2> QED
      BY <2>1
  <1>2. ASSUME NEW n \in Nat, n \in S PROVE n + 1 \in S
    <2>1. PICK g : Defined(n, g)
      BY <1>2
    <2> DEFINE last == SanitizeChar(g[n], n + 1)
               f == [i \in 0 .. n + 1 |-> IF i = n + 1 THEN last ELSE g[i]]
    <2>2. \A i \in 0 .. n : f[i] = g[i]
      OBVIOUS
    <2>3. ASSUME NEW i \in 0 .. n + 1
          PROVE  f[i] = IF i = 0 THEN [data |-> text, check |-> TRUE] ELSE SanitizeChar(f[i - 1], i)
      <3>1. CASE i = n + 1
        <4>1. i # 0 /\ i - 1 \in 0 .. n /\ i - 1 = n /\ f[i] = last
          BY <3>1
        <4>2. f[i - 1] = g[n]
          BY <4>1, <2>2
        <4> QED
          BY <4>1, <4>2, <3>1
      <3>2. CASE i \in 0 .. n
        <4>1. g[i] = IF i = 0 THEN [data |-> text, check |-> TRUE] ELSE SanitizeChar(g[i - 1], i)
          BY <2>1, <3>2
        <4>2. i # 0 => i - 1 \in 0 .. n /\ f[i - 1] = g[i - 1]
          BY <2>2, <3>2
        <4> QED
          BY <4>1, <4>2, <2>2, <3>2
      <3> QED
        BY <3>1, <3>2
    <2>4. Defined(n + 1, f)
      <3> HIDE DEF last
      <3> QED
        BY <2>3
    <2> HIDE DEF Defined, f
    <2> QED
      BY <2>4
  <1>3. ASSUME NEW n \in Nat PROVE n \in S
    <2> HIDE DEF S
    <2>1. S \subseteq Nat
      BY DEF S
    <2>2. 0 .. n \subseteq S
      BY <1>1, <1>2, <2>1, Induction
    <2> QED
      BY <2>2
  <1>4. \E g : g = [i \in 0 .. Len(text) |-> IF i = 0 THEN [data |-> text, check |-> TRUE] ELSE SanitizeChar(g[i - 1], i)]
    BY <1>3
  <1> HIDE DEF S, Defined
  <1> DEFINE f == Sanitized(text)
  <1>5. f = [i \in 0 .. Len(text) |-> IF i = 0 THEN [data |-> text, check |-> TRUE] ELSE SanitizeChar(f[i - 1], i)]
    BY <1>4 DEF Sanitized
  <1> HIDE DEF f
  <1>6. f[0] = [data |-> text, check |-> TRUE]
    BY <1>5
  <1>7. ASSUME NEW i \in 1 .. Len(text) PROVE f[i] = SanitizeChar(f[i - 1], i)
    <2>1. i \in 0 .. Len(text) /\ i # 0
      OBVIOUS
    <2> QED
      BY <1>5, <2>1
  <1> QED
    BY <1>6, <1>7 DEF f

\* What the recursive function of Updated is, step by step: it exists.
LEMMA UpdatedSteps ==
    ASSUME NEW h, NEW text, Len(text) \in Nat
    PROVE  /\ Updated(h, text)[0] = h
           /\ \A i \in 1 .. Len(text) : Updated(h, text)[i] = UpdateByte(Updated(h, text)[i - 1], text[i])
  <1> DEFINE Defined(n, f) ==
                f = [i \in 0 .. n |-> IF i = 0 THEN h ELSE UpdateByte(f[i - 1], text[i])]
             S == {n \in Nat : \E f : Defined(n, f)}
  <1>1. 0 \in S
    <2> DEFINE f == [i \in 0 .. 0 |-> h]
    <2>1. Defined(0, f)
      OBVIOUS
    <2> QED
      BY <2>1
  <1>2. ASSUME NEW n \in Nat, n \in S PROVE n + 1 \in S
    <2>1. PICK g : Defined(n, g)
      BY <1>2
    <2> DEFINE last == UpdateByte(g[n], text[n + 1])
               f == [i \in 0 .. n + 1 |-> IF i = n + 1 THEN last ELSE g[i]]
    <2>2. \A i \in 0 .. n : f[i] = g[i]
      OBVIOUS
    <2>3. ASSUME NEW i \in 0 .. n + 1
          PROVE  f[i] = IF i = 0 THEN h ELSE UpdateByte(f[i - 1], text[i])
      <3>1. CASE i = n + 1
        <4>1. i # 0 /\ i - 1 \in 0 .. n /\ i - 1 = n /\ f[i] = last
          BY <3>1
        <4>2. f[i - 1] = g[n]
          BY <4>1, <2>2
        <4> QED
          BY <4>1, <4>2, <3>1
      <3>2. CASE i \in 0 .. n
        <4>1. g[i] = IF i = 0 THEN h ELSE UpdateByte(g[i - 1], text[i])
          BY <2>1, <3>2
        <4>2. i # 0 => i - 1 \in 0 .. n /\ f[i - 1] = g[i - 1]
          BY <2>2, <3>2
        <4> QED
          BY <4>1, <4>2, <2>2, <3>2
      <3> QED
        BY <3>1, <3>2
    <2>4. Defined(n + 1, f)
      <3> HIDE DEF last
      <3> QED
        BY <2>3
    <2> HIDE DEF Defined, f
    <2> QED
      BY <2>4
  <1>3. ASSUME NEW n \in Nat PROVE n \in S
    <2> HIDE DEF S
    <2>1. S \subseteq Nat
      BY DEF S
    <2>2. 0 .. n \subseteq S
      BY <1>1, <1>2, <2>1, Induction
    <2> QED
      BY <2>2
  <1>4. \E g : g = [i \in 0 .. Len(text) |-> IF i = 0 THEN h ELSE UpdateByte(g[i - 1], text[i])]
    BY <1>3
  <1> HIDE DEF S, Defined
  <1> DEFINE f == Updated(h, text)
  <1>5. f = [i \in 0 .. Len(text) |-> IF i = 0 THEN h ELSE UpdateByte(f[i - 1], text[i])]
    BY <1>4 DEF Updated
  <1> HIDE DEF f
  <1>6. f[0] = h
    BY <1>5
  <1>7. ASSUME NEW i \in 1 .. Len(text) PROVE f[i] = UpdateByte(f[i - 1], text[i])
    <2>1. i \in 0 .. Len(text) /\ i # 0
      OBVIOUS
    <2> QED
      BY <1>5, <2>1
  <1> QED
    BY <1>6, <1>7 DEF f

\* What the recursive function of Processed is, step by step: it exists.
LEMMA ProcessedSteps ==
    ASSUME NEW h, NEW text, Len(text) \in Nat
    PROVE  /\ Processed(h, text)[0] = h
           /\ \A i \in 1 .. Len(text) : Processed(h, text)[i] = ProcessByte(Processed(h, text)[i - 1], text[i])
  <1> DEFINE Defined(n, f) ==
                f = [i \in 0 .. n |-> IF i = 0 THEN h ELSE ProcessByte(f[i - 1], text[i])]
             S == {n \in Nat : \E f : Defined(n, f)}
  <1>1. 0 \in S
    <2> DEFINE f == [i \in 0 .. 0 |-> h]
    <2>1. Defined(0, f)
      OBVIOUS
    <2> QED
      BY <2>1
  <1>2. ASSUME NEW n \in Nat, n \in S PROVE n + 1 \in S
    <2>1. PICK g : Defined(n, g)
      BY <1>2
    <2> DEFINE last == ProcessByte(g[n], text[n + 1])
               f == [i \in 0 .. n + 1 |-> IF i = n + 1 THEN last ELSE g[i]]
    <2>2. \A i \in 0 .. n : f[i] = g[i]
      OBVIOUS
    <2>3. ASSUME NEW i \in 0 .. n + 1
          PROVE  f[i] = IF i = 0 THEN h ELSE ProcessByte(f[i - 1], text[i])
      <3>1. CASE i = n + 1
        <4>1. i # 0 /\ i - 1 \in 0 .. n /\ i - 1 = n /\ f[i] = last
          BY <3>1
        <4>2. f[i - 1] = g[n]
          BY <4>1, <2>2
        <4> QED
          BY <4>1, <4>2, <3>1
      <3>2. CASE i \in 0 .. n
        <4>1. g[i] = IF i = 0 THEN h ELSE ProcessByte(g[i - 1], text[i])
          BY <2>1, <3>2
        <4>2. i # 0 => i - 1 \in 0 .. n /\ f[i - 1] = g[i - 1]
          BY <2>2, <3>2
        <4> QED
          BY <4>1, <4>2, <2>2, <3>2
      <3> QED
        BY <3>1, <3>2
    <2>4. Defined(n + 1, f)
      <3> HIDE DEF last
      <3> QED
        BY <2>3
    <2> HIDE DEF Defined, f
    <2> QED
      BY <2>4
  <1>3. ASSUME NEW n \in Nat PROVE n \in S
    <2> HIDE DEF S
    <2>1. S \subseteq Nat
      BY DEF S
    <2>2. 0 .. n \subseteq S
      BY <1>1, <1>2, <2>1, Induction
    <2> QED
      BY <2>2
  <1>4. \E g : g = [i \in 0 .. Len(text) |-> IF i = 0 THEN h ELSE ProcessByte(g[i - 1], text[i])]
    BY <1>3
  <1> HIDE DEF S, Defined
  <1> DEFINE f == Processed(h, text)
  <1>5. f = [i \in 0 .. Len(text) |-> IF i = 0 THEN h ELSE ProcessByte(f[i - 1], text[i])]
    BY <1>4 DEF Processed
  <1> HIDE DEF f
  <1>6. f[0] = h
    BY <1>5
  <1>7. ASSUME NEW i \in 1 .. Len(text) PROVE f[i] = ProcessByte(f[i - 1], text[i])
    <2>1. i \in 0 .. Len(text) /\ i # 0
      OBVIOUS
    <2> QED
      BY <1>5, <2>1
  <1> QED
    BY <1>6, <1>7 DEF f

----------------------------------------------------------------------------
(* Base64.                                                                 *)

\* The four digits of three bytes, with the weights of the digits.
FourDigits(a, b, c, v) ==
    /\ (v \div 262144) % 64 = a \div 4
    /\ (v \div 4096) % 64 = (a % 4) * 16 + b \div 16
    /\ (v \div 64) % 64 = (b % 16) * 4 + c \div 64
    /\ (v \div 1) % 64 = c % 64

LEMMA DigitsOfThree ==
    ASSUME NEW a \in Byte, NEW b \in Byte, NEW c \in Byte,
           NEW v \in Nat, v = a * 65536 + b * 256 + c
    PROVE  FourDigits(a, b, c, v)
  <1> DEFINE x == a \div 4  x0 == a % 4
             y == b \div 16 y0 == b % 16
             z == c \div 64 z0 == c % 64
  <1>1. x \in 0 .. 63 /\ x0 \in 0 .. 3 /\ a = 4 * x + x0
    BY DEF Byte
  <1>2. y \in 0 .. 15 /\ y0 \in 0 .. 15 /\ b = 16 * y + y0
    BY DEF Byte
  <1>3. z \in 0 .. 3 /\ z0 \in 0 .. 63 /\ c = 64 * z + z0
    BY DEF Byte
  <1> HIDE DEF x, x0, y, y0, z, z0
  <1> DEFINE d2 == x0 * 16 + y  d3 == y0 * 4 + z
  <1>4. d2 \in 0 .. 63 /\ d3 \in 0 .. 63
    BY <1>1, <1>2, <1>3
  <1>5. v = 262144 * x + 4096 * d2 + 64 * d3 + z0
    BY <1>1, <1>2, <1>3
  <1> HIDE DEF d2, d3
  <1>6. v \div 262144 = x
    BY <1>1, <1>3, <1>4, <1>5
  <1>7. v \div 4096 = 64 * x + d2
    BY <1>1, <1>3, <1>4, <1>5
  <1>8. v \div 64 = 4096 * x + 64 * d2 + d3
    BY <1>1, <1>3, <1>4, <1>5
  <1>9. x % 64 = x /\ (64 * x + d2) % 64 = d2
    BY <1>1, <1>4
  <1>10. (4096 * x + 64 * d2 + d3) % 64 = d3
    BY <1>1, <1>4
  <1>11. v \div 1 = v /\ v % 64 = z0
    BY <1>1, <1>3, <1>4, <1>5
  <1> QED
    BY <1>6, <1>7, <1>8, <1>9, <1>10, <1>11 DEF FourDigits, x, d2, d3, x0, y, y0, z, z0

\* Where the k-th digit stands: in the q-th group, which has a first byte.
LEMMA Groups ==
    ASSUME NEW n \in Nat, NEW k \in 1 .. 4 * ((n + 2) \div 3)
    PROVE  \E q \in Nat, j \in 0 .. 3 :
              /\ k = 4 * q + j + 1 /\ (k - 1) \div 4 = q /\ (k - 1) % 4 = j
              /\ 3 * q + 1 <= n
  <1> DEFINE q == (k - 1) \div 4  j == (k - 1) % 4  g == (n + 2) \div 3
  <1>1. q \in Nat /\ j \in 0 .. 3 /\ k - 1 = 4 * q + j
    OBVIOUS
  <1>2. g \in Nat /\ 3 * g <= n + 2 /\ k <= 4 * g
    OBVIOUS
  <1>3. q + 1 <= g
    BY <1>1, <1>2
  <1> QED
    BY <1>1, <1>2, <1>3

\* The digit at place j of group q, by the bits it takes from one or two bytes.
Digit(bytes, q, j) ==
    IF j = 0 THEN ByteAt(bytes, 3 * q + 1) \div 4
    ELSE IF j = 1 THEN (ByteAt(bytes, 3 * q + 1) % 4) * 16 + ByteAt(bytes, 3 * q + 2) \div 16
    ELSE IF 3 * q + j > Len(bytes) THEN Pad
    ELSE IF j = 2 THEN (ByteAt(bytes, 3 * q + 2) % 16) * 4 + ByteAt(bytes, 3 * q + 3) \div 64
    ELSE ByteAt(bytes, 3 * q + 3) % 64

LEMMA ByteAtType ==
    ASSUME NEW bytes \in Seq(Byte), NEW i \in Nat \ {0} PROVE ByteAt(bytes, i) \in Byte
  <1>1. 0 \in Byte
    BY DEF Byte
  <1>2. i <= Len(bytes) => bytes[i] \in Byte
    OBVIOUS
  <1> QED
    BY <1>1, <1>2 DEF ByteAt

\* Both encoders write these digits.
LEMMA EncodedDigits ==
    ASSUME NEW bytes \in Seq(Byte), NEW q \in Nat, NEW j \in 0 .. 3, NEW k \in Nat,
           k \in 1 .. 4 * ((Len(bytes) + 2) \div 3), q = (k - 1) \div 4, j = (k - 1) % 4,
           3 * q + 1 <= Len(bytes)
    PROVE  /\ CrowBase64Encode(bytes)[k] = Digit(bytes, q, j)
           /\ Base64Encode(bytes)[k] = Digit(bytes, q, j)
  <1> DEFINE i == 3 * q + 1
             a == ByteAt(bytes, i)  b == ByteAt(bytes, i + 1)  c == ByteAt(bytes, i + 2)
             v == a * 65536 + b * 256 + c
  <1>1. Len(bytes) \in Nat /\ i \in Nat /\ i \in 1 .. Len(bytes) /\ a = bytes[i]
    BY DEF ByteAt
  <1>2. i + 1 <= Len(bytes) => b = bytes[i + 1]
    BY <1>1 DEF ByteAt
  <1>3. i + 2 <= Len(bytes) => c = bytes[i + 2]
    BY <1>1 DEF ByteAt
  <1>4. i + 1 = 3 * q + 2 /\ i + 2 = 3 * q + 3
    BY <1>1
  <1>5. a \in Byte /\ b \in Byte /\ c \in Byte
    BY <1>1, ByteAtType
  <1> HIDE DEF a, b, c
  <1>6. v \in Nat
    BY <1>5 DEF Byte
  <1> DEFINE crow == IF j = 0 THEN bytes[i] \div 4
                     ELSE IF j = 1 THEN (bytes[i] % 4) * 16 + ByteAt(bytes, i + 1) \div 16
                     ELSE IF i + j > Len(bytes) + 1 THEN Pad
                     ELSE IF j = 2 THEN (bytes[i + 1] % 16) * 4 + ByteAt(bytes, i + 2) \div 64
                     ELSE bytes[i + 2] % 64
             plain == IF i + j > Len(bytes) + 1 THEN Pad ELSE (v \div <<262144, 4096, 64, 1>>[j + 1]) % 64
  <1>7. CrowBase64Encode(bytes)[k] = crow
    BY DEF CrowBase64Encode
  <1>8. Base64Encode(bytes)[k] = plain
    BY DEF Base64Encode, a, b, c
  <1>9. /\ (v \div 262144) % 64 = a \div 4
        /\ (v \div 4096) % 64 = (a % 4) * 16 + b \div 16
        /\ (v \div 64) % 64 = (b % 16) * 4 + c \div 64
        /\ (v \div 1) % 64 = c % 64
    <2>1. PICK w : w = v
      OBVIOUS
    <2>2. w \in Nat /\ w = a * 65536 + b * 256 + c
      BY <1>6, <2>1
    <2> HIDE DEF v
    <2>3. FourDigits(a, b, c, w)
      BY <1>5, <2>2, DigitsOfThree
    <2> QED
      BY <2>1, <2>3 DEF FourDigits
  <1> HIDE DEF v
  <1>10. CASE j = 0
    <2>1. crow = bytes[i] \div 4
      BY <1>10
    <2>2. plain = (v \div 262144) % 64
      BY <1>10, <1>1
    <2>3. Digit(bytes, q, j) = a \div 4
      BY <1>10 DEF Digit, a
    <2> QED
      BY <1>1, <1>7, <1>8, <1>9, <2>1, <2>2, <2>3
  <1>11. CASE j = 1
    <2>1. crow = (bytes[i] % 4) * 16 + b \div 16
      BY <1>11 DEF b
    <2>2. plain = (v \div 4096) % 64
      BY <1>11, <1>1
    <2>3. Digit(bytes, q, j) = (a % 4) * 16 + b \div 16
      BY <1>11, <1>4 DEF Digit, a, b
    <2> QED
      BY <1>1, <1>7, <1>8, <1>9, <2>1, <2>2, <2>3
  <1>12. CASE j = 2
    <2>1. crow = IF i + 1 <= Len(bytes) THEN (bytes[i + 1] % 16) * 4 + c \div 64 ELSE Pad
      BY <1>12, <1>1 DEF c
    <2>2. plain = IF i + 1 <= Len(bytes) THEN (v \div 64) % 64 ELSE Pad
      BY <1>12, <1>1
    <2>3. Digit(bytes, q, j) = IF i + 1 <= Len(bytes) THEN (b % 16) * 4 + c \div 64 ELSE Pad
      BY <1>12, <1>4 DEF Digit, b, c
    <2> QED
      BY <1>2, <1>7, <1>8, <1>9, <2>1, <2>2, <2>3
  <1>13. CASE j = 3
    <2>1. crow = IF i + 2 <= Len(bytes) THEN bytes[i + 2] % 64 ELSE Pad
      BY <1>13, <1>1
    <2>2. plain = IF i + 2 <= Len(bytes) THEN (v \div 1) % 64 ELSE Pad
      BY <1>13, <1>1
    <2>3. Digit(bytes, q, j) = IF i + 2 <= Len(bytes) THEN c % 64 ELSE Pad
      BY <1>13, <1>4 DEF Digit, c
    <2> QED
      BY <1>3, <1>7, <1>8, <1>9, <2>1, <2>2, <2>3
  <1> QED
    BY <1>10, <1>11, <1>12, <1>13

LEMMA ByteBounds == \A b : b \in Byte <=> b \in Nat /\ b < 256
  BY DEF Byte

\* Quotient and remainder, by the divisors that the shifts of the code are.
IsSplit(x, d, q, r) == /\ q \in Nat /\ r \in Nat /\ r < d /\ x = d * q + r
                       /\ q = x \div d /\ r = x % d

LEMMA Division ==
    ASSUME NEW x \in Nat, NEW d \in {2, 4, 8, 16, 32, 64, 128, 256, 1024}
    PROVE  \E q, r : IsSplit(x, d, q, r)
  <1>1. PICK q, r : q = x \div d /\ r = x % d
    OBVIOUS
  <1>2. CASE d = 2
    BY <1>1, <1>2, SMT DEF IsSplit
  <1>3. CASE d = 4
    BY <1>1, <1>3, SMT DEF IsSplit
  <1>4. CASE d = 8
    BY <1>1, <1>4, SMT DEF IsSplit
  <1>5. CASE d = 16
    BY <1>1, <1>5, SMT DEF IsSplit
  <1>6. CASE d = 64
    BY <1>1, <1>6, SMT DEF IsSplit
  <1>7. CASE d = 1024
    BY <1>1, <1>7, SMT DEF IsSplit
  <1>8. CASE d = 32
    BY <1>1, <1>8, SMT DEF IsSplit
  <1>9. CASE d = 128
    BY <1>1, <1>9, SMT DEF IsSplit
  <1>10. CASE d = 256
    BY <1>1, <1>10, SMT DEF IsSplit
  <1> QED
    BY <1>2, <1>3, <1>4, <1>5, <1>6, <1>7, <1>8, <1>9, <1>10

DecoderState ==
    [buf : Nat, bits : {0, 2, 4, 6}, out : Seq(Byte), ok : BOOLEAN, ended : BOOLEAN]

LEMMA ShiftType ==
    ASSUME NEW old \in Nat, NEW c \in Nat PROVE Shift(old, c) \in Nat
  BY SMT DEF Shift

LEMMA ByteFromType ==
    ASSUME NEW buf \in Nat, NEW bits \in {0, 2, 4} PROVE ByteFrom(buf, bits) \in Byte
  <1>1. PICK n : n = buf \div 2 ^ bits
    OBVIOUS
  <1>2. n \in Nat
    <2>1. 2 ^ 0 = 1 /\ 2 ^ 2 = 4 /\ 2 ^ 4 = 16
      BY SMT
    <2>2. 2 ^ bits \in {1, 4, 16}
      BY <2>1
    <2> QED
      BY <1>1, <2>2, SMT
  <1>3. n % 256 \in Nat /\ n % 256 < 256
    BY <1>2, SMT
  <1> QED
    BY <1>1, <1>3, ByteBounds, SMT DEF ByteFrom

LEMMA Wraps ==
    ASSUME NEW x, NEW h \in Nat, NEW y \in Nat, y < 65536, x = 65536 * h + y
    PROVE  x % 65536 = y
  BY SMT

\* It begins with six of the bits and ends with the new ones.
LEMMA ShiftBits ==
    ASSUME NEW old \in Nat, NEW c \in Nat, c < 64
    PROVE  \E l \in Nat : /\ Shift(old, c) = 64 * l + c
                                /\ l % 64 = old % 64 /\ l % 16 = old % 16 /\ l % 4 = old % 4
  <1>1. PICK h, l : IsSplit(old, 1024, h, l)
    BY Division
  <1>2. old * 64 + c = 65536 * h + (64 * l + c) /\ 64 * l + c \in Nat /\ 64 * l + c < 65536
    BY <1>1, SMT DEF IsSplit
  <1>3. Shift(old, c) = 64 * l + c
    <2>1. h \in Nat /\ (old * 64 + c) % 65536 = 64 * l + c
      BY <1>1, <1>2, Wraps, SMT DEF IsSplit
    <2> QED
      BY <2>1, SMT DEF Shift
  <1>4. l \in Nat /\ l % 64 = old % 64 /\ l % 16 = old % 16 /\ l % 4 = old % 4
    BY <1>1 DEF IsSplit
  <1> QED
    BY <1>3, <1>4

LEMMA SecondDigit ==
    ASSUME NEW old \in Nat, NEW c \in Nat, c < 64, NEW a \in Byte, NEW t \in Nat, t < 16,
           old % 64 = a \div 4, c = (a % 4) * 16 + t
    PROVE  ByteFrom(Shift(old, c), 4) = a /\ Shift(old, c) % 16 = t
  <1>1. a \in Nat /\ a < 256
    BY ByteBounds
  <1>2. PICK l \in Nat : Shift(old, c) = 64 * l + c /\ l % 64 = old % 64
    BY ShiftBits
  <1>3. PICK m, r : IsSplit(l, 64, m, r)
    BY Division
  <1>4. PICK q, s : IsSplit(a, 4, q, s)
    BY <1>1, Division
  <1>5. r = q /\ c = s * 16 + t
    BY <1>2, <1>3, <1>4 DEF IsSplit
  <1>6. Shift(old, c) = 4096 * m + 16 * a + t /\ m \in Nat
    BY <1>1, <1>2, <1>3, <1>4, <1>5 DEF IsSplit
  <1>7. (4096 * m + 16 * a + t) \div 16 = 256 * m + a /\ (4096 * m + 16 * a + t) % 16 = t
    BY <1>1, <1>6
  <1>8. (256 * m + a) % 256 = a
    BY <1>1, <1>6
  <1> QED
    BY <1>6, <1>7, <1>8, SMT DEF ByteFrom

LEMMA ThirdDigit ==
    ASSUME NEW old \in Nat, NEW c \in Nat, c < 64, NEW b \in Byte, NEW t \in Nat, t < 4,
           old % 16 = b \div 16, c = (b % 16) * 4 + t
    PROVE  ByteFrom(Shift(old, c), 2) = b /\ Shift(old, c) % 4 = t
  <1>1. b \in Nat /\ b < 256
    BY ByteBounds
  <1>2. PICK l \in Nat : Shift(old, c) = 64 * l + c /\ l % 16 = old % 16
    BY ShiftBits
  <1>3. PICK m, r : IsSplit(l, 16, m, r)
    BY Division
  <1>4. PICK q, s : IsSplit(b, 16, q, s)
    BY <1>1, Division
  <1>5. r = q /\ c = s * 4 + t
    BY <1>2, <1>3, <1>4 DEF IsSplit
  <1>6. Shift(old, c) = 1024 * m + 4 * b + t /\ m \in Nat
    BY <1>1, <1>2, <1>3, <1>4, <1>5 DEF IsSplit
  <1>7. (1024 * m + 4 * b + t) \div 4 = 256 * m + b /\ (1024 * m + 4 * b + t) % 4 = t
    BY <1>1, <1>6
  <1>8. (256 * m + b) % 256 = b
    BY <1>1, <1>6
  <1> QED
    BY <1>6, <1>7, <1>8, SMT DEF ByteFrom

LEMMA FourthDigit ==
    ASSUME NEW old \in Nat, NEW c \in Nat, c < 64, NEW b \in Byte,
           old % 4 = b \div 64, c = b % 64
    PROVE  ByteFrom(Shift(old, c), 0) = b
  <1>1. b \in Nat /\ b < 256
    BY ByteBounds
  <1>2. PICK l \in Nat : Shift(old, c) = 64 * l + c /\ l % 4 = old % 4
    BY ShiftBits
  <1>3. PICK m, r : IsSplit(l, 4, m, r)
    BY Division
  <1>4. PICK q, s : IsSplit(b, 64, q, s)
    BY <1>1, Division
  <1>5. r = q /\ c = s
    BY <1>2, <1>3, <1>4 DEF IsSplit
  <1>6. Shift(old, c) = 256 * m + b /\ m \in Nat
    BY <1>1, <1>2, <1>3, <1>4, <1>5 DEF IsSplit
  <1>7. (256 * m + b) \div 1 = 256 * m + b
    BY <1>1, <1>6
  <1>8. (256 * m + b) % 256 = b
    BY <1>1, <1>6
  <1> QED
    BY <1>6, <1>7, <1>8, SMT DEF ByteFrom

LEMMA FirstDigit ==
    ASSUME NEW old \in Nat, NEW c \in Nat, c < 64 PROVE Shift(old, c) % 64 = c
  <1>1. PICK l \in Nat : Shift(old, c) = 64 * l + c
    BY ShiftBits
  <1> QED
    BY <1>1

\* e is d after a digit c while the text is being read: six bits more, and a
\* byte when there are eight.
IsRead(d, c, e) ==
    /\ e \in DecoderState /\ e.ok /\ ~e.ended /\ e.buf = Shift(d.buf, c)
    /\ d.bits = 0 => e.bits = 6 /\ e.out = d.out
    /\ d.bits = 2 => e.bits = 0 /\ e.out = Append(d.out, ByteFrom(e.buf, 0))
    /\ d.bits = 4 => e.bits = 2 /\ e.out = Append(d.out, ByteFrom(e.buf, 2))
    /\ d.bits = 6 => e.bits = 4 /\ e.out = Append(d.out, ByteFrom(e.buf, 4))

LEMMA DigitIsRead ==
    ASSUME NEW d \in DecoderState, d.ok, ~d.ended, NEW c \in Nat, c < 64, NEW e, e = DecodeDigit(d, c)
    PROVE  IsRead(d, c, e)
  <1> DEFINE buf == Shift(d.buf, c)
  <1> HIDE DEF buf
  <1>1. c # White /\ c # Pad /\ c # Other
    BY DEF White, Pad, Other
  <1>2. d.buf \in Nat /\ d.out \in Seq(Byte) /\ d.bits \in {0, 2, 4, 6}
    BY DEF DecoderState
  <1>3. buf \in Nat
    BY <1>2, ShiftType DEF buf
  <1>4. PICK bits : bits = d.bits + 6
    OBVIOUS
  <1>5. e = IF bits < 8 THEN [d EXCEPT !.buf = buf, !.bits = bits]
            ELSE [d EXCEPT !.buf = buf, !.bits = bits - 8, !.out = Append(@, ByteFrom(buf, bits - 8))]
    <2>1. e = LET bits1 == d.bits + 6
                  buf1 == Shift(d.buf, c)
              IN IF bits1 < 8 THEN [d EXCEPT !.buf = buf1, !.bits = bits1]
                 ELSE [d EXCEPT !.buf = buf1, !.bits = bits1 - 8,
                                !.out = Append(@, ByteFrom(buf1, bits1 - 8))]
      BY <1>1 DEF DecodeDigit
    <2> QED
      BY <1>4, <2>1 DEF buf
  <1>6. \A w \in {0, 2, 4} : ByteFrom(buf, w) \in Byte
    BY <1>3, ByteFromType
  <1>7. CASE d.bits = 0
    <2>1. e = [d EXCEPT !.buf = buf, !.bits = 6]
      BY <1>4, <1>5, <1>7
    <2>2. e \in DecoderState /\ e.ok /\ ~e.ended /\ e.buf = buf /\ e.bits = 6 /\ e.out = d.out
      BY <1>3, <2>1 DEF DecoderState
    <2> QED
      BY <1>7, <2>2 DEF buf, IsRead
  <1>8. CASE d.bits = 2
    <2>1. bits \in Nat /\ bits - 8 = 0 /\ ~(bits < 8)
      BY <1>4, <1>8
    <2>2. e = [d EXCEPT !.buf = buf, !.bits = 0, !.out = Append(@, ByteFrom(buf, 0))]
      BY <1>5, <2>1
    <2>3. Append(d.out, ByteFrom(buf, 0)) \in Seq(Byte)
      BY <1>2, <1>6
    <2>4. /\ e \in DecoderState /\ e.ok /\ ~e.ended /\ e.buf = buf /\ e.bits = 0
          /\ e.out = Append(d.out, ByteFrom(e.buf, 0))
      BY <1>3, <2>2, <2>3 DEF DecoderState
    <2> QED
      BY <1>8, <2>4 DEF buf, IsRead
  <1>9. CASE d.bits = 4
    <2>1. bits \in Nat /\ bits - 8 = 2 /\ ~(bits < 8)
      BY <1>4, <1>9
    <2>2. e = [d EXCEPT !.buf = buf, !.bits = 2, !.out = Append(@, ByteFrom(buf, 2))]
      BY <1>5, <2>1
    <2>3. Append(d.out, ByteFrom(buf, 2)) \in Seq(Byte)
      BY <1>2, <1>6
    <2>4. /\ e \in DecoderState /\ e.ok /\ ~e.ended /\ e.buf = buf /\ e.bits = 2
          /\ e.out = Append(d.out, ByteFrom(e.buf, 2))
      BY <1>3, <2>2, <2>3 DEF DecoderState
    <2> QED
      BY <1>9, <2>4 DEF buf, IsRead
  <1>10. CASE d.bits = 6
    <2>1. bits \in Nat /\ bits - 8 = 4 /\ ~(bits < 8)
      BY <1>4, <1>10
    <2>2. e = [d EXCEPT !.buf = buf, !.bits = 4, !.out = Append(@, ByteFrom(buf, 4))]
      BY <1>5, <2>1
    <2>3. Append(d.out, ByteFrom(buf, 4)) \in Seq(Byte)
      BY <1>2, <1>6
    <2>4. /\ e \in DecoderState /\ e.ok /\ ~e.ended /\ e.buf = buf /\ e.bits = 4
          /\ e.out = Append(d.out, ByteFrom(e.buf, 4))
      BY <1>3, <2>2, <2>3 DEF DecoderState
    <2> QED
      BY <1>10, <2>4 DEF buf, IsRead
  <1> QED
    BY <1>2, <1>7, <1>8, <1>9, <1>10

\* The decoder before digit j of group q: what is written is a beginning of
\* the bytes, and the bits that are left are those of the byte under way.
Beginning(out, bytes) == Len(out) <= Len(bytes) /\ \A i \in 1 .. Len(out) : out[i] = bytes[i]

Reading(d, bytes, q, j) ==
    /\ d \in DecoderState /\ d.ok
    /\ d.ended => d.out = bytes
    /\ ~d.ended =>
          /\ d.bits = IF j = 0 THEN 0 ELSE 8 - 2 * j
          /\ Len(d.out) = 3 * q + (IF j > 1 THEN j - 1 ELSE 0) /\ Beginning(d.out, bytes)
          /\ j = 1 => d.buf % 64 = ByteAt(bytes, 3 * q + 1) \div 4
          /\ j = 2 => d.buf % 16 = ByteAt(bytes, 3 * q + 2) \div 16
          /\ j = 3 => d.buf % 4 = ByteAt(bytes, 3 * q + 3) \div 64

\* One more byte of the right value.
LEMMA OneMore ==
    ASSUME NEW out \in Seq(Byte), NEW bytes \in Seq(Byte), NEW b, Len(out) < Len(bytes),
           Beginning(out, bytes), b = bytes[Len(out) + 1], NEW new, new = Append(out, b)
    PROVE  Len(new) = Len(out) + 1 /\ Beginning(new, bytes)
  BY DEF Beginning

LEMMA WholeBytes ==
    ASSUME NEW out \in Seq(Byte), NEW bytes \in Seq(Byte), Len(bytes) <= Len(out),
           Beginning(out, bytes)
    PROVE  out = bytes
  BY DEF Beginning

LEMMA PadEnds ==
    ASSUME NEW d \in DecoderState, d.ok, ~d.ended, NEW bytes, d.out = bytes,
           NEW e, e = DecodeDigit(d, Pad)
    PROVE  e \in DecoderState /\ e.ok /\ e.ended /\ e.out = bytes
  <1>1. Pad # White
    BY DEF Pad, White
  <1>2. e = [d EXCEPT !.ended = TRUE]
    BY <1>1 DEF DecodeDigit
  <1> QED
    BY <1>2 DEF DecoderState

LEMMA EndedStays ==
    ASSUME NEW d, d.ended, NEW c PROVE DecodeDigit(d, c) = d
  BY DEF DecodeDigit

\* The values and the range of a digit.
LEMMA DigitRange ==
    ASSUME NEW bytes \in Seq(Byte), NEW q \in Nat
    PROVE  /\ Digit(bytes, q, 0) \in Nat /\ Digit(bytes, q, 0) < 64
           /\ Digit(bytes, q, 1) \in Nat /\ Digit(bytes, q, 1) < 64
           /\ \A j \in {2, 3} : 3 * q + j <= Len(bytes) =>
                 Digit(bytes, q, j) \in Nat /\ Digit(bytes, q, j) < 64
           /\ \A j \in {2, 3} : ~(3 * q + j <= Len(bytes)) => Digit(bytes, q, j) = Pad
  <1>1. PICK a \in Byte, b \in Byte, c \in Byte :
               /\ a = ByteAt(bytes, 3 * q + 1)
               /\ b = ByteAt(bytes, 3 * q + 2)
               /\ c = ByteAt(bytes, 3 * q + 3)
    <2>1. 3 * q + 1 \in Nat \ {0} /\ 3 * q + 2 \in Nat \ {0} /\ 3 * q + 3 \in Nat \ {0}
      OBVIOUS
    <2> QED
      BY <2>1, ByteAtType
  <1>2. a \in Nat /\ a < 256 /\ b \in Nat /\ b < 256 /\ c \in Nat /\ c < 256
    BY ByteBounds
  <1>3. PICK a1, a0 : IsSplit(a, 4, a1, a0)
    BY <1>2, Division
  <1>4. PICK b1, b0 : IsSplit(b, 16, b1, b0)
    BY <1>2, Division
  <1>5. PICK c1, c0 : IsSplit(c, 64, c1, c0)
    BY <1>2, Division
  <1>6. Digit(bytes, q, 0) = a \div 4
    BY <1>1 DEF Digit
  <1>7. Digit(bytes, q, 1) = (a % 4) * 16 + b \div 16
    BY <1>1 DEF Digit
  <1>8. Digit(bytes, q, 2) = IF 3 * q + 2 > Len(bytes) THEN Pad ELSE (b % 16) * 4 + c \div 64
    BY <1>1 DEF Digit
  <1>9. Digit(bytes, q, 3) = IF 3 * q + 3 > Len(bytes) THEN Pad ELSE c % 64
    BY <1>1 DEF Digit
  <1>10. /\ a1 \in Nat /\ a1 < 64 /\ a0 * 16 + b1 \in Nat /\ a0 * 16 + b1 < 64
         /\ b0 * 4 + c1 \in Nat /\ b0 * 4 + c1 < 64 /\ c0 \in Nat /\ c0 < 64
    BY <1>2, <1>3, <1>4, <1>5 DEF IsSplit
  <1>11. /\ a \div 4 = a1 /\ (a % 4) * 16 + b \div 16 = a0 * 16 + b1
         /\ (b % 16) * 4 + c \div 64 = b0 * 4 + c1 /\ c % 64 = c0
    BY <1>3, <1>4, <1>5 DEF IsSplit
  <1>12. Len(bytes) \in Nat
    OBVIOUS
  <1>13. /\ Digit(bytes, q, 0) = a1 /\ Digit(bytes, q, 1) = a0 * 16 + b1
         /\ Digit(bytes, q, 2) = IF 3 * q + 2 > Len(bytes) THEN Pad ELSE b0 * 4 + c1
         /\ Digit(bytes, q, 3) = IF 3 * q + 3 > Len(bytes) THEN Pad ELSE c0
    BY <1>6, <1>7, <1>8, <1>9, <1>11
  <1> QED
    BY <1>10, <1>12, <1>13

LEMMA DoneReads ==
    ASSUME NEW d, NEW bytes, d \in DecoderState, d.ok, d.ended, d.out = bytes, NEW q, NEW j
    PROVE  Reading(d, bytes, q, j)
  BY DEF Reading

\* The four digits of a group, and where they leave the decoder.
LEMMA ReadFirst ==
    ASSUME NEW bytes \in Seq(Byte), NEW q \in Nat, 3 * q + 1 <= Len(bytes),
           NEW d, Reading(d, bytes, q, 0), NEW e, e = DecodeDigit(d, Digit(bytes, q, 0))
    PROVE  Reading(e, bytes, q, 1)
  <1>1. CASE d.ended
    BY <1>1, EndedStays, DoneReads DEF Reading
  <1>2. CASE ~d.ended
    <2>1. /\ d \in DecoderState /\ d.ok /\ d.bits = 0 /\ Len(d.out) = 3 * q
          /\ Beginning(d.out, bytes)
      BY <1>2 DEF Reading
    <2>2. d.buf \in Nat
      BY <2>1 DEF DecoderState
    <2>3. PICK c : c = Digit(bytes, q, 0)
      OBVIOUS
    <2>4. c \in Nat /\ c < 64
      BY <2>3, DigitRange
    <2>5. c = ByteAt(bytes, 3 * q + 1) \div 4
      BY <2>3 DEF Digit
    <2>6. /\ e \in DecoderState /\ e.ok /\ ~e.ended /\ e.buf = Shift(d.buf, c)
          /\ e.bits = 6 /\ e.out = d.out
      <3>1. IsRead(d, c, e)
        BY <1>2, <2>1, <2>3, <2>4, DigitIsRead
      <3> QED
        BY <2>1, <3>1 DEF IsRead
    <2>7. e.buf % 64 = ByteAt(bytes, 3 * q + 1) \div 4
      BY <2>2, <2>4, <2>5, <2>6, FirstDigit
    <2> QED
      BY <2>1, <2>6, <2>7 DEF Reading
  <1> QED
    BY <1>1, <1>2

LEMMA ReadSecond ==
    ASSUME NEW bytes \in Seq(Byte), NEW q \in Nat, 3 * q + 1 <= Len(bytes),
           NEW d, Reading(d, bytes, q, 1), NEW e, e = DecodeDigit(d, Digit(bytes, q, 1))
    PROVE  Reading(e, bytes, q, 2)
  <1>1. CASE d.ended
    BY <1>1, EndedStays, DoneReads DEF Reading
  <1>2. CASE ~d.ended
    <2>1. /\ d \in DecoderState /\ d.ok /\ d.bits = 6 /\ Len(d.out) = 3 * q
          /\ Beginning(d.out, bytes)
          /\ d.buf % 64 = ByteAt(bytes, 3 * q + 1) \div 4
      BY <1>2 DEF Reading
    <2>2. d.buf \in Nat /\ d.out \in Seq(Byte)
      BY <2>1 DEF DecoderState
    <2>3. PICK c : c = Digit(bytes, q, 1)
      OBVIOUS
    <2>4. c \in Nat /\ c < 64
      BY <2>3, DigitRange
    <2>5. PICK a \in Byte, b \in Byte : a = ByteAt(bytes, 3 * q + 1) /\ b = ByteAt(bytes, 3 * q + 2)
      <3>1. 3 * q + 1 \in Nat \ {0} /\ 3 * q + 2 \in Nat \ {0}
        OBVIOUS
      <3> QED
        BY <3>1, ByteAtType
    <2>6. PICK t, s : IsSplit(b, 16, t, s)
      BY Division, ByteBounds
    <2>7. c = (a % 4) * 16 + t /\ t = b \div 16 /\ t \in Nat /\ t < 16
      <3>1. t = b \div 16 /\ t \in Nat /\ t < 16
        BY <2>6, ByteBounds DEF IsSplit
      <3>2. c = (a % 4) * 16 + b \div 16
        BY <2>3, <2>5 DEF Digit
      <3> QED
        BY <3>1, <3>2
    <2>8. /\ e \in DecoderState /\ e.ok /\ ~e.ended /\ e.buf = Shift(d.buf, c)
          /\ e.bits = 4 /\ e.out = Append(d.out, ByteFrom(e.buf, 4))
      <3>1. IsRead(d, c, e)
        BY <1>2, <2>1, <2>3, <2>4, DigitIsRead
      <3> QED
        BY <2>1, <3>1 DEF IsRead
    <2>9. ByteFrom(e.buf, 4) = a /\ e.buf % 16 = t
      BY <2>1, <2>2, <2>4, <2>5, <2>7, <2>8, SecondDigit
    <2>10. Len(bytes) \in Nat /\ Len(d.out) < Len(bytes) /\ a = bytes[Len(d.out) + 1]
      BY <2>1, <2>5 DEF ByteAt
    <2>11. Len(e.out) = Len(d.out) + 1 /\ Beginning(e.out, bytes)
      BY <2>1, <2>2, <2>8, <2>9, <2>10, OneMore
    <2>12. Len(e.out) = 3 * q + 1
      BY <2>1, <2>10, <2>11
    <2>13. e.buf % 16 = ByteAt(bytes, 3 * q + 2) \div 16
      BY <2>5, <2>7, <2>9
    <2> QED
      BY <2>8, <2>11, <2>12, <2>13 DEF Reading
  <1> QED
    BY <1>1, <1>2

LEMMA ReadThird ==
    ASSUME NEW bytes \in Seq(Byte), NEW q \in Nat, 3 * q + 1 <= Len(bytes),
           NEW d, Reading(d, bytes, q, 2), NEW e, e = DecodeDigit(d, Digit(bytes, q, 2))
    PROVE  Reading(e, bytes, q, 3)
  <1>1. CASE d.ended
    BY <1>1, EndedStays, DoneReads DEF Reading
  <1>2. CASE ~d.ended
    <2>1. /\ d \in DecoderState /\ d.ok /\ d.bits = 4 /\ Len(d.out) = 3 * q + 1
          /\ Beginning(d.out, bytes)
          /\ d.buf % 16 = ByteAt(bytes, 3 * q + 2) \div 16
      BY <1>2 DEF Reading
    <2>2. d.buf \in Nat /\ d.out \in Seq(Byte) /\ Len(bytes) \in Nat
      BY <2>1 DEF DecoderState
    <2>3. CASE ~(3 * q + 2 <= Len(bytes))
      <3>1. Digit(bytes, q, 2) = Pad
        BY <2>3, DigitRange
      <3>2. Len(bytes) <= Len(d.out)
        BY <2>1, <2>2, <2>3
      <3>3. d.out = bytes
        BY <2>1, <2>2, <3>2, WholeBytes
      <3> QED
        BY <1>2, <2>1, <3>1, <3>3, PadEnds, DoneReads
    <2>4. CASE 3 * q + 2 <= Len(bytes)
      <3>1. PICK c : c = Digit(bytes, q, 2)
        OBVIOUS
      <3>2. c \in Nat /\ c < 64
        BY <2>4, <3>1, DigitRange
      <3>3. PICK a \in Byte, b \in Byte : a = ByteAt(bytes, 3 * q + 2) /\ b = ByteAt(bytes, 3 * q + 3)
        <4>1. 3 * q + 2 \in Nat \ {0} /\ 3 * q + 3 \in Nat \ {0}
          OBVIOUS
        <4> QED
          BY <4>1, ByteAtType
      <3>4. PICK t, s : IsSplit(b, 64, t, s)
        BY Division, ByteBounds
      <3>5. c = (a % 16) * 4 + t /\ t = b \div 64 /\ t \in Nat /\ t < 4
        <4>0. b \in Nat /\ b < 256
          BY ByteBounds
        <4>1. t = b \div 64 /\ t \in Nat /\ t < 4
          BY <3>4, <4>0, SMT DEF IsSplit
        <4>2. ~(3 * q + 2 > Len(bytes))
          BY <2>2, <2>4
        <4>3. c = (a % 16) * 4 + b \div 64
          BY <3>1, <3>3, <4>2 DEF Digit
        <4> QED
          BY <4>1, <4>3
      <3>6. /\ e \in DecoderState /\ e.ok /\ ~e.ended /\ e.buf = Shift(d.buf, c)
            /\ e.bits = 2 /\ e.out = Append(d.out, ByteFrom(e.buf, 2))
        <4>1. IsRead(d, c, e)
          BY <1>2, <2>1, <3>1, <3>2, DigitIsRead
        <4> QED
          BY <2>1, <4>1 DEF IsRead
      <3>7. ByteFrom(e.buf, 2) = a /\ e.buf % 4 = t
        BY <2>1, <2>2, <3>2, <3>3, <3>5, <3>6, ThirdDigit
      <3>8. Len(d.out) < Len(bytes) /\ a = bytes[Len(d.out) + 1]
        BY <2>1, <2>2, <2>4, <3>3 DEF ByteAt
      <3>9. Len(e.out) = Len(d.out) + 1 /\ Beginning(e.out, bytes)
        BY <2>1, <2>2, <3>6, <3>7, <3>8, OneMore
      <3>10. Len(e.out) = 3 * q + 2
        BY <2>1, <2>2, <2>4, <3>9
      <3>11. e.buf % 4 = ByteAt(bytes, 3 * q + 3) \div 64
        BY <3>3, <3>5, <3>7
      <3> QED
        BY <3>6, <3>9, <3>10, <3>11 DEF Reading
    <2> QED
      BY <2>3, <2>4
  <1> QED
    BY <1>1, <1>2

LEMMA LastIsRead ==
    ASSUME NEW d \in DecoderState, d.ok, ~d.ended, d.bits = 2, NEW c \in Nat, c < 64,
           NEW e, e = DecodeDigit(d, c)
    PROVE  /\ e \in DecoderState /\ e.ok /\ ~e.ended /\ e.buf = Shift(d.buf, c)
           /\ e.bits = 0 /\ e.out = Append(d.out, ByteFrom(e.buf, 0))
  <1>1. IsRead(d, c, e)
    BY DigitIsRead
  <1> QED
    BY <1>1 DEF IsRead

LEMMA ReadFourth ==
    ASSUME NEW bytes \in Seq(Byte), NEW q \in Nat, 3 * q + 1 <= Len(bytes),
           NEW d, Reading(d, bytes, q, 3), NEW e, e = DecodeDigit(d, Digit(bytes, q, 3))
    PROVE  Reading(e, bytes, q + 1, 0)
  <1>1. CASE d.ended
    BY <1>1, EndedStays, DoneReads DEF Reading
  <1>2. CASE ~d.ended
    <2>1. /\ d \in DecoderState /\ d.ok /\ d.bits = 2 /\ Len(d.out) = 3 * q + 2
          /\ Beginning(d.out, bytes)
          /\ d.buf % 4 = ByteAt(bytes, 3 * q + 3) \div 64
      BY <1>2 DEF Reading
    <2>2. d.buf \in Nat /\ d.out \in Seq(Byte) /\ Len(bytes) \in Nat
      BY <2>1 DEF DecoderState
    <2>3. CASE ~(3 * q + 3 <= Len(bytes))
      <3>1. Digit(bytes, q, 3) = Pad
        BY <2>3, DigitRange
      <3>2. Len(bytes) <= Len(d.out)
        BY <2>1, <2>2, <2>3
      <3>3. d.out = bytes
        BY <2>1, <2>2, <3>2, WholeBytes
      <3> QED
        BY <1>2, <2>1, <3>1, <3>3, PadEnds, DoneReads
    <2>4. CASE 3 * q + 3 <= Len(bytes)
      <3>1. PICK c : c = Digit(bytes, q, 3)
        OBVIOUS
      <3>2. c \in Nat /\ c < 64
        BY <2>4, <3>1, DigitRange
      <3>3. PICK b \in Byte : b = ByteAt(bytes, 3 * q + 3)
        <4>1. 3 * q + 3 \in Nat \ {0}
          OBVIOUS
        <4> QED
          BY <4>1, ByteAtType
      <3>4. c = b % 64 /\ d.buf % 4 = b \div 64
        <4>1. ~(3 * q + 3 > Len(bytes))
          BY <2>2, <2>4
        <4>2. c = b % 64
          BY <3>1, <3>3, <4>1 DEF Digit
        <4> QED
          BY <2>1, <3>3, <4>2
      <3>5. /\ e \in DecoderState /\ e.ok /\ ~e.ended /\ e.buf = Shift(d.buf, c)
            /\ e.bits = 0 /\ e.out = Append(d.out, ByteFrom(e.buf, 0))
        <4>1. d \in DecoderState /\ d.ok /\ ~d.ended /\ e = DecodeDigit(d, c) /\ d.bits = 2
          BY <1>2, <2>1, <3>1
        <4> QED
          BY <3>2, <4>1, LastIsRead
      <3>6. ByteFrom(e.buf, 0) = b
        BY <2>2, <3>2, <3>4, <3>5, FourthDigit
      <3>7. Len(d.out) < Len(bytes) /\ b = bytes[Len(d.out) + 1]
        BY <2>1, <2>2, <2>4, <3>3 DEF ByteAt
      <3>8. Len(e.out) = Len(d.out) + 1 /\ Beginning(e.out, bytes)
        BY <2>1, <2>2, <3>5, <3>6, <3>7, OneMore
      <3>9. Len(e.out) = 3 * (q + 1)
        BY <2>1, <2>2, <2>4, <3>8
      <3> QED
        BY <3>5, <3>8, <3>9 DEF Reading
    <2> QED
      BY <2>3, <2>4
  <1> QED
    BY <1>1, <1>2

LEMMA ReadDigit ==
    ASSUME NEW bytes \in Seq(Byte), NEW q \in Nat, NEW j \in 0 .. 3, 3 * q + 1 <= Len(bytes),
           NEW d, Reading(d, bytes, q, j), NEW e, e = DecodeDigit(d, Digit(bytes, q, j))
    PROVE  \E q1 \in Nat, j1 \in 0 .. 3 : 4 * q1 + j1 = 4 * q + j + 1 /\ Reading(e, bytes, q1, j1)
  <1>1. CASE j = 0
    <2>1. Reading(e, bytes, q, 1)
      BY <1>1, ReadFirst
    <2> QED
      BY <1>1, <2>1
  <1>2. CASE j = 1
    <2>1. Reading(e, bytes, q, 2)
      BY <1>2, ReadSecond
    <2> QED
      BY <1>2, <2>1
  <1>3. CASE j = 2
    <2>1. Reading(e, bytes, q, 3)
      BY <1>3, ReadThird
    <2> QED
      BY <1>3, <2>1
  <1>4. CASE j = 3
    <2>1. Reading(e, bytes, q + 1, 0)
      BY <1>4, ReadFourth
    <2>2. 4 * (q + 1) + 0 = 4 * q + j + 1 /\ q + 1 \in Nat
      BY <1>4
    <2> QED
      BY <2>1, <2>2
  <1> QED
    BY <1>1, <1>2, <1>3, <1>4

DigitCount(bytes) == 4 * ((Len(bytes) + 2) \div 3)

LEMMA DigitCountType ==
    ASSUME NEW bytes \in Seq(Byte)
    PROVE  /\ DigitCount(bytes) \in Nat
           /\ \E g \in Nat : DigitCount(bytes) = 4 * g /\ Len(bytes) <= 3 * g
  <1>1. Len(bytes) \in Nat
    OBVIOUS
  <1> DEFINE g == (Len(bytes) + 2) \div 3
  <1>2. g \in Nat /\ Len(bytes) <= 3 * g
    BY <1>1
  <1> QED
    BY <1>2 DEF DigitCount

LEMMA UnreadReads ==
    ASSUME NEW bytes \in Seq(Byte) PROVE Reading(Unread, bytes, 0, 0)
  <1>1. Unread \in DecoderState /\ Unread.ok /\ ~Unread.ended /\ Unread.bits = 0 /\ Unread.out = <<>>
    BY DEF Unread, DecoderState
  <1>2. Len(<<>>) = 0 /\ Beginning(<<>>, bytes)
    BY DEF Beginning
  <1> QED
    BY <1>1, <1>2 DEF Reading

LEMMA EndReads ==
    ASSUME NEW bytes \in Seq(Byte), NEW g \in Nat, Len(bytes) <= 3 * g, NEW d, Reading(d, bytes, g, 0)
    PROVE  d.ok /\ d.out = bytes
  <1>1. d.ok /\ d.out \in Seq(Byte)
    BY DEF Reading, DecoderState
  <1>2. CASE d.ended
    BY <1>1, <1>2 DEF Reading
  <1>3. CASE ~d.ended
    <2>1. Len(d.out) = 3 * g /\ Beginning(d.out, bytes)
      BY <1>3 DEF Reading
    <2>2. Len(bytes) <= Len(d.out)
      BY <2>1
    <2> QED
      BY <1>1, <2>1, <2>2, WholeBytes
  <1> QED
    BY <1>2, <1>3

\* A decoder that is given the digits in their order has read the bytes.
LEMMA DigitsAreRead ==
    ASSUME NEW bytes \in Seq(Byte), NEW f, f[0] = Unread,
           \A k \in 1 .. DigitCount(bytes) : f[k] = DecodeDigit(f[k - 1], Base64Encode(bytes)[k])
    PROVE  f[DigitCount(bytes)].ok /\ f[DigitCount(bytes)].out = bytes
  <1>1. PICK n : n = DigitCount(bytes)
    OBVIOUS
  <1>2. n \in Nat
    BY <1>1, DigitCountType
  <1>3. PICK g \in Nat : n = 4 * g /\ Len(bytes) <= 3 * g
    BY <1>1, DigitCountType
  <1> DEFINE S == {k \in 0 .. n : \E q \in Nat, j \in 0 .. 3 : k = 4 * q + j /\ Reading(f[k], bytes, q, j)}
  <1>4. 0 \in S
    BY <1>2, UnreadReads
  <1>5. ASSUME NEW i \in 0 .. n - 1, i \in S PROVE i + 1 \in S
    <2>1. PICK q \in Nat, j \in 0 .. 3 : i = 4 * q + j /\ Reading(f[i], bytes, q, j)
      BY <1>5
    <2>2. PICK k : k = i + 1
      OBVIOUS
    <2>3. k \in 1 .. n /\ k - 1 = i /\ k \in Nat /\ k = 4 * q + j + 1
      BY <1>2, <2>1, <2>2
    <2>4. PICK q0 \in Nat, j0 \in 0 .. 3 :
              /\ k = 4 * q0 + j0 + 1 /\ (k - 1) \div 4 = q0 /\ (k - 1) % 4 = j0
              /\ 3 * q0 + 1 <= Len(bytes)
      <3>1. Len(bytes) \in Nat /\ k \in 1 .. 4 * ((Len(bytes) + 2) \div 3)
        BY <1>1, <2>3 DEF DigitCount
      <3> QED
        BY <3>1, Groups
    <2>5. q0 = q /\ j0 = j
      BY <2>3, <2>4
    <2>6. Base64Encode(bytes)[k] = Digit(bytes, q, j)
      <3>1. k \in 1 .. 4 * ((Len(bytes) + 2) \div 3)
        BY <1>1, <2>3 DEF DigitCount
      <3>2. q = (k - 1) \div 4 /\ j = (k - 1) % 4 /\ 3 * q + 1 <= Len(bytes)
        BY <2>4, <2>5
      <3> QED
        BY <2>3, <3>1, <3>2, EncodedDigits
    <2>7. f[k] = DecodeDigit(f[i], Digit(bytes, q, j))
      BY <1>1, <2>3, <2>6
    <2>8. 3 * q + 1 <= Len(bytes)
      BY <2>4, <2>5
    <2>9. PICK q1 \in Nat, j1 \in 0 .. 3 : 4 * q1 + j1 = 4 * q + j + 1 /\ Reading(f[k], bytes, q1, j1)
      BY <2>1, <2>7, <2>8, ReadDigit
    <2>10. k \in S
      <3>1. k \in 0 .. n /\ k = 4 * q1 + j1
        BY <1>2, <2>3, <2>9
      <3> QED
        BY <2>9, <3>1
    <2> QED
      BY <2>2, <2>10
  <1>6. n \in S
    <2> HIDE DEF S
    <2>1. 0 .. n \subseteq S
      BY <1>2, <1>4, <1>5, Induction
    <2> QED
      BY <1>2, <2>1
  <1>7. PICK q \in Nat, j \in 0 .. 3 : n = 4 * q + j /\ Reading(f[n], bytes, q, j)
    BY <1>6
  <1>8. q = g /\ j = 0
    BY <1>3, <1>7
  <1>9. Reading(f[n], bytes, g, 0)
    BY <1>7, <1>8
  <1> QED
    BY <1>1, <1>3, <1>9, EndReads

LEMMA TextType ==
    ASSUME NEW bytes \in Seq(Byte)
    PROVE  /\ Base64Encode(bytes) \in Seq(Nat) /\ Len(Base64Encode(bytes)) = DigitCount(bytes)
           /\ CrowBase64Encode(bytes) = Base64Encode(bytes)
  <1>1. PICK n, text, crow : /\ n = DigitCount(bytes) /\ text = Base64Encode(bytes)
                             /\ crow = CrowBase64Encode(bytes)
    OBVIOUS
  <1>2. n \in Nat /\ n = 4 * ((Len(bytes) + 2) \div 3)
    BY <1>1, DigitCountType DEF DigitCount
  <1>3. text = [k \in 1 .. n |-> text[k]] /\ crow = [k \in 1 .. n |-> crow[k]]
    BY <1>1, <1>2 DEF Base64Encode, CrowBase64Encode
  <1>4. ASSUME NEW k \in 1 .. n PROVE text[k] \in Nat /\ crow[k] = text[k]
    <2>1. Len(bytes) \in Nat /\ k \in Nat /\ k \in 1 .. 4 * ((Len(bytes) + 2) \div 3)
      BY <1>2
    <2>2. PICK q \in Nat, j \in 0 .. 3 :
              /\ k = 4 * q + j + 1 /\ (k - 1) \div 4 = q /\ (k - 1) % 4 = j
              /\ 3 * q + 1 <= Len(bytes)
      BY <2>1, Groups
    <2>3. text[k] = Digit(bytes, q, j) /\ crow[k] = Digit(bytes, q, j)
      <3>1. q = (k - 1) \div 4 /\ j = (k - 1) % 4
        BY <2>2
      <3> QED
        BY <1>1, <2>1, <2>2, <3>1, EncodedDigits
    <2>4. Digit(bytes, q, 0) \in Nat /\ Digit(bytes, q, 1) \in Nat
      BY DigitRange
    <2>5. \A w \in {2, 3} : Digit(bytes, q, w) \in Nat
      <3>1. Pad \in Nat
        BY DEF Pad
      <3> QED
        BY <3>1, DigitRange
    <2>6. j \in {0, 1, 2, 3}
      OBVIOUS
    <2> QED
      BY <2>3, <2>4, <2>5, <2>6
  <1>5. crow = text
    BY <1>3, <1>4
  <1>6. text \in Seq(Nat) /\ Len(text) = n
    BY <1>2, <1>3, <1>4
  <1> QED
    BY <1>1, <1>5, <1>6

LEMMA TextIsRead ==
    ASSUME NEW bytes \in Seq(Byte), NEW r, r = Base64Decode(Base64Encode(bytes))
    PROVE  r.ok /\ r.out = bytes
  <1>1. PICK text, f, n : /\ text = Base64Encode(bytes) /\ f = Decoded(text) /\ n = Len(text)
    OBVIOUS
  <1>2. n = DigitCount(bytes) /\ n \in Nat
    BY <1>1, TextType, DigitCountType
  <1>3. f[0] = Unread /\ \A k \in 1 .. n : f[k] = DecodeDigit(f[k - 1], text[k])
    BY <1>1, <1>2, DecodedSteps
  <1>4. f[n].ok /\ f[n].out = bytes
    BY <1>1, <1>2, <1>3, DigitsAreRead
  <1> QED
    BY <1>1, <1>4 DEF Base64Decode

LEMMA BlanksAreSkipped ==
    ASSUME NEW bytes \in Seq(Byte), NEW r, r = Base64Decode(Spaced(Base64Encode(bytes)))
    PROVE  r.ok /\ r.out = bytes
  <1>1. PICK text, spaced, f, n : /\ text = Base64Encode(bytes) /\ spaced = Spaced(text)
                                  /\ f = Decoded(spaced) /\ n = Len(text)
    OBVIOUS
  <1>2. n = DigitCount(bytes) /\ n \in Nat /\ 2 * n \in Nat
    BY <1>1, TextType, DigitCountType
  <1>3. spaced = [k \in 1 .. 2 * n |-> IF k % 2 = 1 THEN text[(k + 1) \div 2] ELSE White]
    BY <1>1 DEF Spaced
  <1>4. Len(spaced) = 2 * n
    BY <1>2, <1>3
  <1>5. f[0] = Unread /\ \A k \in 1 .. 2 * n : f[k] = DecodeDigit(f[k - 1], spaced[k])
    BY <1>1, <1>2, <1>4, DecodedSteps
  <1>6. PICK g : g = [k \in 0 .. n |-> f[2 * k]]
    OBVIOUS
  <1>7. g[0] = Unread /\ g[n] = f[2 * n]
    BY <1>2, <1>5, <1>6
  <1>8. ASSUME NEW k \in 1 .. n PROVE g[k] = DecodeDigit(g[k - 1], text[k])
    <2>1. PICK a, b : a = 2 * k - 1 /\ b = 2 * k
      OBVIOUS
    <2>2. /\ a \in 1 .. 2 * n /\ b \in 1 .. 2 * n /\ b - 1 = a /\ a - 1 = 2 * (k - 1)
          /\ k \in 0 .. n /\ k - 1 \in 0 .. n
      BY <1>2, <2>1
    <2>3. a % 2 = 1 /\ (a + 1) \div 2 = k /\ ~(b % 2 = 1)
      BY <2>1
    <2>4. spaced[a] = text[k] /\ spaced[b] = White
      BY <1>3, <2>2, <2>3
    <2>5. g[k] = f[b] /\ g[k - 1] = f[a - 1]
      BY <1>6, <2>1, <2>2
    <2>6. f[b] = DecodeDigit(f[a], White) /\ f[a] = DecodeDigit(f[a - 1], text[k])
      BY <1>5, <2>2, <2>4
    <2>7. DecodeDigit(f[a], White) = f[a]
      BY DEF DecodeDigit
    <2> QED
      BY <2>5, <2>6, <2>7
  <1>9. g[n].ok /\ g[n].out = bytes
    BY <1>1, <1>2, <1>7, <1>8, DigitsAreRead
  <1> QED
    BY <1>1, <1>4, <1>7, <1>9 DEF Base64Decode

LEMMA OtherStops ==
    ASSUME NEW text \in Seq(Nat), NEW r, r = Base64Decode(<<Other>> \o text)
    PROVE  ~r.ok
  <1>1. PICK spoilt, f, n : spoilt = <<Other>> \o text /\ f = Decoded(spoilt) /\ n = Len(text)
    OBVIOUS
  <1>2. n \in Nat /\ n + 1 \in Nat /\ Len(spoilt) = n + 1 /\ spoilt[1] = Other
    BY <1>1
  <1>3. f[0] = Unread /\ \A i \in 1 .. n + 1 : f[i] = DecodeDigit(f[i - 1], spoilt[i])
    <2>1. Len(spoilt) \in Nat
      BY <1>2
    <2>2. /\ Decoded(spoilt)[0] = Unread
          /\ \A i \in 1 .. Len(spoilt) :
                Decoded(spoilt)[i] = DecodeDigit(Decoded(spoilt)[i - 1], spoilt[i])
      BY <2>1, DecodedSteps
    <2> QED
      BY <1>1, <1>2, <2>2
  <1> DEFINE S == {i \in 0 .. n : ~f[i + 1].ok}
  <1>4. 0 \in S
    <2>1. f[1] = DecodeDigit(Unread, Other)
      BY <1>2, <1>3
    <2>2. Other # White /\ Other # Pad
      BY DEF Other, White, Pad
    <2>3. ~Unread.ended /\ Unread.ok
      BY DEF Unread
    <2>4. DecodeDigit(Unread, Other) = [Unread EXCEPT !.ok = FALSE]
      BY <2>2, <2>3 DEF DecodeDigit
    <2>5. ~[Unread EXCEPT !.ok = FALSE].ok
      BY DEF Unread
    <2>6. ~f[1].ok
      BY <2>1, <2>4, <2>5
    <2>7. 0 \in 0 .. n /\ 0 + 1 = 1
      BY <1>2
    <2> QED
      BY <2>6, <2>7
  <1>5. ASSUME NEW i \in 0 .. n - 1, i \in S PROVE i + 1 \in S
    <2>1. i + 2 \in 1 .. n + 1 /\ (i + 2) - 1 = i + 1 /\ (i + 1) + 1 = i + 2
      BY <1>2
    <2>2. f[i + 2] = DecodeDigit(f[i + 1], spoilt[i + 2])
      BY <1>3, <2>1
    <2>3. ~f[i + 1].ok
      BY <1>5
    <2>4. DecodeDigit(f[i + 1], spoilt[i + 2]) = f[i + 1]
      BY <2>3 DEF DecodeDigit
    <2>5. i + 1 \in 0 .. n
      BY <1>2
    <2> QED
      BY <2>1, <2>2, <2>3, <2>4, <2>5
  <1>6. n \in S
    <2> HIDE DEF S
    <2>1. 0 .. n \subseteq S
      BY <1>2, <1>4, <1>5, Induction
    <2> QED
      BY <1>2, <2>1
  <1> QED
    BY <1>1, <1>2, <1>6 DEF Base64Decode

LEMMA HexDigitsOfBytes ==
    ASSUME NEW bytes \in Seq(Byte), NEW hex, hex = ToHex(bytes)
    PROVE  /\ Len(hex) = 2 * Len(bytes)
           /\ \A i \in DOMAIN bytes : bytes[i] = 16 * hex[2 * i - 1] + hex[2 * i]
  <1>1. PICK n : n = Len(bytes)
    OBVIOUS
  <1>2. n \in Nat /\ 2 * n \in Nat /\ DOMAIN bytes = 1 .. n
    BY <1>1
  <1>3. hex = [k \in 1 .. 2 * n |->
                  IF k % 2 = 1 THEN bytes[(k + 1) \div 2] \div 16 ELSE bytes[(k + 1) \div 2] % 16]
    BY <1>1 DEF ToHex
  <1>4. Len(hex) = 2 * n
    BY <1>2, <1>3
  <1>5. ASSUME NEW i \in 1 .. n PROVE bytes[i] = 16 * hex[2 * i - 1] + hex[2 * i]
    <2>1. PICK a, b, x : a = 2 * i - 1 /\ b = 2 * i /\ x = bytes[i]
      OBVIOUS
    <2>2. a \in 1 .. 2 * n /\ b \in 1 .. 2 * n
      BY <1>2, <2>1
    <2>3. a % 2 = 1 /\ (a + 1) \div 2 = i /\ ~(b % 2 = 1) /\ (b + 1) \div 2 = i
      BY <2>1
    <2>4. hex[a] = x \div 16 /\ hex[b] = x % 16
      BY <1>3, <2>1, <2>2, <2>3
    <2>5. x \in Byte
      BY <1>1, <2>1
    <2>6. x \in Nat
      BY <2>5, ByteBounds
    <2>7. PICK q, s : IsSplit(x, 16, q, s)
      BY <2>6, Division
    <2>8. x = 16 * q + s /\ hex[a] = q /\ hex[b] = s
      BY <2>4, <2>7 DEF IsSplit
    <2> QED
      BY <2>1, <2>8
  <1> QED
    BY <1>1, <1>2, <1>4, <1>5

----------------------------------------------------------------------------
(* File names.                                                             *)

\* The character that takes the place of others.
Under == "_"
Char == STRING \cup {Under}

LEMMA SpecialNames ==
    ASSUME NEW x \in SpecialFiles
    PROVE  /\ Len(x.name) \in {2, 3}
           /\ \A k \in 1 .. Len(x.name) : x.name[k] # Under
           /\ x.number \in BOOLEAN
  <1>1. /\ \/ x.name = <<"a", "u", "x">> \/ x.name = <<"c", "o", "n">> \/ x.name = <<"c", "o", "m">>
           \/ x.name = <<"l", "p", "t">> \/ x.name = <<"n", "u", "l">> \/ x.name = <<"p", "r", "n">>
           \/ x.name = <<".", ".">>
        /\ x.number \in BOOLEAN
    <2>1. \/ x = [name |-> <<"a", "u", "x">>, number |-> FALSE]
          \/ x = [name |-> <<"c", "o", "n">>, number |-> FALSE]
          \/ x = [name |-> <<"c", "o", "m">>, number |-> TRUE]
          \/ x = [name |-> <<"l", "p", "t">>, number |-> TRUE]
          \/ x = [name |-> <<"n", "u", "l">>, number |-> FALSE]
          \/ x = [name |-> <<"p", "r", "n">>, number |-> FALSE]
          \/ x = [name |-> <<".", ".">>, number |-> FALSE]
      BY Zenon DEF SpecialFiles
    <2>2. ASSUME NEW name, NEW number \in BOOLEAN, x = [name |-> name, number |-> number]
          PROVE  x.name = name /\ x.number \in BOOLEAN
      BY <2>2
    <2> QED
      BY <2>1, <2>2, Zenon
  <1>2. ASSUME NEW a, NEW b, NEW c, a # Under, b # Under, c # Under, x.name = <<a, b, c>>
        PROVE  Len(x.name) = 3 /\ \A k \in 1 .. Len(x.name) : x.name[k] # Under
    BY <1>2
  <1>3. ASSUME NEW a, NEW b, a # Under, b # Under, x.name = <<a, b>>
        PROVE  Len(x.name) = 2 /\ \A k \in 1 .. Len(x.name) : x.name[k] # Under
    BY <1>3
  <1>4. \A a \in {"a", "u", "x", "c", "o", "n", "m", "l", "p", "t", "r", "."} : a # Under
    BY DEF Under
  <1> QED
    BY <1>1, <1>2, <1>3, <1>4

LEMMA AfterType ==
    ASSUME NEW x \in SpecialFiles, NEW p \in Nat
    PROVE  /\ After(p, x) \in Nat /\ After(p, x) > p
           /\ x.number => After(p, x) = p + Len(x.name) + 1
           /\ ~x.number => After(p, x) = p + Len(x.name)
  <1>1. PICK len, number : len = Len(x.name) /\ number = x.number
    OBVIOUS
  <1>2. len \in Nat /\ len > 0 /\ number \in BOOLEAN
    <2>1. Len(x.name) \in {2, 3} /\ x.number \in BOOLEAN
      BY SpecialNames
    <2>2. len \in Nat /\ len > 0
      <3>1. len \in {2, 3}
        BY <1>1, <2>1, Zenon
      <3> QED
        BY <3>1
    <2>3. number \in BOOLEAN
      BY <1>1, <2>1, Zenon
    <2> QED
      BY <2>2, <2>3
  <1>3. After(p, x) = p + len + (IF number THEN 1 ELSE 0)
    BY <1>1 DEF After
  <1>4. number => After(p, x) = p + len + 1
    BY <1>2, <1>3
  <1>5. ~number => After(p, x) = p + len
    BY <1>2, <1>3
  <1>6. After(p, x) \in Nat /\ After(p, x) > p
    BY <1>2, <1>4, <1>5
  <1> QED
    BY <1>1, <1>4, <1>5, <1>6

LEMMA Underscore ==
    /\ Lower(Under) = Under /\ Under \notin Ends /\ Under \notin Separators /\ Under \notin Illegal
    /\ Under \in Char /\ Under \notin {"1", "2", "3", "4", "5", "6", "7", "8", "9"}
  <1>1. Lower(Under) = Under
    BY DEF Lower, UpperSet, Under
  <1>2. Under \notin Ends /\ Under \notin Separators
    BY DEF Ends, Separators, Under
  <1>3. Under \notin Illegal
    BY NameAssumption DEF Illegal, Under
  <1>4. Under \notin {"1", "2", "3", "4", "5", "6", "7", "8", "9"}
    BY DEF Under
  <1>5. Under \in Char
    BY DEF Char
  <1> QED
    BY <1>1, <1>2, <1>3, <1>4, <1>5

LEMMA Appended ==
    ASSUME NEW front \in Seq(Char), NEW c \in Char, NEW t, t = front \o <<c>>
    PROVE  /\ t \in Seq(Char) /\ Len(t) = Len(front) + 1 /\ t[Len(front) + 1] = c
           /\ \A k \in 1 .. Len(front) : t[k] = front[k]
  OBVIOUS

LEMMA Joined ==
    ASSUME NEW front \in Seq(Char), NEW back \in Seq(Char), NEW t, t = front \o back
    PROVE  /\ t \in Seq(Char) /\ Len(t) = Len(front) + Len(back)
           /\ \A k \in 1 .. Len(front) : t[k] = front[k]
  OBVIOUS

LEMMA Replaced ==
    ASSUME NEW d \in Seq(Char), NEW p \in 1 .. Len(d), NEW c \in Char, NEW t, t = [d EXCEPT ![p] = c]
    PROVE  /\ t \in Seq(Char) /\ Len(t) = Len(d) /\ t[p] = c
           /\ \A k \in 1 .. p - 1 : t[k] = d[k]
  <1>1. t \in Seq(Char) /\ Len(t) = Len(d) /\ t[p] = c
    OBVIOUS
  <1>2. \A k \in 1 .. Len(d) : k # p => t[k] = d[k]
    OBVIOUS
  <1> QED
    BY <1>1, <1>2

\* A special name is not where a character of it is Under, nor before one.
LEMMA NoNameHere ==
    ASSUME NEW d \in Seq(Char), NEW p \in 1 .. Len(d), d[p] = Under, NEW x \in SpecialFiles
    PROVE  ~IsSpecial(d, p, x)
  <1>0. PICK len : len = Len(x.name)
    OBVIOUS
  <1>1. 1 \in 1 .. Len(x.name) /\ p + 1 - 1 = p
    <2>1. 1 \in 1 .. Len(x.name)
      <3>1. len = 2 \/ len = 3
        BY <1>0, SpecialNames
      <3>2. 1 \in 1 .. len
        BY <3>1
      <3> QED
        BY <1>0, <3>2
    <2>2. p \in Nat
      OBVIOUS
    <2> QED
      BY <2>1, <2>2
  <1>2. Lower(d[p]) # x.name[1]
    BY <1>1, SpecialNames, Underscore
  <1> QED
    BY <1>1, <1>2 DEF IsSpecial

\* A name found before a Under was there before the Under was written.
LEMMA NameWasThere ==
    ASSUME NEW d \in Seq(Char), NEW e \in Seq(Char), NEW p \in 1 .. Len(e), Len(e) <= Len(d),
           e[p] = Under, \A k \in 1 .. p - 1 : e[k] = d[k],
           NEW i \in 1 .. p - 1, NEW x \in SpecialFiles, IsSpecial(e, i, x)
    PROVE  IsSpecial(d, i, x)
  <1> DEFINE Nonzero == {"1", "2", "3", "4", "5", "6", "7", "8", "9"}
  <1>1. PICK next, len, number, name :
               next = After(i, x) /\ len = Len(x.name) /\ number = x.number /\ name = x.name
    OBVIOUS
  <1>2. Len(e) \in Nat /\ Len(d) \in Nat /\ p \in Nat /\ i \in Nat /\ i < p /\ 0 < i
    OBVIOUS
  <1>3. next \in Nat /\ (number => next = i + len + 1) /\ (~number => next = i + len)
    BY <1>1, <1>2, AfterType
  <1>4. len \in Nat /\ \A k \in 1 .. len : name[k] # Under
    <2>1. len = 2 \/ len = 3
      BY <1>1, SpecialNames
    <2> QED
      BY <1>1, <2>1, SpecialNames
  <1>5. number \in BOOLEAN
    BY <1>1, SpecialNames
  <1>6. /\ next <= Len(e) + 1
        /\ \A k \in 1 .. len : Lower(e[i + k - 1]) = name[k]
        /\ number => e[next - 1] \in Nonzero
        /\ next > Len(e) \/ e[next] \in Ends
    BY <1>1 DEF IsSpecial
  <1> HIDE DEF Nonzero
  <1>7. ~(p < i + len)
    <2> SUFFICES ASSUME p < i + len PROVE FALSE
      OBVIOUS
    <2>1. PICK k : k = p - i + 1
      OBVIOUS
    <2>2. k \in 1 .. len /\ i + k - 1 = p
      BY <1>2, <1>4, <2>1
    <2>3. Lower(e[p]) = name[k] /\ name[k] # Under
      BY <1>4, <1>6, <2>2
    <2> QED
      BY <2>3, Underscore
  <1>8. number => p # next - 1
    BY <1>6, Underscore DEF Nonzero
  <1>9. p # next
    <2>1. ~(p > Len(e))
      BY <1>2
    <2> QED
      BY <1>6, <2>1, Underscore
  <1>10. next < p /\ i + len <= p
    <2>1. CASE number
      BY <1>2, <1>3, <1>4, <1>7, <1>8, <1>9, <2>1
    <2>2. CASE ~number
      BY <1>2, <1>3, <1>4, <1>7, <1>9, <2>2
    <2> QED
      BY <1>5, <2>1, <2>2
  <1>11. ASSUME NEW k \in 1 .. len PROVE Lower(d[i + k - 1]) = name[k]
    <2>1. i + k - 1 \in 1 .. p - 1
      BY <1>2, <1>4, <1>10
    <2> QED
      BY <1>6, <2>1
  <1>12. number => d[next - 1] \in Nonzero
    <2>1. number => next - 1 \in 1 .. p - 1
      BY <1>2, <1>3, <1>4, <1>10
    <2> QED
      BY <1>6, <2>1
  <1>13. next > Len(d) \/ d[next] \in Ends
    <2>1. next \in 1 .. p - 1
      BY <1>2, <1>3, <1>4, <1>5, <1>10
    <2>2. ~(next > Len(e))
      BY <1>2, <1>3, <1>10
    <2> QED
      BY <1>6, <2>1, <2>2
  <1>14. next <= Len(d) + 1
    BY <1>2, <1>3, <1>10
  <1> QED
    BY <1>1, <1>11, <1>12, <1>13, <1>14 DEF IsSpecial, Nonzero

\* What a special name leaves: Under in its place.
LEMMA SpecialFileGone ==
    ASSUME NEW d \in Seq(Char), NEW p \in 1 .. Len(d), NEW e, e = SanitizeSpecialFile(d, p)
    PROVE  /\ e \in Seq(Char) /\ Len(e) <= Len(d) /\ p <= Len(e)
           /\ \A k \in 1 .. p - 1 : e[k] = d[k]
           /\ \/ e[p] = Under
              \/ e = d /\ \A x \in SpecialFiles : ~IsSpecial(d, p, x)
  <1> DEFINE found == {special \in SpecialFiles : IsSpecial(d, p, special)}
  <1>1. CASE found = {}
    <2>1. e = d
      BY <1>1 DEF SanitizeSpecialFile
    <2>2. \A x \in SpecialFiles : ~IsSpecial(d, p, x)
      BY <1>1
    <2> QED
      BY <2>1, <2>2
  <1>2. CASE found # {}
    <2>1. PICK x : x = CHOOSE special \in found : TRUE
      OBVIOUS
    <2>2. x \in SpecialFiles /\ IsSpecial(d, p, x)
      BY <1>2, <2>1
    <2>3. PICK next : next = After(p, x)
      OBVIOUS
    <2>4. next \in Nat /\ next > p
      BY <2>2, <2>3, AfterType
    <2>5. next <= Len(d) + 1
      BY <2>2, <2>3 DEF IsSpecial
    <2>6. e = SubSeq(d, 1, p - 1) \o <<Under>> \o SubSeq(d, next, Len(d))
      BY <1>2, <2>1, <2>3 DEF SanitizeSpecialFile, Under
    <2>7. PICK front, back : front = SubSeq(d, 1, p - 1) /\ back = SubSeq(d, next, Len(d))
      OBVIOUS
    <2>0. Under \in Char
      BY Underscore
    <2>8. front \in Seq(Char) /\ Len(front) = p - 1 /\ \A k \in 1 .. p - 1 : front[k] = d[k]
      BY <2>7
    <2>9. back \in Seq(Char) /\ Len(back) = Len(d) + 1 - next
      BY <2>4, <2>5, <2>7
    <2>10. PICK under : under = front \o <<Under>>
      OBVIOUS
    <2>11. /\ under \in Seq(Char) /\ Len(under) = p /\ under[p] = Under
           /\ \A k \in 1 .. p - 1 : under[k] = d[k]
      <3>1. /\ under \in Seq(Char) /\ Len(under) = Len(front) + 1 /\ under[Len(front) + 1] = Under
            /\ \A k \in 1 .. Len(front) : under[k] = front[k]
        BY <2>0, <2>8, <2>10, Appended
      <3>2. Len(front) + 1 = p
        BY <2>8
      <3> QED
        BY <2>8, <3>1, <3>2
    <2>12. e = under \o back
      BY <2>6, <2>7, <2>10
    <2>13. /\ e \in Seq(Char) /\ Len(e) = p + (Len(d) + 1 - next)
           /\ \A k \in 1 .. p : e[k] = under[k]
      <3>1. /\ e \in Seq(Char) /\ Len(e) = Len(under) + Len(back)
            /\ \A k \in 1 .. Len(under) : e[k] = under[k]
        BY <2>9, <2>11, <2>12, Joined
      <3> QED
        BY <2>9, <2>11, <3>1
    <2>14. p \in 1 .. p /\ \A k \in 1 .. p - 1 : k \in 1 .. p
      OBVIOUS
    <2>15. Len(d) \in Nat /\ p + (Len(d) + 1 - next) <= Len(d) /\ p <= p + (Len(d) + 1 - next)
      BY <2>4, <2>5
    <2> QED
      BY <2>11, <2>13, <2>14, <2>15
  <1> QED
    BY <1>1, <1>2

LEMMA Flagged ==
    ASSUME NEW e, NEW c, NEW s, s = [data |-> e, check |-> c \in Separators]
    PROVE  s.data = e /\ (s.check <=> c \in Separators) /\ s.check \in BOOLEAN
  <1>1. (c \in Separators) \in BOOLEAN
    BY SMT
  <1>2. s.data = e /\ s.check = (c \in Separators)
    BY Zenon
  <1> QED
    BY <1>1, <1>2, Zenon

\* One round: Under is written, or the character is one that may stay.
LEMMA OneRound ==
    ASSUME NEW d \in Seq(Char), NEW check \in BOOLEAN, NEW p \in 1 .. Len(d),
           NEW s, s = SanitizeChar([data |-> d, check |-> check], p)
    PROVE  /\ s = [data |-> s.data, check |-> s.check] /\ s.check \in BOOLEAN
           /\ s.data \in Seq(Char) /\ Len(s.data) <= Len(d) /\ p <= Len(s.data)
           /\ \A k \in 1 .. p - 1 : s.data[k] = d[k]
           /\ \/ s.data[p] = Under /\ ~s.check
              \/ /\ s.data = d /\ d[p] \notin Illegal /\ (p = 1 => d[p] \notin Separators)
                 /\ (s.check <=> d[p] \in Separators)
                 /\ check => \A x \in SpecialFiles : ~IsSpecial(d, p, x)
  <1>1. PICK e : e = IF check THEN SanitizeSpecialFile(d, p) ELSE d
    OBVIOUS
  <1>2. /\ e \in Seq(Char) /\ Len(e) <= Len(d) /\ p <= Len(e)
        /\ \A k \in 1 .. p - 1 : e[k] = d[k]
        /\ \/ e[p] = Under
           \/ e = d /\ (check => \A x \in SpecialFiles : ~IsSpecial(d, p, x))
    <2>1. CASE check
      BY <1>1, <2>1, SpecialFileGone
    <2>2. CASE ~check
      BY <1>1, <2>2
    <2> QED
      BY <2>1, <2>2
  <1>3. s = IF e[p] \in Illegal \/ (e[p] \in Separators /\ p = 1)
            THEN [data |-> [e EXCEPT ![p] = Under], check |-> FALSE]
            ELSE [data |-> e, check |-> e[p] \in Separators]
    <2>1. ~(p > Len(d))
      OBVIOUS
    <2>2. s = LET clean == IF check THEN SanitizeSpecialFile(d, p) ELSE d
                  slash == clean[p] \in Separators
              IN IF clean[p] \in Illegal \/ (slash /\ p = 1)
                 THEN [data |-> [clean EXCEPT ![p] = Under], check |-> FALSE]
                 ELSE [data |-> clean, check |-> slash]
      BY <2>1 DEF SanitizeChar, Under
    <2> QED
      BY <1>1, <2>2
  <1>4. CASE e[p] \in Illegal \/ (e[p] \in Separators /\ p = 1)
    <2>1. PICK t : t = [e EXCEPT ![p] = Under]
      OBVIOUS
    <2>2. s = [data |-> t, check |-> FALSE]
      BY <1>3, <1>4, <2>1
    <2>3. /\ t \in Seq(Char) /\ Len(t) = Len(e) /\ t[p] = Under
          /\ \A k \in 1 .. p - 1 : t[k] = e[k]
      <3>1. p \in 1 .. Len(e) /\ Under \in Char
        BY <1>2, Underscore
      <3> QED
        BY <1>2, <2>1, <3>1, Replaced
    <2>4. s.data = t /\ s.check = FALSE
      BY <2>2
    <2> QED
      BY <1>2, <2>2, <2>3, <2>4
  <1>5. CASE ~(e[p] \in Illegal \/ (e[p] \in Separators /\ p = 1))
    <2>1. s = [data |-> e, check |-> e[p] \in Separators]
      BY <1>3, <1>5
    <2>0. s.data = e /\ (s.check <=> e[p] \in Separators) /\ s.check \in BOOLEAN
      BY <2>1, Flagged
    <2>2. CASE e[p] = Under
      <3>1. ~s.check
        BY <2>0, <2>2, Underscore
      <3> QED
        BY <1>2, <2>0, <2>1, <2>2, <3>1
    <2>3. CASE e[p] # Under
      BY <1>2, <1>5, <2>0, <2>1, <2>3
    <2> QED
      BY <2>2, <2>3
  <1> QED
    BY <1>4, <1>5

\* What is known of the first p characters.
CleanUpTo(d, p) ==
    \A i \in 1 .. p : i <= Len(d) =>
        /\ d[i] \notin Illegal
        /\ i = 1 => d[i] \notin Separators
        /\ i = 1 \/ d[i - 1] \in Separators => \A x \in SpecialFiles : ~IsSpecial(d, i, x)

LEMMA StaysClean ==
    ASSUME NEW d \in Seq(Char), NEW e \in Seq(Char), NEW p \in 1 .. Len(e), Len(e) <= Len(d),
           e[p] = Under, \A k \in 1 .. p - 1 : e[k] = d[k], CleanUpTo(d, p - 1)
    PROVE  CleanUpTo(e, p)
  <1> SUFFICES ASSUME NEW i \in 1 .. p
               PROVE  /\ e[i] \notin Illegal
                      /\ i = 1 => e[i] \notin Separators
                      /\ i = 1 \/ e[i - 1] \in Separators =>
                            \A x \in SpecialFiles : ~IsSpecial(e, i, x)
    BY DEF CleanUpTo
  <1>1. CASE i = p
    BY <1>1, Underscore, NoNameHere
  <1>2. CASE i # p
    <2>1. i \in 1 .. p - 1 /\ i <= Len(d) /\ (i # 1 => i - 1 \in 1 .. p - 1)
      BY <1>2
    <2>2. e[i] = d[i] /\ (i # 1 => e[i - 1] = d[i - 1])
      BY <2>1
    <2>3. /\ d[i] \notin Illegal
          /\ i = 1 => d[i] \notin Separators
          /\ i = 1 \/ d[i - 1] \in Separators => \A x \in SpecialFiles : ~IsSpecial(d, i, x)
      BY <2>1 DEF CleanUpTo
    <2>4. ASSUME NEW x \in SpecialFiles, IsSpecial(e, i, x) PROVE IsSpecial(d, i, x)
      BY <2>1, <2>4, NameWasThere
    <2> QED
      BY <2>2, <2>3, <2>4
  <1> QED
    BY <1>1, <1>2

\* The loop after p rounds on a name of n characters.
Cleaned(s, p, n) ==
    /\ s = [data |-> s.data, check |-> s.check] /\ s.check \in BOOLEAN
    /\ s.data \in Seq(Char) /\ Len(s.data) <= n
    /\ p <= Len(s.data) => (s.check <=> p = 0 \/ s.data[p] \in Separators)
    /\ CleanUpTo(s.data, p)

LEMMA RoundCleans ==
    ASSUME NEW n \in Nat, NEW p \in 1 .. n, NEW s, Cleaned(s, p - 1, n),
           NEW t, t = SanitizeChar(s, p)
    PROVE  Cleaned(t, p, n)
  <1>1. PICK d, check : s = [data |-> d, check |-> check] /\ d = s.data /\ check = s.check
    BY DEF Cleaned
  <1>2. /\ d \in Seq(Char) /\ Len(d) <= n /\ check \in BOOLEAN
        /\ p - 1 <= Len(d) => (check <=> p - 1 = 0 \/ d[p - 1] \in Separators)
        /\ CleanUpTo(d, p - 1) /\ Len(d) \in Nat
    BY <1>1 DEF Cleaned
  <1>3. CASE p > Len(d)
    <2>1. t = s
      BY <1>1, <1>3 DEF SanitizeChar
    <2>2. CleanUpTo(d, p)
      <3>1. \A i \in 1 .. p : i <= Len(d) => i \in 1 .. p - 1
        BY <1>2, <1>3
      <3> QED
        BY <1>2, <3>1 DEF CleanUpTo
    <2>3. ~(p <= Len(d))
      BY <1>2, <1>3
    <2> QED
      BY <1>1, <1>2, <2>1, <2>2, <2>3 DEF Cleaned
  <1>4. CASE p <= Len(d)
    <2>1. p \in 1 .. Len(d) /\ p - 1 <= Len(d)
      BY <1>2, <1>4
    <2>2. /\ t = [data |-> t.data, check |-> t.check] /\ t.check \in BOOLEAN
          /\ t.data \in Seq(Char) /\ Len(t.data) <= Len(d) /\ p <= Len(t.data)
          /\ \A k \in 1 .. p - 1 : t.data[k] = d[k]
          /\ \/ t.data[p] = Under /\ ~t.check
             \/ /\ t.data = d /\ d[p] \notin Illegal /\ (p = 1 => d[p] \notin Separators)
                /\ (t.check <=> d[p] \in Separators)
                /\ check => \A x \in SpecialFiles : ~IsSpecial(d, p, x)
      BY <1>1, <1>2, <2>1, OneRound
    <2>3. PICK e : e = t.data
      OBVIOUS
    <2>4. e \in Seq(Char) /\ Len(e) \in Nat /\ Len(e) <= Len(d) /\ p \in 1 .. Len(e) /\ Len(e) <= n
      BY <1>2, <2>1, <2>2, <2>3
    <2>5. CASE e[p] = Under /\ ~t.check
      <3>1. CleanUpTo(e, p)
        BY <1>2, <2>2, <2>3, <2>4, <2>5, StaysClean
      <3>2. p # 0 /\ (t.check <=> p = 0 \/ e[p] \in Separators)
        BY <2>4, <2>5, Underscore
      <3> QED
        BY <2>2, <2>3, <2>4, <3>1, <3>2 DEF Cleaned
    <2>6. CASE /\ e = d /\ d[p] \notin Illegal /\ (p = 1 => d[p] \notin Separators)
               /\ (t.check <=> d[p] \in Separators)
               /\ check => \A x \in SpecialFiles : ~IsSpecial(d, p, x)
      <3>1. (check <=> p - 1 = 0 \/ d[p - 1] \in Separators)
        BY <1>2, <2>1
      <3>2. p = 1 \/ d[p - 1] \in Separators => \A x \in SpecialFiles : ~IsSpecial(d, p, x)
        BY <2>6, <3>1
      <3>3. CleanUpTo(d, p)
        <4>1. \A i \in 1 .. p : i = p \/ i \in 1 .. p - 1
          OBVIOUS
        <4> QED
          BY <1>2, <2>6, <3>2, <4>1 DEF CleanUpTo
      <3>4. (t.check <=> p = 0 \/ d[p] \in Separators)
        BY <2>6
      <3> QED
        BY <1>2, <2>2, <2>3, <2>6, <3>3, <3>4 DEF Cleaned
    <2> QED
      BY <2>2, <2>3, <2>5, <2>6
  <1> QED
    BY <1>2, <1>3, <1>4

\* A name that a round leaves as it is.
Clean(d) == d \in Seq(Char) /\ CleanUpTo(d, Len(d))

LEMMA SanitizeCleans ==
    ASSUME NEW data \in Seq(Char)
    PROVE  Clean(Sanitize(data)) /\ Len(Sanitize(data)) <= Len(data)
  <1>1. PICK n, f : n = Len(data) /\ f = Sanitized(data)
    OBVIOUS
  <1>2. n \in Nat
    BY <1>1
  <1>3. /\ f[0] = [data |-> data, check |-> TRUE]
        /\ \A p \in 1 .. n : f[p] = SanitizeChar(f[p - 1], p)
    BY <1>1, <1>2, SanitizedSteps
  <1> DEFINE S == {p \in 0 .. n : Cleaned(f[p], p, n)}
  <1>4. 0 \in S
    <2>1. f[0].data = data /\ f[0].check = TRUE /\ f[0] = [data |-> f[0].data, check |-> f[0].check]
      BY <1>3
    <2>2. CleanUpTo(data, 0)
      BY DEF CleanUpTo
    <2>3. Cleaned(f[0], 0, n)
      <3>1. PICK s : s = f[0]
        OBVIOUS
      <3>2. /\ s = [data |-> s.data, check |-> s.check] /\ s.check \in BOOLEAN
            /\ s.data \in Seq(Char) /\ Len(s.data) <= n
        <4>1. s = [data |-> s.data, check |-> s.check] /\ s.check \in BOOLEAN /\ s.data = data
          BY <2>1, <3>1
        <4>2. Len(data) <= n
          BY <1>1, <1>2
        <4> QED
          BY <4>1, <4>2
      <3>3. 0 <= Len(s.data) => (s.check <=> 0 = 0 \/ s.data[0] \in Separators)
        BY <2>1, <3>1
      <3>4. CleanUpTo(s.data, 0)
        BY <2>1, <2>2, <3>1
      <3>5. Cleaned(s, 0, n)
        BY <3>2, <3>3, <3>4 DEF Cleaned
      <3> QED
        BY <3>1, <3>5
    <2> QED
      BY <1>2, <2>3
  <1>5. ASSUME NEW i \in 0 .. n - 1, i \in S PROVE i + 1 \in S
    <2>1. PICK p : p = i + 1
      OBVIOUS
    <2>2. p \in 1 .. n /\ p \in 0 .. n /\ p - 1 = i
      BY <1>2, <2>1
    <2>3. Cleaned(f[p - 1], p - 1, n)
      BY <1>5, <2>2
    <2>4. Cleaned(f[p], p, n)
      BY <1>2, <1>3, <2>2, <2>3, RoundCleans
    <2> QED
      BY <2>1, <2>2, <2>4
  <1>6. Cleaned(f[n], n, n)
    <2> HIDE DEF S
    <2>1. 0 .. n \subseteq S
      BY <1>2, <1>4, <1>5, Induction
    <2>2. n \in S
      BY <1>2, <2>1
    <2> QED
      BY <2>2 DEF S
  <1>7. PICK d : d = Sanitize(data) /\ d = f[n].data
    BY <1>1 DEF Sanitize
  <1>8. d \in Seq(Char) /\ Len(d) <= n /\ CleanUpTo(d, n)
    BY <1>6, <1>7 DEF Cleaned
  <1>9. CleanUpTo(d, Len(d))
    <2>1. \A i \in 1 .. Len(d) : i \in 1 .. n
      BY <1>2, <1>8
    <2> QED
      BY <1>8, <2>1 DEF CleanUpTo
  <1> QED
    BY <1>1, <1>7, <1>8, <1>9 DEF Clean

LEMMA CutLength ==
    ASSUME NEW data \in Seq(Char)
    PROVE  /\ Cut(data) \in Seq(Char) /\ Len(Cut(data)) <= MaxPath
           /\ Len(data) <= MaxPath => Cut(data) = data
  <1>1. MaxPath \in Nat /\ Len(data) \in Nat
    <2>1. Len(data) \in Nat
      BY LenProperties
    <2> QED
      BY <2>1, NameAssumption
  <1>2. CASE Len(data) < MaxPath
    <2>1. Cut(data) = SubSeq(data, 1, Len(data))
      BY <1>2 DEF Cut
    <2>2. Cut(data) = data
      BY <2>1
    <2> QED
      BY <1>1, <1>2, <2>2
  <1>3. CASE ~(Len(data) < MaxPath)
    <2>1. Cut(data) = SubSeq(data, 1, MaxPath)
      BY <1>3 DEF Cut
    <2>2. MaxPath <= Len(data)
      BY <1>1, <1>3
    <2>3. Cut(data) \in Seq(Char) /\ Len(Cut(data)) = MaxPath
      BY <1>1, <2>1, <2>2
    <2>4. Len(data) <= MaxPath => SubSeq(data, 1, MaxPath) = data
      <3>1. ASSUME Len(data) <= MaxPath PROVE SubSeq(data, 1, MaxPath) = data
        <4>1. MaxPath = Len(data)
          BY <1>1, <2>2, <3>1
        <4> QED
          BY <4>1
      <3> QED
        BY <3>1
    <2> QED
      BY <1>1, <2>1, <2>3, <2>4
  <1> QED
    BY <1>2, <1>3

\* A round on a clean name.
LEMMA RoundKeeps ==
    ASSUME NEW d, Clean(d), NEW p \in 1 .. Len(d), NEW s,
           s = [data |-> d, check |-> p = 1 \/ d[p - 1] \in Separators]
    PROVE  SanitizeChar(s, p) = [data |-> d, check |-> d[p] \in Separators]
  <1>1. /\ d[p] \notin Illegal
        /\ p = 1 => d[p] \notin Separators
        /\ p = 1 \/ d[p - 1] \in Separators => \A x \in SpecialFiles : ~IsSpecial(d, p, x)
    BY DEF Clean, CleanUpTo
  <1>2. s.data = d /\ (s.check <=> p = 1 \/ d[p - 1] \in Separators)
    OBVIOUS
  <1>3. s.check => SanitizeSpecialFile(d, p) = d
    <2>1. s.check => \A x \in SpecialFiles : ~IsSpecial(d, p, x)
      BY <1>1, <1>2
    <2>2. s.check => {special \in SpecialFiles : IsSpecial(d, p, special)} = {}
      BY <2>1
    <2> QED
      BY <2>2 DEF SanitizeSpecialFile
  <1>4. ~(p > Len(d))
    BY DEF Clean
  <1>5. SanitizeChar(s, p) =
            LET clean == IF s.check THEN SanitizeSpecialFile(d, p) ELSE d
                slash == clean[p] \in Separators
            IN IF clean[p] \in Illegal \/ (slash /\ p = 1)
               THEN [data |-> [clean EXCEPT ![p] = "_"], check |-> FALSE]
               ELSE [data |-> clean, check |-> slash]
    BY <1>2, <1>4 DEF SanitizeChar
  <1>6. (IF s.check THEN SanitizeSpecialFile(d, p) ELSE d) = d
    BY <1>3
  <1> QED
    BY <1>1, <1>5, <1>6

\* The loop on a clean name writes nothing.
LEMMA SanitizeKeeps ==
    ASSUME NEW d, Clean(d) PROVE Sanitize(d) = d
  <1>1. PICK n, f : n = Len(d) /\ f = Sanitized(d)
    OBVIOUS
  <1>2. n \in Nat
    BY <1>1 DEF Clean
  <1>3. /\ f[0] = [data |-> d, check |-> TRUE]
        /\ \A p \in 1 .. n : f[p] = SanitizeChar(f[p - 1], p)
    BY <1>1, <1>2, SanitizedSteps
  <1> DEFINE S == {p \in 0 .. n : f[p] = [data |-> d, check |-> p = 0 \/ d[p] \in Separators]}
  <1>4. 0 \in S
    <2>1. TRUE = (0 = 0 \/ d[0] \in Separators)
      OBVIOUS
    <2>2. f[0] = [data |-> d, check |-> 0 = 0 \/ d[0] \in Separators]
      BY <1>3, <2>1, Zenon
    <2>3. 0 \in 0 .. n
      BY <1>2
    <2> QED
      BY <2>2, <2>3
  <1>5. ASSUME NEW i \in 0 .. n - 1, i \in S PROVE i + 1 \in S
    <2>1. PICK p : p = i + 1
      OBVIOUS
    <2>2. p \in 1 .. n /\ p \in 0 .. n /\ p - 1 = i /\ p # 0 /\ (i = 0 <=> p = 1)
      BY <1>2, <2>1
    <2>3. f[p - 1] = [data |-> d, check |-> i = 0 \/ d[i] \in Separators]
      BY <1>5, <2>2
    <2>4. f[p - 1] = [data |-> d, check |-> p = 1 \/ d[p - 1] \in Separators]
      BY <2>2, <2>3
    <2>5. f[p] = [data |-> d, check |-> d[p] \in Separators]
      BY <1>1, <1>3, <2>2, <2>4, RoundKeeps
    <2>6. f[p] = [data |-> d, check |-> p = 0 \/ d[p] \in Separators]
      BY <2>2, <2>5
    <2> QED
      BY <2>1, <2>2, <2>6
  <1>6. f[n] = [data |-> d, check |-> n = 0 \/ d[n] \in Separators]
    <2> HIDE DEF S
    <2>1. 0 .. n \subseteq S
      BY <1>2, <1>4, <1>5, Induction
    <2>2. n \in S
      BY <1>2, <2>1
    <2> QED
      BY <2>2 DEF S
  <1> QED
    BY <1>1, <1>6 DEF Sanitize

\* A clean name has no part "..".
LEMMA NoParent ==
    ASSUME NEW d, Clean(d), NEW i \in 1 .. Len(d) - 1, d[i] = ".", d[i + 1] = ".",
           i = 1 \/ d[i - 1] \in Separators
    PROVE  i + 2 <= Len(d) /\ d[i + 2] \notin Separators
  <1>1. PICK x : x = [name |-> <<".", ".">>, number |-> FALSE]
    OBVIOUS
  <1>2. x \in SpecialFiles
    BY <1>1 DEF SpecialFiles
  <1>3. Len(d) \in Nat /\ i \in 1 .. Len(d) /\ i \in Nat
    BY DEF Clean
  <1>4. ~IsSpecial(d, i, x)
    BY <1>2, <1>3 DEF Clean, CleanUpTo
  <1>5. x.name = <<".", ".">> /\ x.number = FALSE /\ Len(x.name) = 2
    BY <1>1
  <1>6. After(i, x) = i + 2
    BY <1>3, <1>5 DEF After
  <1>7. Lower(".") = "."
    BY DEF Lower, UpperSet
  <1>8. \A k \in 1 .. 2 : Lower(d[i + k - 1]) = x.name[k]
    <2>1. Lower(d[i + 1 - 1]) = x.name[1]
      <3>1. i + 1 - 1 = i
        BY <1>3
      <3> QED
        BY <1>5, <1>7, <3>1
    <2>2. Lower(d[i + 2 - 1]) = x.name[2]
      <3>1. i + 2 - 1 = i + 1
        BY <1>3
      <3> QED
        BY <1>5, <1>7, <3>1
    <2>3. 1 .. 2 = {1, 2}
      OBVIOUS
    <2> QED
      BY <2>1, <2>2, <2>3
  <1>9. i + 2 <= Len(d) + 1
    BY <1>3
  <1>10. ~(i + 2 > Len(d) \/ d[i + 2] \in Ends)
    BY <1>4, <1>5, <1>6, <1>8, <1>9 DEF IsSpecial
  <1> QED
    BY <1>3, <1>10 DEF Ends

LEMMA PathStaysInside ==
    ASSUME NEW path \in Seq(STRING), NEW clean, clean = SanitizeFilename(path)
    PROVE  /\ Clean(clean) /\ Len(clean) <= MaxPath
           /\ SanitizeFilename(clean) = clean
  <1>1. path \in Seq(Char)
    <2>1. STRING \subseteq Char
      BY DEF Char
    <2> QED
      BY <2>1, SeqMonotonic
  <1>2. PICK cut : cut = Cut(path)
    OBVIOUS
  <1>3. cut \in Seq(Char) /\ Len(cut) <= MaxPath
    BY <1>1, <1>2, CutLength
  <1>4. clean = Sanitize(cut)
    BY <1>2 DEF SanitizeFilename
  <1>5. Clean(clean) /\ Len(clean) <= Len(cut)
    BY <1>3, <1>4, SanitizeCleans
  <1>6. clean \in Seq(Char) /\ Len(clean) <= MaxPath
    <2>1. clean \in Seq(Char) /\ Len(clean) \in Nat /\ Len(cut) \in Nat /\ MaxPath \in Nat
      <3>1. clean \in Seq(Char)
        BY <1>5 DEF Clean
      <3>2. Len(clean) \in Nat /\ Len(cut) \in Nat
        BY <1>3, <3>1, LenProperties
      <3> QED
        BY <3>1, <3>2, NameAssumption
    <2> QED
      BY <1>3, <1>5, <2>1
  <1>7. Cut(clean) = clean
    BY <1>6, CutLength
  <1>8. SanitizeFilename(clean) = clean
    BY <1>5, <1>7, SanitizeKeeps DEF SanitizeFilename
  <1> QED
    BY <1>5, <1>6, <1>8

----------------------------------------------------------------------------
(* Difficulty.                                                             *)

\* The first r bits of a byte, as a number, and the bit after them.
Top(b, r) == b \div 2 ^ (8 - r)
BitOf(b, k) == (b \div 2 ^ (7 - k)) % 2

LEMMA Powers ==
    /\ 2 ^ 0 = 1 /\ 2 ^ 1 = 2 /\ 2 ^ 2 = 4 /\ 2 ^ 3 = 8 /\ 2 ^ 4 = 16
    /\ 2 ^ 5 = 32 /\ 2 ^ 6 = 64 /\ 2 ^ 7 = 128 /\ 2 ^ 8 = 256
  BY SMT

Weights == {1, 2, 4, 8, 16, 32, 64, 128}

\* One bit more, when a number is divided by d and not by 2 * d.
LEMMA Halving ==
    ASSUME NEW b \in Nat, NEW d \in Weights, NEW x, x = b \div d
    PROVE  \E z \in {0, 1}, y \in Nat : z = x % 2 /\ y = b \div (2 * d) /\ x = 2 * y + z
  <1>1. 2 * d \in {2, 4, 8, 16, 32, 64, 128, 256}
    BY DEF Weights
  <1>2. PICK y, s : IsSplit(b, 2 * d, y, s)
    BY <1>1, Division
  <1>3. /\ y \in Nat /\ s \in Nat /\ s < 2 * d /\ b = (2 * d) * y + s /\ y = b \div (2 * d)
    BY <1>2 DEF IsSplit
  <1>4. x = IF s < d THEN 2 * y ELSE 2 * y + 1
    BY <1>3, SMT DEF Weights
  <1>5. PICK z : z = x % 2
    OBVIOUS
  <1>6. z \in {0, 1} /\ x = 2 * y + z
    BY <1>3, <1>4, <1>5, SMT
  <1> QED
    BY <1>3, <1>5, <1>6

LEMMA OneMoreBit ==
    ASSUME NEW b \in Byte, NEW k \in {0, 1, 2, 3, 4, 5, 6, 7}
    PROVE  /\ Top(b, k) \in Nat /\ Top(b, k + 1) \in Nat
           /\ Top(b, k + 1) = 0 <=> Top(b, k) = 0 /\ BitOf(b, k) = 0
  <1>1. b \in Nat
    BY ByteBounds
  <1>2. PICK d : d = 2 ^ (7 - k)
    OBVIOUS
  <1>3. d \in Weights /\ 2 ^ (8 - k) = 2 * d /\ 2 ^ (8 - (k + 1)) = d
    <2>1. /\ 7 - 0 = 7 /\ 7 - 1 = 6 /\ 7 - 2 = 5 /\ 7 - 3 = 4 /\ 7 - 4 = 3 /\ 7 - 5 = 2 /\ 7 - 6 = 1
          /\ 7 - 7 = 0 /\ 8 - 0 = 8 /\ 8 - 1 = 7 /\ 8 - 2 = 6 /\ 8 - 3 = 5 /\ 8 - 4 = 4 /\ 8 - 5 = 3
          /\ 8 - 6 = 2 /\ 8 - 7 = 1
      BY SMT
    <2>2. 8 - (k + 1) = 7 - k
      BY SMT
    <2>3. CASE k = 0
      BY <1>2, <2>1, <2>2, <2>3, Powers DEF Weights
    <2>4. CASE k = 1
      BY <1>2, <2>1, <2>2, <2>4, Powers DEF Weights
    <2>5. CASE k = 2
      BY <1>2, <2>1, <2>2, <2>5, Powers DEF Weights
    <2>6. CASE k = 3
      BY <1>2, <2>1, <2>2, <2>6, Powers DEF Weights
    <2>7. CASE k = 4
      BY <1>2, <2>1, <2>2, <2>7, Powers DEF Weights
    <2>8. CASE k = 5
      BY <1>2, <2>1, <2>2, <2>8, Powers DEF Weights
    <2>9. CASE k = 6
      BY <1>2, <2>1, <2>2, <2>9, Powers DEF Weights
    <2>10. CASE k = 7
      BY <1>2, <2>1, <2>2, <2>10, Powers DEF Weights
    <2> QED
      BY <2>3, <2>4, <2>5, <2>6, <2>7, <2>8, <2>9, <2>10
  <1>4. PICK x : x = b \div d
    OBVIOUS
  <1>5. PICK z \in {0, 1}, y \in Nat : z = x % 2 /\ y = b \div (2 * d) /\ x = 2 * y + z
    <2>1. d \in Weights
      BY <1>3
    <2> QED
      BY <1>1, <1>4, <2>1, Halving
  <1>7. x \in Nat /\ (x = 0 <=> y = 0 /\ z = 0)
    BY <1>5
  <1>8. Top(b, k + 1) = x /\ Top(b, k) = y /\ BitOf(b, k) = z
    BY <1>2, <1>3, <1>4, <1>5 DEF Top, BitOf
  <1> QED
    BY <1>5, <1>7, <1>8

LEMMA TopBits ==
    ASSUME NEW b \in Byte, NEW r \in 0 .. 8
    PROVE  Top(b, r) = 0 <=> \A k \in 0 .. r - 1 : BitOf(b, k) = 0
  <1>1. b \in Nat /\ b < 256
    BY ByteBounds
  <1>2. Top(b, 0) = 0
    <2>1. b \div 256 = 0
      BY <1>1
    <2> QED
      BY <2>1, Powers DEF Top
  <1>3. /\ Top(b, 1) = 0 <=> Top(b, 0) = 0 /\ BitOf(b, 0) = 0
        /\ Top(b, 2) = 0 <=> Top(b, 1) = 0 /\ BitOf(b, 1) = 0
        /\ Top(b, 3) = 0 <=> Top(b, 2) = 0 /\ BitOf(b, 2) = 0
        /\ Top(b, 4) = 0 <=> Top(b, 3) = 0 /\ BitOf(b, 3) = 0
        /\ Top(b, 5) = 0 <=> Top(b, 4) = 0 /\ BitOf(b, 4) = 0
        /\ Top(b, 6) = 0 <=> Top(b, 5) = 0 /\ BitOf(b, 5) = 0
        /\ Top(b, 7) = 0 <=> Top(b, 6) = 0 /\ BitOf(b, 6) = 0
        /\ Top(b, 8) = 0 <=> Top(b, 7) = 0 /\ BitOf(b, 7) = 0
    <2>1. \A k \in {0, 1, 2, 3, 4, 5, 6, 7} :
             Top(b, k + 1) = 0 <=> Top(b, k) = 0 /\ BitOf(b, k) = 0
      BY OneMoreBit
    <2>2. 0 + 1 = 1 /\ 1 + 1 = 2 /\ 2 + 1 = 3 /\ 3 + 1 = 4 /\ 4 + 1 = 5 /\ 5 + 1 = 6 /\ 6 + 1 = 7 /\ 7 + 1 = 8
      OBVIOUS
    <2> QED
      BY <2>1, <2>2
  <1>4. \A k \in 0 .. r - 1 : k \in {0, 1, 2, 3, 4, 5, 6, 7} /\ k < r
    OBVIOUS
  <1>5. r \in {0, 1, 2, 3, 4, 5, 6, 7, 8}
    OBVIOUS
  <1>6. ASSUME Top(b, r) = 0, NEW k \in 0 .. r - 1 PROVE BitOf(b, k) = 0
    BY <1>2, <1>3, <1>4, <1>5, <1>6
  <1>7. ASSUME \A k \in 0 .. r - 1 : BitOf(b, k) = 0 PROVE Top(b, r) = 0
    <2>1. \A k \in {0, 1, 2, 3, 4, 5, 6, 7} : k < r => BitOf(b, k) = 0
      <3>1. \A k \in {0, 1, 2, 3, 4, 5, 6, 7} : k < r => k \in 0 .. r - 1
        OBVIOUS
      <3> QED
        BY <1>7, <3>1
    <2> QED
      BY <1>2, <1>3, <1>5, <2>1
  <1> QED
    BY <1>6, <1>7

\* The bit at place i of a digest, counted from 1.
BitAt(digest, i) == BitOf(digest[(i - 1) \div 8 + 1], (i - 1) % 8)

LEMMA DifficultyIsBits ==
    ASSUME NEW digest \in Seq(Byte), NEW bits \in 0 .. 8 * Len(digest)
    PROVE  MeetsDifficulty(digest, bits) <=> \A i \in 1 .. bits : BitAt(digest, i) = 0
  <1>1. PICK n, r : n = bits \div 8 /\ r = bits % 8
    OBVIOUS
  <1>2. /\ Len(digest) \in Nat /\ bits \in Nat /\ n \in Nat /\ r \in Nat /\ r < 8
        /\ bits = 8 * n + r /\ n <= Len(digest) /\ (r > 0 => n < Len(digest))
    <2>1. Len(digest) \in Nat
      OBVIOUS
    <2>2. bits \in Nat /\ bits <= 8 * Len(digest)
      BY <2>1
    <2>3. PICK q, s : IsSplit(bits, 8, q, s)
      BY <2>2, Division
    <2>4. q = n /\ s = r
      BY <1>1, <2>3 DEF IsSplit
    <2>5. n \in Nat /\ r \in Nat /\ r < 8 /\ bits = 8 * n + r
      BY <2>3, <2>4 DEF IsSplit
    <2> QED
      BY <2>1, <2>2, <2>5
  <1>3. \A j \in 1 .. Len(digest) : digest[j] \in Byte
    OBVIOUS
  <1>4. \A b \in Byte : b = 0 <=> \A k \in 0 .. 7 : BitOf(b, k) = 0
    <2>1. ASSUME NEW b \in Byte PROVE b = 0 <=> \A k \in 0 .. 7 : BitOf(b, k) = 0
      <3>1. Top(b, 8) = b
        <4>1. 8 - 8 = 0 /\ b \in Nat
          BY ByteBounds
        <4>2. b \div 1 = b
          BY <4>1
        <4> QED
          BY <4>1, <4>2, Powers DEF Top
      <3>2. 8 \in 0 .. 8 /\ 8 - 1 = 7
        OBVIOUS
      <3>3. Top(b, 8) = 0 <=> \A k \in 0 .. 8 - 1 : BitOf(b, k) = 0
        BY <3>2, TopBits
      <3> QED
        BY <3>1, <3>2, <3>3
    <2> QED
      BY <2>1
  <1>5. r > 0 => (digest[n + 1] \div 2 ^ (8 - r) = 0 <=> \A k \in 0 .. r - 1 : BitOf(digest[n + 1], k) = 0)
    <2>1. ASSUME r > 0
          PROVE  digest[n + 1] \div 2 ^ (8 - r) = 0 <=> \A k \in 0 .. r - 1 : BitOf(digest[n + 1], k) = 0
      <3>1. digest[n + 1] \in Byte /\ r \in 0 .. 8
        BY <1>2, <1>3, <2>1
      <3>2. Top(digest[n + 1], r) = 0 <=> \A k \in 0 .. r - 1 : BitOf(digest[n + 1], k) = 0
        BY <3>1, TopBits
      <3> QED
        BY <3>2 DEF Top
    <2> QED
      BY <2>1
  <1>6. MeetsDifficulty(digest, bits) <=>
            /\ \A j \in 1 .. n : \A k \in 0 .. 7 : BitOf(digest[j], k) = 0
            /\ r > 0 => \A k \in 0 .. r - 1 : BitOf(digest[n + 1], k) = 0
    <2>1. MeetsDifficulty(digest, bits) <=>
              /\ \A j \in 1 .. n : digest[j] = 0
              /\ r > 0 => digest[n + 1] \div 2 ^ (8 - r) = 0
      BY <1>1 DEF MeetsDifficulty
    <2>2. ASSUME NEW j \in 1 .. n PROVE digest[j] = 0 <=> \A k \in 0 .. 7 : BitOf(digest[j], k) = 0
      <3>1. digest[j] \in Byte
        BY <1>2, <1>3
      <3> QED
        BY <1>4, <3>1
    <2> QED
      BY <1>5, <2>1, <2>2
  <1>7. ASSUME NEW j \in Nat, j > 0, NEW k \in 0 .. 7
        PROVE  /\ 8 * (j - 1) + k + 1 \in Nat \ {0}
               /\ BitAt(digest, 8 * (j - 1) + k + 1) = BitOf(digest[j], k)
    <2>1. PICK i : i = 8 * (j - 1) + k + 1
      OBVIOUS
    <2>2. i \in Nat \ {0} /\ (i - 1) \div 8 + 1 = j /\ (i - 1) % 8 = k
      BY <1>7, <2>1
    <2> QED
      BY <2>1, <2>2 DEF BitAt
  <1>8. ASSUME NEW i \in 1 .. bits
        PROVE  \E j \in Nat, k \in 0 .. 7 : /\ j > 0 /\ i = 8 * (j - 1) + k + 1
                                            /\ BitAt(digest, i) = BitOf(digest[j], k)
                                            /\ j <= n \/ (j = n + 1 /\ r > 0 /\ k \in 0 .. r - 1)
    <2>1. PICK q, k : IsSplit(i - 1, 8, q, k)
      <3>1. i - 1 \in Nat
        BY <1>2
      <3> QED
        BY <3>1, Division
    <2>2. /\ q \in Nat /\ k \in 0 .. 7 /\ i = 8 * q + k + 1 /\ q = (i - 1) \div 8 /\ k = (i - 1) % 8
          /\ i \in Nat /\ i <= bits
      BY <1>2, <2>1 DEF IsSplit
    <2>3. BitAt(digest, i) = BitOf(digest[q + 1], k)
      BY <2>2 DEF BitAt
    <2>4. q + 1 <= n \/ (q + 1 = n + 1 /\ r > 0 /\ k \in 0 .. r - 1)
      BY <1>2, <2>2
    <2>5. q + 1 \in Nat /\ q + 1 > 0 /\ i = 8 * ((q + 1) - 1) + k + 1
      BY <2>2
    <2> QED
      BY <2>2, <2>3, <2>4, <2>5
  <1>9. ASSUME MeetsDifficulty(digest, bits), NEW i \in 1 .. bits PROVE BitAt(digest, i) = 0
    <2>1. PICK j \in Nat, k \in 0 .. 7 :
               /\ j > 0 /\ i = 8 * (j - 1) + k + 1
               /\ BitAt(digest, i) = BitOf(digest[j], k)
               /\ j <= n \/ (j = n + 1 /\ r > 0 /\ k \in 0 .. r - 1)
      BY <1>8
    <2>2. CASE j <= n
      <3>1. j \in 1 .. n
        BY <1>2, <2>1, <2>2
      <3> QED
        BY <1>6, <1>9, <2>1, <3>1
    <2>3. CASE j = n + 1 /\ r > 0 /\ k \in 0 .. r - 1
      BY <1>6, <1>9, <2>1, <2>3
    <2> QED
      BY <2>1, <2>2, <2>3
  <1>10. ASSUME \A i \in 1 .. bits : BitAt(digest, i) = 0 PROVE MeetsDifficulty(digest, bits)
    <2>1. ASSUME NEW j \in 1 .. n, NEW k \in 0 .. 7 PROVE BitOf(digest[j], k) = 0
      <3>1. j \in Nat /\ j > 0 /\ 8 * (j - 1) + k + 1 \in 1 .. bits
        BY <1>2
      <3> QED
        BY <1>7, <1>10, <3>1
    <2>2. ASSUME r > 0, NEW k \in 0 .. r - 1 PROVE BitOf(digest[n + 1], k) = 0
      <3>1. n + 1 \in Nat /\ n + 1 > 0 /\ k \in 0 .. 7 /\ 8 * ((n + 1) - 1) + k + 1 \in 1 .. bits
        BY <1>2
      <3> QED
        BY <1>7, <1>10, <3>1
    <2> QED
      BY <1>6, <2>1, <2>2
  <1> QED
    BY <1>9, <1>10

----------------------------------------------------------------------------
(* Digests.                                                                *)

\* A sequence, of whatever its elements are.
IsSeq(s) == \E S : s \in Seq(S)

LEMMA IsSeqLen ==
    ASSUME NEW s, IsSeq(s)
    PROVE  Len(s) \in Nat /\ s = [i \in 1 .. Len(s) |-> s[i]]
  <1>1. PICK S : s \in Seq(S)
    BY DEF IsSeq
  <1> QED
    BY <1>1, LenProperties

LEMMA IsSeqFunction ==
    ASSUME NEW n \in Nat, NEW s, s = [i \in 1 .. n |-> s[i]]
    PROVE  IsSeq(s) /\ Len(s) = n
  <1> DEFINE S == {s[i] : i \in 1 .. n}
  <1>1. \A i \in 1 .. n : s[i] \in S
    OBVIOUS
  <1> HIDE DEF S
  <1>2. s \in Seq(S) /\ Len(s) = n
    BY <1>1
  <1> QED
    BY <1>2 DEF IsSeq

LEMMA IsSeqSame ==
    ASSUME NEW s, NEW t, IsSeq(s), IsSeq(t), Len(s) = Len(t), \A i \in 1 .. Len(s) : s[i] = t[i]
    PROVE  s = t
  <1>1. s = [i \in 1 .. Len(s) |-> s[i]] /\ t = [i \in 1 .. Len(s) |-> t[i]]
    BY IsSeqLen
  <1> QED
    BY <1>1

\* u is s and then t.
IsJoin(u, s, t) ==
    /\ IsSeq(u) /\ Len(u) = Len(s) + Len(t)
    /\ \A i \in 1 .. Len(s) : u[i] = s[i]
    /\ \A i \in 1 .. Len(t) : u[Len(s) + i] = t[i]

LEMMA IsSeqConcat ==
    ASSUME NEW s, NEW t, IsSeq(s), IsSeq(t), NEW u, u = s \o t
    PROVE  IsJoin(u, s, t)
  <1>1. PICK S, T : s \in Seq(S) /\ t \in Seq(T)
    BY DEF IsSeq
  <1>2. PICK U : U = S \cup T
    OBVIOUS
  <1>3. s \in Seq(U) /\ t \in Seq(U)
    BY <1>1, <1>2, SeqMonotonic
  <1>4. u \in Seq(U) /\ Len(u) = Len(s) + Len(t)
    BY <1>3, ConcatProperties
  <1>5. \A i \in 1 .. Len(s) : u[i] = s[i]
    BY <1>3
  <1>6. \A i \in 1 .. Len(t) : u[Len(s) + i] = t[i]
    BY <1>3
  <1> QED
    BY <1>4, <1>5, <1>6 DEF IsSeq, IsJoin

\* u is s from place a to place b.
IsPart(u, s, a, b) ==
    IsSeq(u) /\ Len(u) = b - a + 1 /\ \A i \in 1 .. Len(u) : u[i] = s[a + i - 1]

LEMMA IsSeqPart ==
    ASSUME NEW s, IsSeq(s), NEW a \in Nat, NEW b \in Nat, 0 < a, a <= b + 1, b <= Len(s),
           NEW u, u = SubSeq(s, a, b)
    PROVE  IsPart(u, s, a, b)
  <1>1. PICK S : s \in Seq(S)
    BY DEF IsSeq
  <1>2. u \in Seq(S) /\ Len(u) = b - a + 1
    BY <1>1
  <1>3. \A i \in 1 .. Len(u) : u[i] = s[a + i - 1]
    BY <1>1, <1>2
  <1> QED
    BY <1>2, <1>3 DEF IsSeq, IsPart

\* The first q blocks of a message.
Blocks(m, q) == [b \in 1 .. q |-> SubSeq(m, 64 * b - 63, 64 * b)]

\* The block after them.
IsNext(m, q, data) ==
    /\ 64 * (q + 1) <= Len(m)
    /\ data = [i \in 1 .. 64 |-> data[i]] /\ \A i \in 1 .. 64 : data[i] = m[64 * q + i]

\* u is s and x.
IsLonger(u, s, x) ==
    /\ IsSeq(u) /\ Len(u) = Len(s) + 1 /\ u[Len(s) + 1] = x
    /\ \A i \in 1 .. Len(s) : u[i] = s[i]

LEMMA IsSeqAppend ==
    ASSUME NEW s, IsSeq(s), NEW x, NEW u, u = Append(s, x)
    PROVE  IsLonger(u, s, x)
  <1>1. PICK S : s \in Seq(S)
    BY DEF IsSeq
  <1>2. PICK T : T = S \cup {x}
    OBVIOUS
  <1>3. s \in Seq(T) /\ x \in T
    BY <1>1, <1>2, SeqMonotonic
  <1>4. u \in Seq(T) /\ Len(u) = Len(s) + 1 /\ u[Len(s) + 1] = x
    BY <1>3
  <1>5. \A i \in 1 .. Len(s) : u[i] = s[i]
    BY <1>3
  <1> QED
    BY <1>4, <1>5 DEF IsSeq, IsLonger

LEMMA NextBlock ==
    ASSUME NEW m, IsSeq(m), NEW q \in Nat, NEW data, IsNext(m, q, data)
    PROVE  Append(Blocks(m, q), data) = Blocks(m, q + 1)
  <1>1. IsSeq(data) /\ Len(data) = 64
    BY IsSeqFunction DEF IsNext
  <1>2. data = SubSeq(m, 64 * (q + 1) - 63, 64 * (q + 1))
    <2>1. PICK a, b, u : a = 64 * (q + 1) - 63 /\ b = 64 * (q + 1) /\ u = SubSeq(m, a, b)
      OBVIOUS
    <2>2. /\ a \in Nat /\ b \in Nat /\ 0 < a /\ a <= b + 1 /\ b <= Len(m)
          /\ b - a + 1 = 64
      <3>1. Len(m) \in Nat /\ 64 * (q + 1) <= Len(m)
        BY IsSeqLen DEF IsNext
      <3> QED
        BY <2>1, <3>1
    <2>0. \A i \in 1 .. 64 : a + i - 1 = 64 * q + i
      BY <2>1
    <2>3. IsSeq(u) /\ Len(u) = 64 /\ \A i \in 1 .. 64 : u[i] = m[64 * q + i]
      <3>1. IsSeq(u) /\ Len(u) = b - a + 1 /\ \A i \in 1 .. Len(u) : u[i] = m[a + i - 1]
        <4>1. u = SubSeq(m, a, b)
          BY <2>1
        <4>2. /\ a \in Nat /\ b \in Nat /\ 0 < a /\ a <= b + 1 /\ b <= Len(m)
          BY <2>2
        <4>3. IsPart(u, m, a, b)
          BY <4>1, <4>2, IsSeqPart
        <4> QED
          BY <4>3 DEF IsPart
      <3>2. IsSeq(u) /\ Len(u) = 64
        BY <2>2, <3>1
      <3>3. \A i \in 1 .. 64 : u[i] = m[a + i - 1]
        BY <3>1, <3>2
      <3> QED
        BY <2>0, <3>2, <3>3
    <2>4. u = data
      <3>1. \A i \in 1 .. 64 : u[i] = data[i]
        BY <2>3 DEF IsNext
      <3> QED
        BY <1>1, <2>3, <3>1, IsSeqSame
    <2> QED
      BY <2>1, <2>4
  <1>3. PICK old, new : old = Blocks(m, q) /\ new = Blocks(m, q + 1)
    OBVIOUS
  <1>4. IsSeq(old) /\ Len(old) = q /\ \A b \in 1 .. q : old[b] = SubSeq(m, 64 * b - 63, 64 * b)
    <2>1. old = [b \in 1 .. q |-> SubSeq(m, 64 * b - 63, 64 * b)]
      BY <1>3 DEF Blocks
    <2>2. old = [b \in 1 .. q |-> old[b]]
      BY <2>1
    <2> QED
      BY <2>1, <2>2, IsSeqFunction
  <1>5. /\ IsSeq(new) /\ Len(new) = q + 1
        /\ \A b \in 1 .. q + 1 : new[b] = SubSeq(m, 64 * b - 63, 64 * b)
    <2>1. new = [b \in 1 .. q + 1 |-> SubSeq(m, 64 * b - 63, 64 * b)]
      BY <1>3 DEF Blocks
    <2>2. new = [b \in 1 .. q + 1 |-> new[b]]
      BY <2>1
    <2>3. q + 1 \in Nat
      OBVIOUS
    <2> QED
      BY <2>1, <2>2, <2>3, IsSeqFunction
  <1>7. PICK u : u = Append(old, data)
    OBVIOUS
  <1>9. /\ IsSeq(u) /\ Len(u) = q + 1 /\ u[q + 1] = data
        /\ \A b \in 1 .. q : u[b] = old[b]
    <2>1. /\ IsSeq(u) /\ Len(u) = Len(old) + 1 /\ u[Len(old) + 1] = data
          /\ \A b \in 1 .. Len(old) : u[b] = old[b]
      <3>1. IsSeq(old)
        BY <1>4
      <3>2. IsLonger(u, old, data)
        BY <1>7, <3>1, IsSeqAppend
      <3> QED
        BY <3>2 DEF IsLonger
    <2>2. Len(old) = q
      BY <1>4
    <2> QED
      BY <2>1, <2>2
  <1>10. ASSUME NEW b \in 1 .. q + 1 PROVE u[b] = new[b]
    <2>1. CASE b = q + 1
      BY <1>2, <1>5, <1>9, <2>1
    <2>2. CASE b \in 1 .. q
      BY <1>4, <1>5, <1>9, <2>2
    <2> QED
      BY <2>1, <2>2
  <1>12. u = new
    BY <1>5, <1>9, <1>10, IsSeqSame
  <1> QED
    BY <1>3, <1>7, <1>12

\* The first r bytes of block q (from 0) are in data; the rest is left over.
Taken(data, m, q, r) ==
    /\ data = [i \in 1 .. 64 |-> data[i]]
    /\ \A i \in 1 .. 64 : i <= r => data[i] = m[64 * q + i]

LEMMA TakenByte ==
    ASSUME NEW m, NEW q \in Nat, NEW r \in Nat, r < 64, NEW data, Taken(data, m, q, r),
           NEW new, new = [data EXCEPT ![r + 1] = m[64 * q + r + 1]]
    PROVE  Taken(new, m, q, r + 1)
  <1>1. data = [i \in 1 .. 64 |-> data[i]] /\ r + 1 \in 1 .. 64
    BY DEF Taken
  <1>2. new = [i \in 1 .. 64 |-> new[i]]
    BY <1>1
  <1>3. new[r + 1] = m[64 * q + r + 1]
    BY <1>1
  <1>4. \A i \in 1 .. 64 : i # r + 1 => new[i] = data[i]
    BY <1>1
  <1>5. ASSUME NEW i \in 1 .. 64, i <= r + 1 PROVE new[i] = m[64 * q + i]
    <2>1. CASE i = r + 1
      <3>1. 64 * q + i = 64 * q + r + 1
        BY <2>1
      <3> QED
        BY <1>3, <2>1, <3>1
    <2>2. CASE i # r + 1
      <3>1. i <= r
        BY <1>5, <2>2
      <3> QED
        BY <1>4, <2>2, <3>1 DEF Taken
    <2> QED
      BY <2>1, <2>2
  <1> QED
    BY <1>2, <1>5 DEF Taken

LEMMA TakenWhole ==
    ASSUME NEW m, NEW q, 64 * (q + 1) <= Len(m), NEW data, Taken(data, m, q, 64)
    PROVE  IsNext(m, q, data)
  <1>1. \A i \in 1 .. 64 : i <= 64
    OBVIOUS
  <1> QED
    BY <1>1 DEF Taken, IsNext

LEMMA TakenNone ==
    ASSUME NEW m, NEW q, NEW r, NEW data, NEW p, Taken(data, m, q, r)
    PROVE  Taken(data, m, p, 0)
  <1>1. \A i \in 1 .. 64 : ~(i <= 0)
    OBVIOUS
  <1> QED
    BY <1>1 DEF Taken

\* piece is what follows the first n bytes of m.
IsPieceAt(piece, m, n) ==
    IsSeq(piece) /\ n + Len(piece) <= Len(m) /\ \A i \in 1 .. Len(piece) : piece[i] = m[n + i]

\* The records of a hash: a byte is stored, and a block is full.
LEMMA UpdateByteStores ==
    ASSUME NEW old, NEW r, NEW len \in Nat, NEW blocks, NEW byte, NEW h,
           h = [data |-> old, blocklen |-> r, bitlen |-> len, blocks |-> blocks],
           NEW e, e = [h EXCEPT !.data[h.blocklen + 1] = byte, !.blocklen = @ + 1]
    PROVE  e = [data |-> [old EXCEPT ![r + 1] = byte], blocklen |-> r + 1, bitlen |-> len, blocks |-> blocks]
  <1>1. PICK new, s : new = [old EXCEPT ![r + 1] = byte] /\ s = r + 1
    OBVIOUS
  <1>2. h.data = old /\ h.blocklen = r
    OBVIOUS
  <1>3. e = [h EXCEPT !.data = new, !.blocklen = s]
    BY <1>1, <1>2
  <1>4. e.data = new /\ e.blocklen = s /\ e.bitlen = len /\ e.blocks = blocks
    BY <1>3
  <1>5. e = [data |-> e.data, blocklen |-> e.blocklen, bitlen |-> e.bitlen, blocks |-> e.blocks]
    BY <1>3
  <1>6. e = [data |-> new, blocklen |-> s, bitlen |-> len, blocks |-> blocks]
    BY <1>4, <1>5
  <1> QED
    BY <1>1, <1>6

Filled(t) == [Transform(t) EXCEPT !.bitlen = @ + 512, !.blocklen = 0]

\* The fields of a SHA-256.
Holds(t, data, r, len, blocks) ==
    t = [data |-> data, blocklen |-> r, bitlen |-> len, blocks |-> blocks]

\* A block more has been counted.
IsMore(s, len) == len \in Nat /\ s = len + 512

LEMMA UpdateByteFull ==
    ASSUME NEW new, NEW r, NEW len, NEW blocks, NEW t, Holds(t, new, r, len, blocks),
           NEW s, IsMore(s, len), NEW e, e = Filled(t), NEW more, more = Append(blocks, new)
    PROVE  Holds(e, new, 0, s, more)
  <1>0. t = [data |-> new, blocklen |-> r, bitlen |-> len, blocks |-> blocks]
    BY DEF Holds
  <1>1. t.data = new /\ t.blocks = blocks
    BY <1>0
  <1>3. PICK u : u = Transform(t)
    OBVIOUS
  <1>2. u = [t EXCEPT !.blocks = more]
    BY <1>1, <1>3 DEF Transform
  <1>4. u = [data |-> new, blocklen |-> r, bitlen |-> len, blocks |-> more]
    BY <1>0, <1>2
  <1>5. u.bitlen = len /\ s = len + 512
    BY <1>4 DEF IsMore
  <1>6. e = [u EXCEPT !.bitlen = s, !.blocklen = 0]
    <2>1. e = [u EXCEPT !.bitlen = u.bitlen + 512, !.blocklen = 0]
      BY <1>3 DEF Filled
    <2> QED
      BY <1>5, <2>1
  <1>7. e.data = new /\ e.blocklen = 0 /\ e.bitlen = s /\ e.blocks = more
    BY <1>4, <1>6
  <1>8. e = [data |-> e.data, blocklen |-> e.blocklen, bitlen |-> e.bitlen, blocks |-> e.blocks]
    BY <1>4, <1>6
  <1> QED
    BY <1>7, <1>8 DEF Holds

LEMMA ProcessByteStores ==
    ASSUME NEW old, NEW r, NEW len \in Nat, NEW blocks, NEW byte, NEW h,
           h = [block |-> old, index |-> r, count |-> len, blocks |-> blocks],
           NEW e, e = [h EXCEPT !.block[h.index + 1] = byte, !.index = @ + 1, !.count = @ + 1]
    PROVE  e = [block |-> [old EXCEPT ![r + 1] = byte], index |-> r + 1, count |-> len + 1, blocks |-> blocks]
  <1>1. PICK new, s, n : new = [old EXCEPT ![r + 1] = byte] /\ s = r + 1 /\ n = len + 1
    OBVIOUS
  <1>2. h.block = old /\ h.index = r /\ h.count = len
    OBVIOUS
  <1>3. e = [h EXCEPT !.block = new, !.index = s, !.count = n]
    BY <1>1, <1>2
  <1>4. e.block = new /\ e.index = s /\ e.count = n /\ e.blocks = blocks
    BY <1>3
  <1>5. e = [block |-> e.block, index |-> e.index, count |-> e.count, blocks |-> e.blocks]
    BY <1>3
  <1>6. e = [block |-> new, index |-> s, count |-> n, blocks |-> blocks]
    BY <1>4, <1>5
  <1> QED
    BY <1>1, <1>6

LEMMA ProcessByteFull ==
    ASSUME NEW new, NEW r, NEW len \in Nat, NEW blocks, NEW t,
           t = [block |-> new, index |-> r, count |-> len, blocks |-> blocks],
           NEW e, e = [t EXCEPT !.index = 0, !.blocks = Append(@, t.block)]
    PROVE  e = [block |-> new, index |-> 0, count |-> len, blocks |-> Append(blocks, new)]
  <1>1. PICK more : more = Append(blocks, new)
    OBVIOUS
  <1>2. t.block = new /\ t.blocks = blocks
    OBVIOUS
  <1>3. e = [t EXCEPT !.index = 0, !.blocks = more]
    BY <1>1, <1>2
  <1>4. e.block = new /\ e.index = 0 /\ e.count = len /\ e.blocks = more
    BY <1>3
  <1>5. e = [block |-> e.block, index |-> e.index, count |-> e.count, blocks |-> e.blocks]
    BY <1>3
  <1> QED
    BY <1>1, <1>4, <1>5

\* SHA-256 after the first 64 * q + r bytes of m.
Reads(h, m, q, r) ==
    /\ q \in Nat /\ r \in Nat /\ r < 64
    /\ h = [data |-> h.data, blocklen |-> r, bitlen |-> 512 * q, blocks |-> Blocks(m, q)]
    /\ Taken(h.data, m, q, r)

At(h, m, n) == \E q, r : n = 64 * q + r /\ Reads(h, m, q, r)

LEMMA UpdateByteReads ==
    ASSUME NEW m, IsSeq(m), NEW q, NEW r, NEW h, Reads(h, m, q, r),
           NEW e, e = UpdateByte(h, m[64 * q + r + 1]), 64 * q + r + 1 <= Len(m)
    PROVE  At(e, m, 64 * q + r + 1)
  <1>1. PICK byte, old, blocks, len :
               /\ byte = m[64 * q + r + 1] /\ old = h.data /\ blocks = Blocks(m, q)
               /\ len = 512 * q
    OBVIOUS
  <1>2. q \in Nat /\ r \in Nat /\ r < 64 /\ r + 1 \in 1 .. 64 /\ Taken(old, m, q, r)
    <2>1. q \in Nat /\ r \in Nat /\ r < 64 /\ Taken(h.data, m, q, r)
      BY DEF Reads
    <2>2. r + 1 \in 1 .. 64
      BY <2>1
    <2> QED
      BY <1>1, <2>1, <2>2
  <1>0. len \in Nat
    BY <1>1, <1>2
  <1>3. h = [data |-> old, blocklen |-> r, bitlen |-> len, blocks |-> blocks]
    BY <1>1 DEF Reads
  <1>4. PICK new, t : new = [old EXCEPT ![r + 1] = byte] /\ t = [data |-> new, blocklen |-> r + 1, bitlen |-> len, blocks |-> blocks]
    OBVIOUS
  <1>5. Taken(new, m, q, r + 1)
    BY <1>1, <1>2, <1>4, TakenByte
  <1>6. t = [h EXCEPT !.data[h.blocklen + 1] = byte, !.blocklen = @ + 1]
    <2>1. PICK s : s = [h EXCEPT !.data[h.blocklen + 1] = byte, !.blocklen = @ + 1]
      OBVIOUS
    <2>2. s = [data |-> [old EXCEPT ![r + 1] = byte], blocklen |-> r + 1, bitlen |-> len, blocks |-> blocks]
      BY <1>0, <1>3, <2>1, UpdateByteStores
    <2> QED
      BY <1>4, <2>1, <2>2
  <1>7. e = IF t.blocklen < 64 THEN t
            ELSE Filled(t)
    BY <1>1, <1>6 DEF UpdateByte, Filled
  <1>8. CASE r < 63
    <2>1. r + 1 < 64 /\ r + 1 \in Nat
      BY <1>2, <1>8
    <2>2. e = t
      BY <1>4, <1>7, <2>1
    <2>3. Reads(e, m, q, r + 1)
      BY <1>1, <1>2, <1>4, <1>5, <2>1, <2>2 DEF Reads
    <2>4. 64 * q + r + 1 = 64 * q + (r + 1)
      BY <1>2
    <2> QED
      BY <2>3, <2>4 DEF At
  <1>9. CASE ~(r < 63)
    <2>1. r = 63 /\ r + 1 = 64
      BY <1>2, <1>9
    <2>2. 64 * (q + 1) <= Len(m)
      BY <1>2, <2>1
    <2>3. IsNext(m, q, new)
      BY <1>5, <2>1, <2>2, TakenWhole
    <2>4. Append(blocks, new) = Blocks(m, q + 1)
      BY <1>1, <1>2, <2>3, NextBlock
    <2>5. e = [data |-> new, blocklen |-> 0, bitlen |-> 512 * (q + 1), blocks |-> Blocks(m, q + 1)]
      <3>1. ~(t.blocklen < 64)
        BY <1>4, <2>1
      <3>2. e = Filled(t)
        BY <1>7, <3>1
      <3>0. PICK s, more, k : s = len + 512 /\ more = Append(blocks, new) /\ k = r + 1
        OBVIOUS
      <3>3. e = [data |-> new, blocklen |-> 0, bitlen |-> s, blocks |-> more]
        <4>1. Holds(t, new, k, len, blocks)
          BY <1>4, <3>0 DEF Holds
        <4>2. IsMore(s, len)
          BY <1>0, <3>0 DEF IsMore
        <4>3. more = Append(blocks, new)
          BY <3>0
        <4>4. Holds(e, new, 0, s, more)
          BY <3>2, <4>1, <4>2, <4>3, UpdateByteFull
        <4> QED
          BY <4>4 DEF Holds
      <3>4. s = 512 * (q + 1)
        BY <1>1, <1>2, <2>1, <3>0
      <3> QED
        BY <2>4, <3>0, <3>3, <3>4
    <2>6. Taken(new, m, q + 1, 0)
      BY <1>5, TakenNone
    <2>7. Reads(e, m, q + 1, 0)
      <3>1. q + 1 \in Nat /\ 0 \in Nat /\ 0 < 64 /\ 512 * q + 512 = 512 * (q + 1)
        BY <1>2
      <3>2. e.data = new
        BY <2>5
      <3> QED
        BY <2>5, <2>6, <3>1, <3>2 DEF Reads
    <2>8. 64 * q + r + 1 = 64 * (q + 1) + 0
      BY <1>2, <2>1
    <2> QED
      BY <2>7, <2>8 DEF At
  <1> QED
    BY <1>8, <1>9

LEMMA UpdateByteAt ==
    ASSUME NEW m, IsSeq(m), NEW n, n + 1 <= Len(m), NEW h, At(h, m, n),
           NEW byte, byte = m[n + 1], NEW e, e = UpdateByte(h, byte)
    PROVE  At(e, m, n + 1)
  <1>1. PICK q, r : n = 64 * q + r /\ Reads(h, m, q, r)
    BY DEF At
  <1>2. q \in Nat /\ r \in Nat /\ n + 1 = 64 * q + r + 1
    BY <1>1 DEF Reads
  <1>3. e = UpdateByte(h, m[64 * q + r + 1]) /\ 64 * q + r + 1 <= Len(m)
    BY <1>2
  <1>4. At(e, m, 64 * q + r + 1)
    BY <1>1, <1>3, UpdateByteReads
  <1> QED
    BY <1>2, <1>4

\* A piece of the message.
LEMMA UpdateAt ==
    ASSUME NEW m, IsSeq(m), NEW n \in Nat, NEW h, At(h, m, n),
           NEW piece, IsPieceAt(piece, m, n), NEW e, e = Update(h, piece)
    PROVE  At(e, m, n + Len(piece))
  <1>1. PICK len, f : len = Len(piece) /\ f = Updated(h, piece)
    OBVIOUS
  <1>2. /\ len \in Nat /\ n + len <= Len(m) /\ Len(m) \in Nat
        /\ \A i \in 1 .. len : piece[i] = m[n + i]
    BY <1>1, IsSeqLen DEF IsPieceAt
  <1>3. f[0] = h /\ \A i \in 1 .. len : f[i] = UpdateByte(f[i - 1], piece[i])
    BY <1>1, <1>2, UpdatedSteps
  <1> DEFINE S == {i \in 0 .. len : At(f[i], m, n + i)}
  <1>4. 0 \in S
    <2>1. n + 0 = n /\ 0 \in 0 .. len
      BY <1>2
    <2> QED
      BY <1>3, <2>1
  <1>5. ASSUME NEW i \in 0 .. len - 1, i \in S PROVE i + 1 \in S
    <2>1. PICK k : k = i + 1
      OBVIOUS
    <2>2. /\ k \in 1 .. len /\ k \in 0 .. len /\ k - 1 = i /\ n + k = n + i + 1
          /\ n + i + 1 <= Len(m)
      BY <1>2, <2>1
    <2>3. At(f[i], m, n + i)
      BY <1>5
    <2>4. f[k] = UpdateByte(f[i], piece[k])
      BY <1>3, <2>2
    <2>5. piece[k] = m[n + i + 1]
      BY <1>2, <2>2
    <2>6. PICK n1, byte : n1 = n + i /\ byte = piece[k]
      OBVIOUS
    <2>7. n1 + 1 <= Len(m) /\ byte = m[n1 + 1] /\ At(f[i], m, n1) /\ f[k] = UpdateByte(f[i], byte)
      BY <2>2, <2>3, <2>4, <2>5, <2>6
    <2>8. At(f[k], m, n1 + 1)
      BY <2>7, UpdateByteAt
    <2>9. k \in S
      BY <2>2, <2>6, <2>8
    <2> QED
      BY <2>1, <2>9
  <1>6. At(f[len], m, n + len)
    <2> HIDE DEF S
    <2>1. 0 .. len \subseteq S
      BY <1>2, <1>4, <1>5, Induction
    <2>2. len \in S
      BY <1>2, <2>1
    <2> QED
      BY <2>2 DEF S
  <1> QED
    BY <1>1, <1>6 DEF Update

\* SHA-1 after the first 64 * q + r bytes of m.
ReadsSha1(h, m, q, r) ==
    /\ q \in Nat /\ r \in Nat /\ r < 64
    /\ h = [block |-> h.block, index |-> r, count |-> 64 * q + r, blocks |-> Blocks(m, q)]
    /\ Taken(h.block, m, q, r)

AtSha1(h, m, n) == \E q, r : n = 64 * q + r /\ ReadsSha1(h, m, q, r)

LEMMA ProcessByteReads ==
    ASSUME NEW m, IsSeq(m), NEW q, NEW r, NEW h, ReadsSha1(h, m, q, r),
           NEW e, e = ProcessByte(h, m[64 * q + r + 1]), 64 * q + r + 1 <= Len(m)
    PROVE  AtSha1(e, m, 64 * q + r + 1)
  <1>1. PICK byte, old, blocks, len :
               /\ byte = m[64 * q + r + 1] /\ old = h.block /\ blocks = Blocks(m, q)
               /\ len = 64 * q + r
    OBVIOUS
  <1>2. q \in Nat /\ r \in Nat /\ r < 64 /\ r + 1 \in 1 .. 64 /\ Taken(old, m, q, r)
    <2>1. q \in Nat /\ r \in Nat /\ r < 64 /\ Taken(h.block, m, q, r)
      BY DEF ReadsSha1
    <2>2. r + 1 \in 1 .. 64
      BY <2>1
    <2> QED
      BY <1>1, <2>1, <2>2
  <1>0. len \in Nat
    BY <1>1, <1>2
  <1>3. h = [block |-> old, index |-> r, count |-> len, blocks |-> blocks]
    BY <1>1 DEF ReadsSha1
  <1>4. PICK new, t : new = [old EXCEPT ![r + 1] = byte] /\ t = [block |-> new, index |-> r + 1, count |-> len + 1, blocks |-> blocks]
    OBVIOUS
  <1>5. Taken(new, m, q, r + 1)
    BY <1>1, <1>2, <1>4, TakenByte
  <1>6. t = [h EXCEPT !.block[h.index + 1] = byte, !.index = @ + 1, !.count = @ + 1]
    <2>1. PICK s : s = [h EXCEPT !.block[h.index + 1] = byte, !.index = @ + 1, !.count = @ + 1]
      OBVIOUS
    <2>2. s = [block |-> [old EXCEPT ![r + 1] = byte], index |-> r + 1, count |-> len + 1, blocks |-> blocks]
      BY <1>0, <1>3, <2>1, ProcessByteStores
    <2> QED
      BY <1>4, <2>1, <2>2
  <1>7. e = IF t.index < 64 THEN t ELSE [t EXCEPT !.index = 0, !.blocks = Append(@, t.block)]
    BY <1>1, <1>6 DEF ProcessByte
  <1>8. CASE r < 63
    <2>1. r + 1 < 64 /\ r + 1 \in Nat
      BY <1>2, <1>8
    <2>2. e = t
      BY <1>4, <1>7, <2>1
    <2>3. ReadsSha1(e, m, q, r + 1)
      BY <1>1, <1>2, <1>4, <1>5, <2>1, <2>2 DEF ReadsSha1
    <2>4. 64 * q + r + 1 = 64 * q + (r + 1)
      BY <1>2
    <2> QED
      BY <2>3, <2>4 DEF AtSha1
  <1>9. CASE ~(r < 63)
    <2>1. r = 63 /\ r + 1 = 64
      BY <1>2, <1>9
    <2>2. 64 * (q + 1) <= Len(m)
      BY <1>2, <2>1
    <2>3. IsNext(m, q, new)
      BY <1>5, <2>1, <2>2, TakenWhole
    <2>4. Append(blocks, new) = Blocks(m, q + 1)
      BY <1>1, <1>2, <2>3, NextBlock
    <2>5. e = [block |-> new, index |-> 0, count |-> 64 * (q + 1) + 0, blocks |-> Blocks(m, q + 1)]
      <3>1. ~(t.index < 64)
        BY <1>4, <2>1
      <3>2. e = [t EXCEPT !.index = 0, !.blocks = Append(@, t.block)]
        BY <1>7, <3>1
      <3>3. e = [block |-> new, index |-> 0, count |-> len + 1, blocks |-> Append(blocks, new)]
        <4>1. t = [block |-> new, index |-> r + 1, count |-> len + 1, blocks |-> blocks]
          BY <1>4
        <4> QED
          BY <1>0, <3>2, <4>1, ProcessByteFull
      <3>4. len + 1 = 64 * (q + 1) + 0
        BY <1>1, <1>2, <2>1
      <3> QED
        BY <2>4, <3>3, <3>4
    <2>6. Taken(new, m, q + 1, 0)
      BY <1>5, TakenNone
    <2>7. ReadsSha1(e, m, q + 1, 0)
      <3>1. q + 1 \in Nat /\ 0 \in Nat /\ 0 < 64 /\ 64 * (q + 1) + 0 = 64 * (q + 1)
        BY <1>2
      <3>2. e.block = new
        BY <2>5
      <3> QED
        BY <2>5, <2>6, <3>1, <3>2 DEF ReadsSha1
    <2>8. 64 * q + r + 1 = 64 * (q + 1) + 0
      BY <1>2, <2>1
    <2> QED
      BY <2>7, <2>8 DEF AtSha1
  <1> QED
    BY <1>8, <1>9

LEMMA ProcessByteAt ==
    ASSUME NEW m, IsSeq(m), NEW n, n + 1 <= Len(m), NEW h, AtSha1(h, m, n),
           NEW byte, byte = m[n + 1], NEW e, e = ProcessByte(h, byte)
    PROVE  AtSha1(e, m, n + 1)
  <1>1. PICK q, r : n = 64 * q + r /\ ReadsSha1(h, m, q, r)
    BY DEF AtSha1
  <1>2. q \in Nat /\ r \in Nat /\ n + 1 = 64 * q + r + 1
    BY <1>1 DEF ReadsSha1
  <1>3. e = ProcessByte(h, m[64 * q + r + 1]) /\ 64 * q + r + 1 <= Len(m)
    BY <1>2
  <1>4. AtSha1(e, m, 64 * q + r + 1)
    BY <1>1, <1>3, ProcessByteReads
  <1> QED
    BY <1>2, <1>4

\* A piece of the message.
LEMMA ProcessBytesAt ==
    ASSUME NEW m, IsSeq(m), NEW n \in Nat, NEW h, AtSha1(h, m, n),
           NEW piece, IsPieceAt(piece, m, n), NEW e, e = ProcessBytes(h, piece)
    PROVE  AtSha1(e, m, n + Len(piece))
  <1>1. PICK len, f : len = Len(piece) /\ f = Processed(h, piece)
    OBVIOUS
  <1>2. /\ len \in Nat /\ n + len <= Len(m) /\ Len(m) \in Nat
        /\ \A i \in 1 .. len : piece[i] = m[n + i]
    BY <1>1, IsSeqLen DEF IsPieceAt
  <1>3. f[0] = h /\ \A i \in 1 .. len : f[i] = ProcessByte(f[i - 1], piece[i])
    BY <1>1, <1>2, ProcessedSteps
  <1> DEFINE S == {i \in 0 .. len : AtSha1(f[i], m, n + i)}
  <1>4. 0 \in S
    <2>1. n + 0 = n /\ 0 \in 0 .. len
      BY <1>2
    <2> QED
      BY <1>3, <2>1
  <1>5. ASSUME NEW i \in 0 .. len - 1, i \in S PROVE i + 1 \in S
    <2>1. PICK k : k = i + 1
      OBVIOUS
    <2>2. /\ k \in 1 .. len /\ k \in 0 .. len /\ k - 1 = i /\ n + k = n + i + 1
          /\ n + i + 1 <= Len(m)
      BY <1>2, <2>1
    <2>3. AtSha1(f[i], m, n + i)
      BY <1>5
    <2>4. f[k] = ProcessByte(f[i], piece[k])
      BY <1>3, <2>2
    <2>5. piece[k] = m[n + i + 1]
      BY <1>2, <2>2
    <2>6. PICK n1, byte : n1 = n + i /\ byte = piece[k]
      OBVIOUS
    <2>7. n1 + 1 <= Len(m) /\ byte = m[n1 + 1] /\ AtSha1(f[i], m, n1) /\ f[k] = ProcessByte(f[i], byte)
      BY <2>2, <2>3, <2>4, <2>5, <2>6
    <2>8. AtSha1(f[k], m, n1 + 1)
      BY <2>7, ProcessByteAt
    <2>9. k \in S
      BY <2>2, <2>6, <2>8
    <2> QED
      BY <2>1, <2>9
  <1>6. AtSha1(f[len], m, n + len)
    <2> HIDE DEF S
    <2>1. 0 .. len \subseteq S
      BY <1>2, <1>4, <1>5, Induction
    <2>2. len \in S
      BY <1>2, <2>1
    <2> QED
      BY <2>2 DEF S
  <1> QED
    BY <1>1, <1>6 DEF ProcessBytes

----------------------------------------------------------------------------
(* The padding.                                                            *)

\* SHA-256 and SHA-1 before the first byte.
LEMMA NoBytes ==
    ASSUME NEW m
    PROVE  At(Sha256, m, 0) /\ AtSha1(Sha1, m, 0)
  <1>1. PICK none, data, q, r : none = Blocks(m, 0) /\ data = [i \in 1 .. 64 |-> Zero] /\ q = 0 /\ r = 0
    OBVIOUS
  <1>2. none = <<>>
    <2>1. none = [b \in 1 .. 0 |-> none[b]]
      BY <1>1 DEF Blocks
    <2>2. IsSeq(none) /\ Len(none) = 0
      BY <2>1, IsSeqFunction
    <2> QED
      BY <2>2, EmptySeq DEF IsSeq
  <1>3. Taken(data, m, q, r)
    <2>1. \A i \in 1 .. 64 : ~(i <= 0)
      OBVIOUS
    <2>2. data = [i \in 1 .. 64 |-> data[i]]
      BY <1>1
    <2> QED
      BY <1>1, <2>1, <2>2 DEF Taken
  <1>4. q \in Nat /\ r \in Nat /\ r < 64 /\ 0 = 512 * q /\ 0 = 64 * q + r
    BY <1>1
  <1>5. Reads(Sha256, m, q, r)
    <2>1. PICK h : h = Sha256
      OBVIOUS
    <2>2. h = [data |-> data, blocklen |-> 0, bitlen |-> 0, blocks |-> <<>>]
      BY <1>1, <2>1 DEF Sha256
    <2>3. h.data = data
      BY <2>2
    <2>4. h = [data |-> h.data, blocklen |-> r, bitlen |-> 512 * q, blocks |-> none]
      BY <1>1, <1>2, <1>4, <2>2, <2>3
    <2>5. Reads(h, m, q, r)
      BY <1>1, <1>3, <1>4, <2>3, <2>4 DEF Reads
    <2> QED
      BY <2>1, <2>5
  <1>6. ReadsSha1(Sha1, m, q, r)
    <2>1. PICK h : h = Sha1
      OBVIOUS
    <2>2. h = [block |-> data, index |-> 0, count |-> 0, blocks |-> <<>>]
      BY <1>1, <2>1 DEF Sha1
    <2>3. h.block = data
      BY <2>2
    <2>4. h = [block |-> h.block, index |-> r, count |-> 64 * q + r, blocks |-> none]
      BY <1>1, <1>2, <1>4, <2>2, <2>3
    <2>5. ReadsSha1(h, m, q, r)
      BY <1>1, <1>3, <1>4, <2>3, <2>4 DEF ReadsSha1
    <2> QED
      BY <2>1, <2>5
  <1> QED
    BY <1>4, <1>5, <1>6 DEF At, AtSha1

\* s is n in k bytes.
IsNumber(s, n, k) == IsSeq(s) /\ Len(s) = k /\ \A i \in 1 .. k : s[i] = Octet(Bytes(n, k)[i])

LEMMA OctetsOfBytes ==
    ASSUME NEW n, NEW k \in Nat, NEW s, s = Octets(Bytes(n, k))
    PROVE  IsNumber(s, n, k)
  <1>1. PICK f : f = Bytes(n, k)
    OBVIOUS
  <1>2. DOMAIN f = 1 .. k
    BY <1>1 DEF Bytes
  <1>3. s = [i \in 1 .. k |-> Octet(f[i])]
    BY <1>1, <1>2 DEF Octets
  <1>4. s = [i \in 1 .. k |-> s[i]]
    BY <1>3
  <1> QED
    BY <1>1, <1>3, <1>4, IsSeqFunction DEF IsNumber

LEMMA ZerosAreZero ==
    ASSUME NEW n \in Nat, NEW s, s = ZeroBytes(n)
    PROVE  IsSeq(s) /\ Len(s) = n /\ \A i \in 1 .. n : s[i] = Zero
  <1>1. s = [i \in 1 .. n |-> s[i]] /\ \A i \in 1 .. n : s[i] = Zero
    BY DEF ZeroBytes
  <1> QED
    BY <1>1, IsSeqFunction

\* The length as SHA-1 writes it, in eight bytes of which four are zero.
LEMMA LengthIsTail ==
    ASSUME NEW n, NEW u, u = ZeroBytes(4) \o Octets(Bytes(n, 4))
    PROVE  u = Octets(Bytes(n, 8))
  <1>1. PICK z, s, t : z = ZeroBytes(4) /\ s = Octets(Bytes(n, 4)) /\ t = Octets(Bytes(n, 8))
    OBVIOUS
  <1>2. IsSeq(z) /\ Len(z) = 4 /\ \A i \in 1 .. 4 : z[i] = Zero
    <2>1. 4 \in Nat
      OBVIOUS
    <2> QED
      BY <1>1, <2>1, ZerosAreZero
  <1>3. /\ IsSeq(s) /\ Len(s) = 4 /\ IsSeq(t) /\ Len(t) = 8
        /\ \A i \in 1 .. 4 : s[i] = Octet(Bytes(n, 4)[i])
        /\ \A i \in 1 .. 8 : t[i] = Octet(Bytes(n, 8)[i])
    <2>1. IsNumber(s, n, 4)
      BY <1>1, OctetsOfBytes
    <2>2. IsNumber(t, n, 8)
      BY <1>1, OctetsOfBytes
    <2> QED
      BY <2>1, <2>2 DEF IsNumber
  <1>4. IsJoin(u, z, s)
    BY <1>1, <1>2, <1>3, IsSeqConcat
  <1>5. /\ IsSeq(u) /\ Len(u) = 8
        /\ \A i \in 1 .. 4 : u[i] = z[i] /\ u[4 + i] = s[i]
    BY <1>2, <1>3, <1>4 DEF IsJoin
  <1>6. ASSUME NEW i \in 1 .. 4 PROVE t[i] = Zero
    <2>1. i \in 1 .. 8 /\ 8 - i > 3
      OBVIOUS
    <2>2. Bytes(n, 8)[i] = 0
      BY <2>1 DEF Bytes
    <2> QED
      BY <1>3, <2>1, <2>2 DEF Zero
  <1>7. ASSUME NEW i \in 1 .. 4 PROVE t[4 + i] = s[i]
    <2>1. PICK j, d : j = 4 + i /\ d = 4 - i
      OBVIOUS
    <2>2. j \in 1 .. 8 /\ ~(8 - j > 3) /\ 8 - j = d /\ ~(4 - i > 3)
      BY <2>1
    <2>3. Bytes(n, 8)[j] = (n \div 256 ^ d) % 256
      BY <2>2 DEF Bytes
    <2>4. Bytes(n, 4)[i] = (n \div 256 ^ d) % 256
      BY <2>1, <2>2 DEF Bytes
    <2> QED
      BY <1>3, <2>1, <2>2, <2>3, <2>4
  <1>8. ASSUME NEW i \in 1 .. 8 PROVE u[i] = t[i]
    <2>1. CASE i \in 1 .. 4
      BY <1>2, <1>5, <1>6, <2>1
    <2>2. CASE ~(i \in 1 .. 4)
      <3>1. PICK k : k = i - 4
        OBVIOUS
      <3>2. k \in 1 .. 4 /\ i = 4 + k
        BY <2>2, <3>1
      <3> QED
        BY <1>5, <1>7, <3>2
    <2> QED
      BY <2>1, <2>2
  <1> QED
    BY <1>1, <1>3, <1>5, <1>8, IsSeqSame

\* all is n bytes, a 1 bit, zeros and the length; its own length is size.
Ending(all, n, size) ==
    /\ IsSeq(all) /\ Len(all) = size
    /\ all[n + 1] = Octet(128)
    /\ \A i \in 1 .. size : n + 1 < i /\ i <= size - 8 => all[i] = Zero
    /\ \A i \in 1 .. 8 : all[size - 8 + i] = Octets(Bytes(8 * n, 8))[i]

\* The fewest whole blocks that n bytes, a byte and a length need.
IsSize(size, n, q, r) ==
    /\ q \in Nat /\ r \in Nat /\ r < 64 /\ n = 64 * q + r
    /\ r < 56 => size = 64 * (q + 1)
    /\ ~(r < 56) => size = 64 * (q + 2)

\* After n bytes, z of them are zero.
IsRest(z, n) == z = (55 - n) % 64

LEMMA FewestZeros ==
    ASSUME NEW n, NEW q, NEW r, NEW size, IsSize(size, n, q, r), NEW z, IsRest(z, n)
    PROVE  z \in Nat /\ n \in Nat /\ n + 1 + z + 8 = size
  <1>1. /\ q \in Nat /\ r \in Nat /\ r < 64 /\ n = 64 * q + r
        /\ r < 56 => size = 64 * (q + 1)
        /\ ~(r < 56) => size = 64 * (q + 2)
    BY DEF IsSize
  <1>2. CASE r < 56
    <2>1. z = 55 - r
      BY <1>1, <1>2 DEF IsRest
    <2> QED
      BY <1>1, <1>2, <2>1
  <1>3. CASE ~(r < 56)
    <2>1. z = 119 - r
      BY <1>1, <1>3 DEF IsRest
    <2> QED
      BY <1>1, <1>3, <2>1
  <1> QED
    BY <1>2, <1>3

\* The padding of the standard.
LEMMA PaddedEnds ==
    ASSUME NEW m, IsSeq(m), NEW q, NEW r, NEW size, IsSize(size, Len(m), q, r),
           NEW all, all = Padded(m)
    PROVE  Ending(all, Len(m), size) /\ \A i \in 1 .. Len(m) : all[i] = m[i]
  <1>1. PICK n, z, one, zeros, tail :
            /\ n = Len(m) /\ z = (55 - n) % 64 /\ one = <<Octet(128)>>
            /\ zeros = ZeroBytes(z) /\ tail = Octets(Bytes(8 * n, 8))
    OBVIOUS
  <1>2. z \in Nat /\ n \in Nat /\ n + 1 + z + 8 = size
    <2>1. IsSize(size, n, q, r) /\ IsRest(z, n)
      BY <1>1 DEF IsRest
    <2> QED
      BY <2>1, FewestZeros
  <1>3. PICK a, b : a = m \o one /\ b = a \o zeros
    OBVIOUS
  <1>4. all = b \o tail
    BY <1>1, <1>3 DEF Padded
  <1>5. /\ IsSeq(one) /\ Len(one) = 1 /\ one[1] = Octet(128)
        /\ IsSeq(zeros) /\ Len(zeros) = z /\ \A i \in 1 .. z : zeros[i] = Zero
        /\ IsSeq(tail) /\ Len(tail) = 8
    <2>1. IsSeq(one) /\ Len(one) = 1 /\ one[1] = Octet(128)
      <3>1. one \in Seq({Octet(128)}) /\ Len(one) = 1 /\ one[1] = Octet(128)
        BY <1>1
      <3> QED
        BY <3>1 DEF IsSeq
    <2>2. IsSeq(zeros) /\ Len(zeros) = z /\ \A i \in 1 .. z : zeros[i] = Zero
      BY <1>1, <1>2, ZerosAreZero
    <2>3. IsSeq(tail) /\ Len(tail) = 8
      <3>1. PICK bits : bits = 8 * n
        OBVIOUS
      <3>2. tail = Octets(Bytes(bits, 8))
        BY <1>1, <3>1
      <3>3. IsNumber(tail, bits, 8)
        BY <3>2, OctetsOfBytes
      <3> QED
        BY <3>3 DEF IsNumber
    <2> QED
      BY <2>1, <2>2, <2>3
  <1>6. IsSeq(a) /\ Len(a) = n + 1 /\ a[n + 1] = Octet(128) /\ \A i \in 1 .. n : a[i] = m[i]
    <2>1. IsJoin(a, m, one)
      BY <1>3, <1>5, IsSeqConcat
    <2>2. 1 \in 1 .. 1
      OBVIOUS
    <2> QED
      BY <1>1, <1>5, <2>1, <2>2 DEF IsJoin
  <1>7. /\ IsSeq(b) /\ Len(b) = n + 1 + z
        /\ \A i \in 1 .. n + 1 : b[i] = a[i]
        /\ \A i \in 1 .. z : b[n + 1 + i] = Zero
    <2>1. IsJoin(b, a, zeros)
      BY <1>3, <1>5, <1>6, IsSeqConcat
    <2> QED
      BY <1>5, <1>6, <2>1 DEF IsJoin
  <1>8. /\ IsSeq(all) /\ Len(all) = n + 1 + z + 8
        /\ \A i \in 1 .. n + 1 + z : all[i] = b[i]
        /\ \A i \in 1 .. 8 : all[n + 1 + z + i] = tail[i]
    <2>1. IsJoin(all, b, tail)
      BY <1>4, <1>5, <1>7, IsSeqConcat
    <2> QED
      BY <1>5, <1>7, <2>1 DEF IsJoin
  <1>9. \A i \in 1 .. n : all[i] = m[i]
    <2>1. \A i \in 1 .. n : i \in 1 .. n + 1 /\ i \in 1 .. n + 1 + z
      BY <1>2
    <2> QED
      BY <1>6, <1>7, <1>8, <2>1
  <1>10. all[n + 1] = Octet(128)
    <2>1. n + 1 \in 1 .. n + 1 /\ n + 1 \in 1 .. n + 1 + z
      BY <1>2
    <2> QED
      BY <1>6, <1>7, <1>8, <2>1
  <1>11. ASSUME NEW i \in 1 .. size, n + 1 < i, i <= size - 8 PROVE all[i] = Zero
    <2>1. PICK k : k = i - (n + 1)
      OBVIOUS
    <2>2. k \in 1 .. z /\ i = n + 1 + k /\ i \in 1 .. n + 1 + z
      BY <1>2, <1>11, <2>1
    <2> QED
      BY <1>7, <1>8, <2>2
  <1>12. \A i \in 1 .. 8 : all[size - 8 + i] = tail[i]
    <2>1. size - 8 = n + 1 + z
      BY <1>2
    <2> QED
      BY <1>8, <2>1
  <1>13. IsSeq(all) /\ Len(all) = size
    BY <1>2, <1>8
  <1>14. Ending(all, n, size)
    BY <1>1, <1>10, <1>11, <1>12, <1>13 DEF Ending
  <1> QED
    BY <1>1, <1>9, <1>14

\* The bytes of a block after r bytes are stored, up to byte end.
Topped(data, r, end) ==
    [i \in 1 .. 64 |-> IF i = r + 1 THEN Octet(128)
                       ELSE IF i \in r + 2 .. end THEN Zero ELSE data[i]]

\* last is the first 56 bytes of data and the 8 of tail.
IsLast(last, data, tail) ==
    /\ last = [i \in 1 .. 64 |-> last[i]]
    /\ \A i \in Nat : 0 < i /\ i < 57 => last[i] = data[i]
    /\ \A i \in 1 .. 8 : last[56 + i] = tail[i]

LEMMA LastBlock ==
    ASSUME NEW data, NEW tail, IsSeq(data), Len(data) = 64, IsSeq(tail), Len(tail) = 8,
           NEW last, last = SubSeq(data, 1, 56) \o tail
    PROVE  IsLast(last, data, tail)
  <1>1. PICK front, k : front = SubSeq(data, 1, k) /\ k = 56
    OBVIOUS
  <1>2. IsPart(front, data, 1, k)
    <2>1. 1 \in Nat /\ k \in Nat /\ 0 < 1 /\ 1 <= k + 1 /\ k <= Len(data)
      BY <1>1
    <2> QED
      BY <1>1, <2>1, IsSeqPart
  <1>3. IsSeq(front) /\ Len(front) = k /\ \A i \in 1 .. k : front[i] = data[i]
    <2>1. k - 1 + 1 = k /\ \A i \in 1 .. k : 1 + i - 1 = i
      BY <1>1
    <2> QED
      BY <1>2, <2>1 DEF IsPart
  <1>4. IsJoin(last, front, tail)
    BY <1>1, <1>3, IsSeqConcat
  <1>5. /\ IsSeq(last) /\ Len(last) = k + 8
        /\ \A i \in 1 .. k : last[i] = front[i]
        /\ \A i \in 1 .. 8 : last[k + i] = tail[i]
    BY <1>3, <1>4 DEF IsJoin
  <1>6. last = [i \in 1 .. 64 |-> last[i]]
    <2>1. k + 8 = 64
      BY <1>1
    <2>2. Len(last) = 64
      BY <1>5, <2>1
    <2> QED
      BY <1>5, <2>2, IsSeqLen
  <1>7. \A i \in Nat : 0 < i /\ i < 57 => i \in 1 .. k
    BY <1>1
  <1>8. \A i \in Nat : 0 < i /\ i < 57 => last[i] = data[i]
    BY <1>3, <1>5, <1>7
  <1>9. \A i \in 1 .. 8 : last[56 + i] = tail[i]
    BY <1>1, <1>5
  <1> QED
    BY <1>6, <1>8, <1>9 DEF IsLast

LEMMA BlockIndex == \A i : i \in 1 .. 64 <=> i \in Nat /\ 0 < i /\ i < 65
  OBVIOUS

\* data begins with the first `count' bytes of block q of all.
Begins(data, all, q, count) ==
    /\ data = [i \in 1 .. 64 |-> data[i]]
    /\ \A i \in 1 .. 64 : i <= count => data[i] = all[64 * q + i]

\* last is block q of all, which is the last, after the n bytes of a message.
Finishes(last, all, q, n) ==
    \E data, tail : Begins(data, all, q, 56) /\ IsLast(last, data, tail) /\ tail = Octets(Bytes(8 * n, 8))

IsBlock(last, all, q) == \A i \in Nat : 0 < i /\ i < 65 => last[i] = all[64 * q + i]

LEMMA LastByte ==
    ASSUME NEW all, NEW n, NEW q \in Nat, Ending(all, n, 64 * (q + 1)),
           NEW last, Finishes(last, all, q, n)
    PROVE  IsBlock(last, all, q)
  <1> SUFFICES ASSUME NEW i \in Nat, 0 < i, i < 65
               PROVE  last[i] = all[64 * q + i]
    BY DEF IsBlock
  <1>0. PICK data, tail : Begins(data, all, q, 56) /\ IsLast(last, data, tail) /\ tail = Octets(Bytes(8 * n, 8))
    BY DEF Finishes
  <1>1. CASE i < 57
    <2>1. i \in 1 .. 64 /\ i <= 56
      BY <1>1
    <2>2. data[i] = all[64 * q + i]
      BY <1>0, <2>1 DEF Begins
    <2>3. last[i] = data[i]
      BY <1>0, <1>1 DEF IsLast
    <2> QED
      BY <2>2, <2>3
  <1>2. CASE ~(i < 57)
    <2>1. PICK k : k = i - 56
      OBVIOUS
    <2>2. k \in Nat /\ 0 < k /\ k < 9 /\ i = 56 + k
      BY <1>2, <2>1
    <2>3. k \in 1 .. 8
      BY <2>2
    <2>4. last[56 + k] = tail[k]
      BY <1>0, <2>3 DEF IsLast
    <2>5. all[64 * (q + 1) - 8 + k] = tail[k]
      BY <1>0, <2>3 DEF Ending
    <2>6. 64 * (q + 1) - 8 + k = 64 * q + i
      BY <2>2
    <2> QED
      BY <2>2, <2>4, <2>5, <2>6
  <1> QED
    BY <1>1, <1>2

\* The last block of all.
LEMMA LastIsNext ==
    ASSUME NEW all, NEW n, NEW q \in Nat, Ending(all, n, 64 * (q + 1)),
           NEW data, Begins(data, all, q, 56),
           NEW last, last = SubSeq(data, 1, 56) \o Octets(Bytes(8 * n, 8))
    PROVE  IsNext(all, q, last)
  <1>1. PICK bits, tail : bits = 8 * n /\ tail = Octets(Bytes(bits, 8))
    OBVIOUS
  <1>2. IsNumber(tail, bits, 8)
    BY <1>1, OctetsOfBytes
  <1>3. IsSeq(tail) /\ Len(tail) = 8
    BY <1>2 DEF IsNumber
  <1>4. IsSeq(data) /\ Len(data) = 64
    BY IsSeqFunction DEF Begins
  <1>5. last = SubSeq(data, 1, 56) \o tail
    BY <1>1
  <1>6. IsLast(last, data, tail)
    BY <1>3, <1>4, <1>5, LastBlock
  <1>7. 64 * (q + 1) <= Len(all)
    BY DEF Ending
  <1>8. tail = Octets(Bytes(8 * n, 8))
    BY <1>1
  <1>9. IsBlock(last, all, q)
    <2>1. Finishes(last, all, q, n)
      BY <1>6, <1>8 DEF Finishes
    <2> QED
      BY <2>1, LastByte
  <1>10. last = [i \in 1 .. 64 |-> last[i]]
    BY <1>6 DEF IsLast
  <1>11. \A i \in 1 .. 64 : last[i] = all[64 * q + i]
    BY <1>9, BlockIndex DEF IsBlock
  <1> QED
    BY <1>7, <1>10, <1>11 DEF IsNext

\* The bytes stored so far, the 1 bit and zeros are the next bytes of all.
LEMMA ToppedBytes ==
    ASSUME NEW all, NEW n, NEW size, NEW q, NEW r, NEW data, NEW end \in Nat, NEW filled,
           Ending(all, n, size), IsSize(size, n, q, r), Taken(data, all, q, r),
           r < end, end <= 64, 64 * q + end <= size - 8, filled = Topped(data, r, end)
    PROVE  Begins(filled, all, q, end)
  <1>1. filled = [i \in 1 .. 64 |-> filled[i]]
    BY DEF Topped
  <1>2. q \in Nat /\ r \in Nat /\ n = 64 * q + r /\ size \in Nat
    BY DEF IsSize
  <1>3. ASSUME NEW i \in 1 .. 64, i <= end PROVE filled[i] = all[64 * q + i]
    <2>0. i \in Nat
      OBVIOUS
    <2>1. CASE i = r + 1
      <3>1. filled[i] = Octet(128)
        BY <2>1 DEF Topped
      <3>2. 64 * q + i = n + 1
        BY <1>2, <2>1
      <3> QED
        BY <3>1, <3>2 DEF Ending
    <2>2. CASE r + 1 < i
      <3>1. i # r + 1 /\ i \in r + 2 .. end
        BY <1>2, <1>3, <2>2
      <3>2. filled[i] = Zero
        BY <3>1 DEF Topped
      <3>3. PICK k : k = 64 * q + i
        OBVIOUS
      <3>4. k \in 1 .. size /\ n + 1 < k /\ k <= size - 8
        BY <1>2, <1>3, <2>2, <3>3
      <3>5. all[k] = Zero
        BY <3>4 DEF Ending
      <3> QED
        BY <3>2, <3>3, <3>5
    <2>3. CASE i <= r
      <3>1. i # r + 1 /\ ~(i \in r + 2 .. end)
        BY <1>2, <2>3
      <3>2. filled[i] = data[i]
        BY <3>1 DEF Topped
      <3> QED
        BY <2>3, <3>2 DEF Taken
    <2> QED
      BY <1>2, <2>0, <2>1, <2>2, <2>3
  <1> QED
    BY <1>1, <1>3 DEF Begins

\* The steps of pad: the rest of the block, a block of zeros, the length.
WithEnd(h, end) == [h EXCEPT !.data = Topped(h.data, h.blocklen, end)]
Blank(data) == [i \in 1 .. 64 |-> IF i <= 56 THEN Zero ELSE data[i]]
NextData(t) == [Transform(t) EXCEPT !.data = Blank(@)]
WithLength(t, tail) == Transform([t EXCEPT !.data = SubSeq(@, 1, 56) \o tail])
BitsOf(h) == Octets(Bytes(h.bitlen + 8 * h.blocklen, 8))

LEMMA PadBlockSteps ==
    ASSUME NEW h
    PROVE  /\ h.blocklen < 56 => PadBlock(h) = WithLength(WithEnd(h, 56), BitsOf(h))
           /\ ~(h.blocklen < 56) => PadBlock(h) = WithLength(NextData(WithEnd(h, 64)), BitsOf(h))
  BY DEF PadBlock, WithEnd, Topped, Blank, NextData, WithLength, BitsOf

LEMMA TopHolds ==
    ASSUME NEW data, NEW r, NEW len, NEW blocks, NEW h, Holds(h, data, r, len, blocks),
           NEW end, NEW filled, filled = Topped(data, r, end), NEW t, t = WithEnd(h, end)
    PROVE  Holds(t, filled, r, len, blocks)
  <1>1. h = [data |-> data, blocklen |-> r, bitlen |-> len, blocks |-> blocks]
    BY DEF Holds
  <1>2. h.data = data /\ h.blocklen = r
    BY <1>1
  <1>3. t = [h EXCEPT !.data = filled]
    BY <1>2 DEF WithEnd
  <1>4. t = [data |-> filled, blocklen |-> r, bitlen |-> len, blocks |-> blocks]
    BY <1>1, <1>3
  <1> QED
    BY <1>4 DEF Holds

LEMMA FreshHolds ==
    ASSUME NEW data, NEW r, NEW len, NEW blocks, NEW t, Holds(t, data, r, len, blocks),
           NEW blank, blank = Blank(data), NEW more, more = Append(blocks, data),
           NEW e, e = NextData(t)
    PROVE  Holds(e, blank, r, len, more)
  <1>1. t = [data |-> data, blocklen |-> r, bitlen |-> len, blocks |-> blocks]
    BY DEF Holds
  <1>2. t.data = data /\ t.blocks = blocks
    BY <1>1
  <1>3. PICK u : u = Transform(t)
    OBVIOUS
  <1>4. u = [t EXCEPT !.blocks = more]
    BY <1>2, <1>3 DEF Transform
  <1>5. u = [data |-> data, blocklen |-> r, bitlen |-> len, blocks |-> more]
    BY <1>1, <1>4
  <1>6. u.data = data
    BY <1>5
  <1>7. e = [u EXCEPT !.data = blank]
    BY <1>3, <1>6 DEF NextData
  <1>8. e = [data |-> blank, blocklen |-> r, bitlen |-> len, blocks |-> more]
    BY <1>5, <1>7
  <1> QED
    BY <1>8 DEF Holds

LEMMA LastBlocks ==
    ASSUME NEW data, NEW r, NEW len, NEW blocks, NEW t, Holds(t, data, r, len, blocks),
           NEW tail, NEW last, last = SubSeq(data, 1, 56) \o tail
    PROVE  WithLength(t, tail).blocks = Append(blocks, last)
  <1>1. t = [data |-> data, blocklen |-> r, bitlen |-> len, blocks |-> blocks]
    BY DEF Holds
  <1>2. t.data = data
    BY <1>1
  <1>3. PICK u, more : u = [t EXCEPT !.data = last] /\ more = Append(blocks, last)
    OBVIOUS
  <1>4. u = [data |-> last, blocklen |-> r, bitlen |-> len, blocks |-> blocks]
    BY <1>1, <1>3
  <1>5. u.data = last /\ u.blocks = blocks
    BY <1>4
  <1>6. WithLength(t, tail) = Transform(u)
    BY <1>2, <1>3 DEF WithLength
  <1>7. Transform(u) = [u EXCEPT !.blocks = more]
    BY <1>3, <1>5 DEF Transform
  <1>8. Transform(u).blocks = more
    BY <1>4, <1>7
  <1> QED
    BY <1>3, <1>6, <1>8

\* pad makes the blocks of the standard of what update has stored.
LEMMA PadBlockBlocks ==
    ASSUME NEW all, IsSeq(all), NEW n, NEW q, NEW r, NEW size, IsSize(size, n, q, r),
           Ending(all, n, size), NEW h, Reads(h, all, q, r)
    PROVE  PadBlock(h).blocks = Blocks(all, size \div 64)
  <1>1. PICK data, len, blocks : data = h.data /\ len = 512 * q /\ blocks = Blocks(all, q)
    OBVIOUS
  <1>2. q \in Nat /\ r \in Nat /\ r < 64 /\ n = 64 * q + r
    BY DEF IsSize
  <1>3. h = [data |-> data, blocklen |-> r, bitlen |-> len, blocks |-> blocks] /\ Taken(data, all, q, r)
    BY <1>1 DEF Reads
  <1>4. h.blocklen = r /\ h.bitlen = len /\ Holds(h, data, r, len, blocks)
    BY <1>3 DEF Holds
  <1>5. PICK tail : tail = BitsOf(h)
    OBVIOUS
  <1>6. tail = Octets(Bytes(8 * n, 8))
    <2>1. h.bitlen + 8 * h.blocklen = 8 * n
      BY <1>1, <1>2, <1>4
    <2> QED
      BY <1>5, <2>1 DEF BitsOf
  <1>7. CASE r < 56
    <2>1. size = 64 * (q + 1)
      BY <1>7 DEF IsSize
    <2>2. PICK filled, t, last : filled = Topped(data, r, 56) /\ t = WithEnd(h, 56)
                                 /\ last = SubSeq(filled, 1, 56) \o tail
      OBVIOUS
    <2>3. PadBlock(h) = WithLength(t, tail)
      BY <1>4, <1>5, <1>7, <2>2, PadBlockSteps
    <2>4. Holds(t, filled, r, len, blocks)
      BY <1>4, <2>2, TopHolds
    <2>5. WithLength(t, tail).blocks = Append(blocks, last)
      <3>1. last = SubSeq(filled, 1, 56) \o tail
        BY <2>2
      <3> QED
        BY <2>4, <3>1, LastBlocks
    <2>6. Begins(filled, all, q, 56)
      <3>1. 56 \in Nat /\ r < 56 /\ 56 <= 64 /\ 64 * q + 56 <= size - 8
        BY <1>2, <1>7, <2>1
      <3> QED
        BY <1>3, <2>2, <3>1, ToppedBytes
    <2>7. IsNext(all, q, last)
      <3>1. last = SubSeq(filled, 1, 56) \o Octets(Bytes(8 * n, 8))
        BY <1>6, <2>2
      <3>2. Ending(all, n, 64 * (q + 1))
        BY <2>1
      <3> QED
        BY <1>2, <2>6, <3>1, <3>2, LastIsNext
    <2>8. Append(blocks, last) = Blocks(all, q + 1)
      BY <1>1, <1>2, <2>7, NextBlock
    <2>9. size \div 64 = q + 1
      BY <1>2, <2>1
    <2> QED
      BY <2>3, <2>5, <2>8, <2>9
  <1>8. CASE ~(r < 56)
    <2>1. size = 64 * (q + 2)
      BY <1>8 DEF IsSize
    <2>2. PICK filled, t, blank, e, last, more :
              /\ filled = Topped(data, r, 64) /\ t = WithEnd(h, 64)
              /\ blank = Blank(filled) /\ e = NextData(t) /\ more = Append(blocks, filled)
              /\ last = SubSeq(blank, 1, 56) \o tail
      OBVIOUS
    <2>3. PadBlock(h) = WithLength(e, tail)
      BY <1>4, <1>5, <1>8, <2>2, PadBlockSteps
    <2>4. Holds(t, filled, r, len, blocks)
      BY <1>4, <2>2, TopHolds
    <2>5. Holds(e, blank, r, len, more)
      BY <2>2, <2>4, FreshHolds
    <2>6. WithLength(e, tail).blocks = Append(more, last)
      <3>1. last = SubSeq(blank, 1, 56) \o tail
        BY <2>2
      <3> QED
        BY <2>5, <3>1, LastBlocks
    <2>7. Begins(filled, all, q, 64)
      <3>1. 64 \in Nat /\ r < 64 /\ 64 <= 64 /\ 64 * q + 64 <= size - 8
        BY <1>2, <2>1
      <3> QED
        BY <1>3, <2>2, <3>1, ToppedBytes
    <2>8. more = Blocks(all, q + 1)
      <3>1. 64 * (q + 1) <= Len(all)
        BY <1>2, <2>1 DEF Ending
      <3>2. \A i \in 1 .. 64 : i <= 64
        OBVIOUS
      <3>3. IsNext(all, q, filled)
        BY <2>7, <3>1, <3>2 DEF IsNext, Begins
      <3> QED
        BY <1>1, <1>2, <2>2, <3>3, NextBlock
    <2>9. PICK p : p = q + 1
      OBVIOUS
    <2>10. p \in Nat /\ size = 64 * (p + 1) /\ size \div 64 = p + 1 /\ more = Blocks(all, p)
      BY <1>2, <2>1, <2>8, <2>9
    <2>11. Begins(blank, all, p, 56)
      <3>1. blank = [i \in 1 .. 64 |-> blank[i]]
        BY <2>2 DEF Blank
      <3>2. ASSUME NEW i \in 1 .. 64, i <= 56 PROVE blank[i] = all[64 * p + i]
        <4>0. i \in Nat /\ 0 < i
          BY BlockIndex
        <4>1. blank[i] = Zero
          BY <2>2, <3>2 DEF Blank
        <4>2. PICK k : k = 64 * p + i
          OBVIOUS
        <4>3. k \in 1 .. size /\ n + 1 < k /\ k <= size - 8
          BY <1>2, <2>9, <2>10, <3>2, <4>0, <4>2
        <4>4. all[k] = Zero
          BY <4>3 DEF Ending
        <4> QED
          BY <4>1, <4>2, <4>4
      <3> QED
        BY <3>1, <3>2 DEF Begins
    <2>12. IsNext(all, p, last)
      <3>1. last = SubSeq(blank, 1, 56) \o Octets(Bytes(8 * n, 8))
        BY <1>6, <2>2
      <3>2. Ending(all, n, 64 * (p + 1))
        BY <2>10
      <3> QED
        BY <2>10, <2>11, <3>1, <3>2, LastIsNext
    <2>13. Append(more, last) = Blocks(all, p + 1)
      BY <2>10, <2>12, NextBlock
    <2> QED
      BY <2>3, <2>6, <2>10, <2>13
  <1> QED
    BY <1>7, <1>8

\* getDigest of SHA-1 hashes the 1 bit, the zeros and the length as bytes.
ZerosOf(t) == IF t.index > 56 THEN 64 - t.index + 56 ELSE 56 - t.index

LengthOf(h) == ZeroBytes(4) \o Octets(Bytes(8 * h.count, 4))

LEMMA ZeroCount ==
    ASSUME NEW n, NEW q, NEW r, NEW size, IsSize(size, n, q, r),
           NEW all, NEW t, AtSha1(t, all, n + 1), NEW z, z = ZerosOf(t)
    PROVE  z \in Nat /\ n \in Nat /\ n + 1 + z = size - 8
  <1>1. /\ q \in Nat /\ r \in Nat /\ r < 64 /\ n = 64 * q + r
        /\ r < 56 => size = 64 * (q + 1)
        /\ ~(r < 56) => size = 64 * (q + 2)
    BY DEF IsSize
  <1>2. PICK p, s : n + 1 = 64 * p + s /\ ReadsSha1(t, all, p, s)
    BY DEF AtSha1
  <1>3. p \in Nat /\ s \in Nat /\ s < 64 /\ t.index = s
    <2>1. p \in Nat /\ s \in Nat /\ s < 64
      BY <1>2 DEF ReadsSha1
    <2>2. PICK data, count, blocks : t = [block |-> data, index |-> s, count |-> count, blocks |-> blocks]
      BY <1>2 DEF ReadsSha1
    <2> QED
      BY <2>1, <2>2
  <1>4. z = IF s > 56 THEN 64 - s + 56 ELSE 56 - s
    BY <1>3 DEF ZerosOf
  <1>5. 64 * p + s = 64 * q + r + 1
    BY <1>1, <1>2
  <1>6. CASE r < 63
    <2>1. s = r + 1 /\ p = q
      BY <1>1, <1>3, <1>5, <1>6
    <2> QED
      BY <1>1, <1>3, <1>4, <2>1
  <1>7. CASE ~(r < 63)
    <2>1. s = 0 /\ p = q + 1 /\ r = 63
      BY <1>1, <1>3, <1>5, <1>7
    <2> QED
      BY <1>1, <1>3, <1>4, <2>1
  <1> QED
    BY <1>6, <1>7

LEMMA Sha1DigestSteps ==
    ASSUME NEW h, NEW t, NEW padded, NEW whole, NEW length,
           t = ProcessByte(h, Octet(128)), padded = ProcessBytes(t, ZeroBytes(ZerosOf(t))),
           length = LengthOf(h), whole = ProcessBytes(padded, length)
    PROVE  Sha1Digest(h) = DigestOf(whole.blocks, 20)
  BY DEF Sha1Digest, ZerosOf, LengthOf

\* getDigest makes the blocks of the standard of what processBytes has stored.
LEMMA Sha1DigestBlocks ==
    ASSUME NEW all, IsSeq(all), NEW n, NEW q, NEW r, NEW size, IsSize(size, n, q, r),
           Ending(all, n, size), NEW h, AtSha1(h, all, n)
    PROVE  Sha1Digest(h) = DigestOf(Blocks(all, size \div 64), 20)
  <1>1. /\ q \in Nat /\ r \in Nat /\ r < 64 /\ n = 64 * q + r
        /\ n + 9 <= size /\ size \in Nat /\ Len(all) = size
    <2>1. q \in Nat /\ r \in Nat /\ r < 64 /\ n = 64 * q + r
      BY DEF IsSize
    <2>2. n + 9 <= size /\ size \in Nat
      <3>1. CASE r < 56
        BY <2>1, <3>1 DEF IsSize
      <3>2. CASE ~(r < 56)
        BY <2>1, <3>2 DEF IsSize
      <3> QED
        BY <3>1, <3>2
    <2>3. Len(all) = size
      BY DEF Ending
    <2> QED
      BY <2>1, <2>2, <2>3
  <1>2. PICK one, t, z, zeros, padded, bits, length, whole :
            /\ one = Octet(128) /\ t = ProcessByte(h, one) /\ z = ZerosOf(t)
            /\ zeros = ZeroBytes(z) /\ padded = ProcessBytes(t, zeros)
            /\ bits = 8 * n /\ length = ZeroBytes(4) \o Octets(Bytes(bits, 4))
            /\ whole = ProcessBytes(padded, length)
    OBVIOUS
  <1>3. h.count = n
    <2>1. PICK p, s : n = 64 * p + s /\ ReadsSha1(h, all, p, s)
      BY DEF AtSha1
    <2>2. PICK data, blocks, count : h = [block |-> data, index |-> s, count |-> count, blocks |-> blocks]
                                     /\ count = 64 * p + s
      BY <2>1 DEF ReadsSha1
    <2> QED
      BY <2>1, <2>2
  <1>4. Sha1Digest(h) = DigestOf(whole.blocks, 20)
    <2>1. length = LengthOf(h)
      BY <1>2, <1>3 DEF LengthOf
    <2>2. /\ t = ProcessByte(h, Octet(128)) /\ padded = ProcessBytes(t, ZeroBytes(ZerosOf(t)))
          /\ whole = ProcessBytes(padded, length)
      BY <1>2
    <2> QED
      BY <2>1, <2>2, Sha1DigestSteps
  <1>5. AtSha1(t, all, n + 1)
    <2>1. n + 1 <= Len(all)
      BY <1>1
    <2>2. one = all[n + 1]
      BY <1>2 DEF Ending
    <2>3. t = ProcessByte(h, one)
      BY <1>2
    <2> QED
      BY <2>1, <2>2, <2>3, ProcessByteAt
  <1>6. z \in Nat /\ n + 1 + z = size - 8
    BY <1>2, <1>5, ZeroCount
  <1>7. AtSha1(padded, all, size - 8)
    <2>1. PICK k : k = n + 1
      OBVIOUS
    <2>2. k \in Nat /\ k + z = size - 8
      BY <1>1, <1>6, <2>1
    <2>3. IsSeq(zeros) /\ Len(zeros) = z /\ \A i \in 1 .. z : zeros[i] = Zero
      BY <1>2, <1>6, ZerosAreZero
    <2>4. ASSUME NEW i \in 1 .. z PROVE zeros[i] = all[k + i]
      <3>1. PICK j : j = k + i
        OBVIOUS
      <3>2. j \in 1 .. size /\ n + 1 < j /\ j <= size - 8
        BY <1>1, <1>6, <2>1, <2>2, <3>1
      <3>3. all[j] = Zero
        BY <3>2 DEF Ending
      <3> QED
        BY <2>3, <3>1, <3>3
    <2>5. k + Len(zeros) <= Len(all)
      BY <1>1, <2>2, <2>3
    <2>6. IsPieceAt(zeros, all, k)
      BY <2>3, <2>4, <2>5 DEF IsPieceAt
    <2>7. AtSha1(t, all, k) /\ padded = ProcessBytes(t, zeros)
      BY <1>2, <1>5, <2>1
    <2>8. AtSha1(padded, all, k + Len(zeros))
      BY <2>2, <2>6, <2>7, ProcessBytesAt
    <2> QED
      BY <2>2, <2>3, <2>8
  <1>8. AtSha1(whole, all, size)
    <2>1. PICK k : k = size - 8
      OBVIOUS
    <2>2. k \in Nat /\ k + 8 = size
      BY <1>1, <2>1
    <2>3. length = Octets(Bytes(bits, 8))
      BY <1>2, LengthIsTail
    <2>4. IsNumber(length, bits, 8)
      BY <2>3, OctetsOfBytes
    <2>5. IsSeq(length) /\ Len(length) = 8
      BY <2>4 DEF IsNumber
    <2>6. \A i \in 1 .. 8 : all[k + i] = length[i]
      BY <1>2, <2>1, <2>3 DEF Ending
    <2>7. k + Len(length) <= Len(all) /\ k + Len(length) = size
      BY <1>1, <2>2, <2>5
    <2>8. IsPieceAt(length, all, k)
      BY <2>5, <2>6, <2>7 DEF IsPieceAt
    <2>9. AtSha1(padded, all, k) /\ whole = ProcessBytes(padded, length)
      BY <1>2, <1>7, <2>1
    <2>10. AtSha1(whole, all, k + Len(length))
      BY <2>2, <2>8, <2>9, ProcessBytesAt
    <2> QED
      BY <2>7, <2>10
  <1>9. whole.blocks = Blocks(all, size \div 64)
    <2>1. PICK p, s : size = 64 * p + s /\ ReadsSha1(whole, all, p, s)
      BY <1>8 DEF AtSha1
    <2>2. p \in Nat /\ s \in Nat /\ s < 64
      BY <2>1 DEF ReadsSha1
    <2>3. \E j \in Nat : size = 64 * j
      <3>1. size = 64 * (q + 1) \/ size = 64 * (q + 2)
        BY DEF IsSize
      <3>2. q + 1 \in Nat /\ q + 2 \in Nat
        BY <1>1
      <3> QED
        BY <3>1, <3>2
    <2>4. size \div 64 = p
      BY <2>1, <2>2, <2>3
    <2>5. PICK data, count, blocks : whole = [block |-> data, index |-> s, count |-> count, blocks |-> blocks]
                                     /\ blocks = Blocks(all, p)
      BY <2>1 DEF ReadsSha1
    <2> QED
      BY <2>4, <2>5
  <1> QED
    BY <1>4, <1>9

\* Every length has a size in whole blocks.
LEMMA SizeExists ==
    ASSUME NEW n \in Nat
    PROVE  \E q, r, size : IsSize(size, n, q, r)
  <1>1. PICK q, r, size : q = n \div 64 /\ r = n % 64 /\ size = IF r < 56 THEN 64 * (q + 1) ELSE 64 * (q + 2)
    OBVIOUS
  <1>2. q \in Nat /\ r \in Nat /\ r < 64 /\ n = 64 * q + r
    BY <1>1
  <1>3. IsSize(size, n, q, r)
    BY <1>1, <1>2 DEF IsSize
  <1> QED
    BY <1>3

LEMMA ReadsAt ==
    ASSUME NEW all, NEW n, NEW q, NEW r, NEW size, IsSize(size, n, q, r), NEW h, At(h, all, n)
    PROVE  Reads(h, all, q, r)
  <1>1. PICK p, s : n = 64 * p + s /\ Reads(h, all, p, s)
    BY DEF At
  <1>2. p \in Nat /\ s \in Nat /\ s < 64
    BY <1>1 DEF Reads
  <1>3. q \in Nat /\ r \in Nat /\ r < 64 /\ n = 64 * q + r
    BY DEF IsSize
  <1>4. p = q /\ s = r
    BY <1>1, <1>2, <1>3
  <1> QED
    BY <1>1, <1>4

\* A hash that has been given all of a message gives the standard's digest.
LEMMA StandardBlocks ==
    ASSUME NEW m, IsSeq(m), NEW all, all = Padded(m)
    PROVE  /\ IsSeq(all) /\ Len(m) <= Len(all) /\ \A i \in 1 .. Len(m) : all[i] = m[i]
           /\ \A h : At(h, all, Len(m)) => Sha256Digest(h) = DigestOf(BlocksOf(m), 32)
           /\ \A h : AtSha1(h, all, Len(m)) => Sha1Digest(h) = DigestOf(BlocksOf(m), 20)
  <1>1. PICK n : n = Len(m)
    OBVIOUS
  <1>2. n \in Nat
    BY <1>1, IsSeqLen
  <1>3. PICK q, r, size : IsSize(size, n, q, r)
    BY <1>2, SizeExists
  <1>4. Ending(all, n, size) /\ \A i \in 1 .. n : all[i] = m[i]
    BY <1>1, <1>3, PaddedEnds
  <1>5. IsSeq(all) /\ Len(all) = size
    BY <1>4 DEF Ending
  <1>6. n <= size
    BY <1>3 DEF IsSize
  <1>7. BlocksOf(m) = Blocks(all, size \div 64)
    BY <1>5 DEF BlocksOf, Blocks
  <1>8. ASSUME NEW h, At(h, all, n) PROVE Sha256Digest(h) = DigestOf(BlocksOf(m), 32)
    <2>1. Reads(h, all, q, r)
      BY <1>3, <1>8, ReadsAt
    <2>2. PadBlock(h).blocks = Blocks(all, size \div 64)
      BY <1>3, <1>4, <1>5, <2>1, PadBlockBlocks
    <2> QED
      BY <1>7, <2>2 DEF Sha256Digest
  <1>9. ASSUME NEW h, AtSha1(h, all, n) PROVE Sha1Digest(h) = DigestOf(BlocksOf(m), 20)
    BY <1>3, <1>4, <1>5, <1>7, <1>9, Sha1DigestBlocks
  <1> QED
    BY <1>1, <1>4, <1>5, <1>6, <1>8, <1>9

\* However a message is cut in two, its digests are the standard's.
LEMMA TwoPieces ==
    ASSUME NEW a, IsSeq(a), NEW b, IsSeq(b), NEW m, IsJoin(m, a, b)
    PROVE  /\ Sha256Digest(Update(Update(Sha256, a), b)) = DigestOf(BlocksOf(m), 32)
           /\ Sha1Digest(ProcessBytes(ProcessBytes(Sha1, a), b)) = DigestOf(BlocksOf(m), 20)
  <1>1. PICK la, lb, all : la = Len(a) /\ lb = Len(b) /\ all = Padded(m)
    OBVIOUS
  <1>2. la \in Nat /\ lb \in Nat
    BY <1>1, IsSeqLen
  <1>3. /\ IsSeq(m) /\ Len(m) = la + lb
        /\ \A i \in 1 .. la : m[i] = a[i]
        /\ \A i \in 1 .. lb : m[la + i] = b[i]
    BY <1>1 DEF IsJoin
  <1>4. IsSeq(all) /\ Len(m) <= Len(all) /\ \A i \in 1 .. Len(m) : all[i] = m[i]
    BY <1>1, <1>3, StandardBlocks
  <1>5. Len(all) \in Nat
    BY <1>4, IsSeqLen
  <1>6. IsPieceAt(a, all, 0)
    <2>1. \A i \in 1 .. la : i \in 1 .. Len(m) /\ 0 + i = i
      BY <1>2, <1>3
    <2>2. \A i \in 1 .. la : a[i] = all[0 + i]
      BY <1>3, <1>4, <2>1
    <2>3. 0 + la <= Len(all)
      BY <1>2, <1>3, <1>4, <1>5
    <2> QED
      BY <1>1, <2>2, <2>3 DEF IsPieceAt
  <1>7. IsPieceAt(b, all, la)
    <2>1. \A i \in 1 .. lb : la + i \in 1 .. Len(m)
      BY <1>2, <1>3
    <2>2. \A i \in 1 .. lb : b[i] = all[la + i]
      BY <1>3, <1>4, <2>1
    <2>3. la + lb <= Len(all)
      BY <1>3, <1>4
    <2> QED
      BY <1>1, <2>2, <2>3 DEF IsPieceAt
  <1>8. Sha256Digest(Update(Update(Sha256, a), b)) = DigestOf(BlocksOf(m), 32)
    <2>1. PICK s, t, u : s = Sha256 /\ t = Update(s, a) /\ u = Update(t, b)
      OBVIOUS
    <2>2. At(s, all, 0) /\ 0 \in Nat
      BY <2>1, NoBytes
    <2>3. At(t, all, 0 + Len(a))
      BY <1>4, <1>6, <2>1, <2>2, UpdateAt
    <2>4. At(t, all, la)
      BY <1>1, <1>2, <2>3
    <2>5. At(u, all, la + Len(b))
      BY <1>2, <1>4, <1>7, <2>1, <2>4, UpdateAt
    <2>6. At(u, all, Len(m))
      BY <1>1, <1>3, <2>5
    <2> QED
      BY <1>1, <1>3, <2>1, <2>6, StandardBlocks
  <1>9. Sha1Digest(ProcessBytes(ProcessBytes(Sha1, a), b)) = DigestOf(BlocksOf(m), 20)
    <2>1. PICK s, t, u : s = Sha1 /\ t = ProcessBytes(s, a) /\ u = ProcessBytes(t, b)
      OBVIOUS
    <2>2. AtSha1(s, all, 0) /\ 0 \in Nat
      BY <2>1, NoBytes
    <2>3. AtSha1(t, all, 0 + Len(a))
      BY <1>4, <1>6, <2>1, <2>2, ProcessBytesAt
    <2>4. AtSha1(t, all, la)
      BY <1>1, <1>2, <2>3
    <2>5. AtSha1(u, all, la + Len(b))
      BY <1>2, <1>4, <1>7, <2>1, <2>4, ProcessBytesAt
    <2>6. AtSha1(u, all, Len(m))
      BY <1>1, <1>3, <2>5
    <2> QED
      BY <1>1, <1>3, <2>1, <2>6, StandardBlocks
  <1> QED
    BY <1>8, <1>9

LEMMA OnePiece ==
    ASSUME NEW m, IsSeq(m)
    PROVE  Sha256Digest(Update(Sha256, m)) = StandardHash(m)
  <1>1. PICK n, all : n = Len(m) /\ all = Padded(m)
    OBVIOUS
  <1>2. n \in Nat
    BY <1>1, IsSeqLen
  <1>3. IsSeq(all) /\ n <= Len(all) /\ \A i \in 1 .. n : all[i] = m[i]
    BY <1>1, StandardBlocks
  <1>4. IsPieceAt(m, all, 0)
    <2>1. \A i \in 1 .. n : m[i] = all[0 + i]
      BY <1>2, <1>3
    <2>2. 0 + n <= Len(all)
      BY <1>2, <1>3
    <2> QED
      BY <1>1, <2>1, <2>2 DEF IsPieceAt
  <1>5. PICK s, t : s = Sha256 /\ t = Update(s, m)
    OBVIOUS
  <1>6. At(s, all, 0) /\ 0 \in Nat
    BY <1>5, NoBytes
  <1>7. At(t, all, 0 + Len(m))
    BY <1>3, <1>4, <1>5, <1>6, UpdateAt
  <1>8. At(t, all, Len(m))
    BY <1>1, <1>2, <1>7
  <1> QED
    BY <1>1, <1>5, <1>8, StandardBlocks DEF StandardHash

LEMMA DigestIsSeq ==
    ASSUME NEW blocks, NEW size \in Nat, NEW d, d = DigestOf(blocks, size)
    PROVE  IsSeq(d) /\ Len(d) = size
  <1>1. d = [i \in 1 .. size |-> d[i]]
    BY DEF DigestOf
  <1> QED
    BY <1>1, IsSeqFunction

\* HMAC: the key, hashed if it is longer than a block, masked.
Short(key) == IF Len(key) > 64 THEN Sha256Digest(Update(Sha256, key)) ELSE key
Masked(short, n) == [i \in 1 .. 64 |-> Xored(IF i <= Len(short) THEN short[i] ELSE Zero, n)]
Inner(short, msg) == Sha256Digest(Update(Update(Sha256, Masked(short, 54)), msg))

LEMMA HmacSteps ==
    ASSUME NEW key, NEW msg, NEW short, short = Short(key)
    PROVE  HmacSha256(key, msg) = Sha256Digest(Update(Update(Sha256, Masked(short, 92)), Inner(short, msg)))
  BY DEF HmacSha256, Short, Masked, Inner

LEMMA StandardHmacSteps ==
    ASSUME NEW key, NEW msg, NEW short, short = IF Len(key) > 64 THEN StandardHash(key) ELSE key
    PROVE  StandardHmac(key, msg) = StandardHash(Masked(short, 92) \o StandardHash(Masked(short, 54) \o msg))
  BY DEF StandardHmac, Masked

LEMMA MaskedIsSeq ==
    ASSUME NEW short, NEW n, NEW s, s = Masked(short, n)
    PROVE  IsSeq(s)
  <1>1. s = [i \in 1 .. 64 |-> s[i]]
    BY DEF Masked
  <1> QED
    BY <1>1, IsSeqFunction

LEMMA HashOfTwo ==
    ASSUME NEW a, IsSeq(a), NEW b, IsSeq(b)
    PROVE  Sha256Digest(Update(Update(Sha256, a), b)) = StandardHash(a \o b)
  <1>1. PICK m : m = a \o b
    OBVIOUS
  <1>2. IsJoin(m, a, b)
    BY <1>1, IsSeqConcat
  <1> QED
    BY <1>1, <1>2, TwoPieces DEF StandardHash

\* The code of a challenge is the HMAC of the standard.
LEMMA HmacIsStandard ==
    ASSUME NEW key, IsSeq(key), NEW msg, IsSeq(msg)
    PROVE  HmacSha256(key, msg) = StandardHmac(key, msg)
  <1>1. PICK short, outer, inner :
            short = Short(key) /\ outer = Masked(short, 92) /\ inner = Masked(short, 54)
    OBVIOUS
  <1>2. short = IF Len(key) > 64 THEN StandardHash(key) ELSE key
    BY <1>1, OnePiece DEF Short
  <1>3. IsSeq(outer) /\ IsSeq(inner)
    BY <1>1, MaskedIsSeq
  <1>4. PICK hash : hash = Inner(short, msg)
    OBVIOUS
  <1>5. hash = StandardHash(inner \o msg)
    BY <1>1, <1>3, <1>4, HashOfTwo DEF Inner
  <1>6. IsSeq(hash)
    <2>1. PICK blocks : hash = DigestOf(blocks, 32)
      BY <1>5 DEF StandardHash
    <2> QED
      BY <2>1, DigestIsSeq
  <1>7. HmacSha256(key, msg) = Sha256Digest(Update(Update(Sha256, outer), hash))
    BY <1>1, <1>4, HmacSteps
  <1>8. Sha256Digest(Update(Update(Sha256, outer), hash)) = StandardHash(outer \o hash)
    BY <1>3, <1>6, HashOfTwo
  <1>9. StandardHmac(key, msg) = StandardHash(outer \o StandardHash(inner \o msg))
    BY <1>1, <1>2, StandardHmacSteps
  <1> QED
    BY <1>5, <1>7, <1>8, <1>9

\* A message is its two pieces.
LEMMA CutIsJoin ==
    ASSUME NEW m, IsSeq(m), NEW cut \in Nat, cut <= Len(m),
           NEW a, a = SubSeq(m, 1, cut), NEW b, b = SubSeq(m, cut + 1, Len(m))
    PROVE  IsSeq(a) /\ IsSeq(b) /\ IsJoin(m, a, b)
  <1>1. PICK n, k : n = Len(m) /\ k = cut + 1
    OBVIOUS
  <1>2. n \in Nat /\ k \in Nat /\ 0 < k /\ k <= n + 1 /\ cut <= n
    BY <1>1, IsSeqLen
  <1>3. IsPart(a, m, 1, cut)
    <2>1. 1 \in Nat /\ 0 < 1 /\ 1 <= cut + 1
      OBVIOUS
    <2> QED
      BY <2>1, IsSeqPart
  <1>4. IsPart(b, m, k, n)
    <2>1. b = SubSeq(m, k, n)
      BY <1>1
    <2>2. n <= Len(m)
      BY <1>1, <1>2
    <2> QED
      BY <1>2, <2>1, <2>2, IsSeqPart
  <1>5. IsSeq(a) /\ Len(a) = cut /\ \A i \in 1 .. cut : a[i] = m[i]
    <2>1. cut - 1 + 1 = cut /\ \A i \in 1 .. cut : 1 + i - 1 = i
      OBVIOUS
    <2> QED
      BY <1>3, <2>1 DEF IsPart
  <1>6. IsSeq(b) /\ Len(b) = n - cut /\ \A i \in 1 .. n - cut : b[i] = m[cut + i]
    <2>1. n - k + 1 = n - cut /\ \A i \in 1 .. n - cut : k + i - 1 = cut + i
      BY <1>1, <1>2
    <2> QED
      BY <1>4, <2>1 DEF IsPart
  <1>7. Len(m) = Len(a) + Len(b)
    <2>1. n = cut + (n - cut)
      BY <1>2
    <2> QED
      BY <1>1, <1>5, <1>6, <2>1
  <1> QED
    BY <1>5, <1>6, <1>7 DEF IsJoin

----------------------------------------------------------------------------
(* The properties.                                                         *)

\* What base64Encode and the encoder of the handshake write for any bytes is
\* read back by base64Decode, with and without blanks, and not after another
\* character; the hexadecimal form of a token, a peer id or a nonce tells all
\* of its bytes.
THEOREM BytesRoundTrip == ConversionSpec => []Base64RoundTrip
  <1>1. job = Idle => Base64RoundTrip
    BY DEF Idle, Base64RoundTrip
  <1>2. ASSUME Encode64 PROVE Base64RoundTrip'
    <2>1. PICK bytes \in ByteStrings :
              LET text == Base64Encode(bytes)
              IN job' = [kind |-> "base64", bytes |-> bytes, text |-> text,
                         crow |-> CrowBase64Encode(bytes), read |-> Base64Decode(text),
                         spaced |-> Base64Decode(Spaced(text)),
                         spoilt |-> Base64Decode(<<Other>> \o text), hex |-> ToHex(bytes)]
      BY <1>2 DEF Encode64
    <2>2. bytes \in Seq(Byte)
      BY InputAssumption
    <2>3. PICK text : text = Base64Encode(bytes)
      OBVIOUS
    <2>4. /\ job'.bytes = bytes /\ job'.text = text /\ job'.crow = CrowBase64Encode(bytes)
          /\ job'.read = Base64Decode(text) /\ job'.spaced = Base64Decode(Spaced(text))
          /\ job'.spoilt = Base64Decode(<<Other>> \o text) /\ job'.hex = ToHex(bytes)
      BY <2>1, <2>3
    <2>5. job'.crow = job'.text /\ text \in Seq(Nat)
      BY <2>2, <2>3, <2>4, TextType
    <2>6. job'.read.ok /\ job'.read.out = job'.bytes
      BY <2>2, <2>3, <2>4, TextIsRead
    <2>7. job'.spaced.ok /\ job'.spaced.out = job'.bytes
      BY <2>2, <2>3, <2>4, BlanksAreSkipped
    <2>8. ~job'.spoilt.ok
      BY <2>4, <2>5, OtherStops
    <2>9. /\ Len(job'.hex) = 2 * Len(job'.bytes)
          /\ \A i \in DOMAIN job'.bytes : job'.bytes[i] = 16 * job'.hex[2 * i - 1] + job'.hex[2 * i]
      BY <2>2, <2>4, HexDigitsOfBytes
    <2> QED
      BY <2>5, <2>6, <2>7, <2>8, <2>9 DEF Base64RoundTrip
  <1>3. ASSUME CleanPath \/ TestProof \/ Hash PROVE Base64RoundTrip'
    <2>1. job'.kind \in {"path", "proof", "hash"}
      BY <1>3 DEF CleanPath, TestProof, Hash
    <2> QED
      BY <2>1 DEF Base64RoundTrip
  <1>4. ASSUME Base64RoundTrip, job' = job PROVE Base64RoundTrip'
    BY <1>4 DEF Base64RoundTrip
  <1>5. Base64RoundTrip /\ [job.kind = "none" /\ Convert]_job => Base64RoundTrip'
    BY <1>2, <1>3, <1>4 DEF Convert
  <1> QED
    BY <1>1, <1>5, PTL DEF ConversionSpec

\* sanitize_filename keeps every path of a static file in its directory, and
\* leaves what it has cleaned as it is.
THEOREM PathsStayInside == ConversionSpec => []StaticPathsStayInside
  <1>1. job = Idle => StaticPathsStayInside
    BY DEF Idle, StaticPathsStayInside
  <1>2. ASSUME CleanPath PROVE StaticPathsStayInside'
    <2>1. PICK path \in Paths :
              job' = [kind |-> "path", path |-> path, clean |-> SanitizeFilename(path),
                      again |-> SanitizeFilename(SanitizeFilename(path))]
      BY <1>2 DEF CleanPath
    <2>2. PICK clean : clean = SanitizeFilename(path)
      OBVIOUS
    <2>3. job'.clean = clean /\ job'.again = SanitizeFilename(clean)
      BY <2>1, <2>2
    <2>4. path \in Seq(STRING)
      BY InputAssumption
    <2>5. Clean(clean) /\ Len(clean) <= MaxPath /\ SanitizeFilename(clean) = clean
      BY <2>2, <2>4, PathStaysInside
    <2>6. ASSUME NEW i \in 1 .. Len(clean) - 1, clean[i] = ".", clean[i + 1] = ".",
                 i - 1 = 0 \/ i - 1 > Len(clean) \/ clean[i - 1] \in Separators
          PROVE  ~(i + 2 = 0 \/ i + 2 > Len(clean) \/ clean[i + 2] \in Separators)
      <3>1. Len(clean) \in Nat
        BY <2>5, LenProperties DEF Clean
      <3>2. i \in Nat /\ i < Len(clean)
        BY <3>1
      <3>3. i = 1 \/ clean[i - 1] \in Separators
        BY <2>6, <3>1, <3>2
      <3>4. i + 2 <= Len(clean) /\ clean[i + 2] \notin Separators
        BY <2>5, <2>6, <3>3, NoParent
      <3> QED
        BY <3>1, <3>2, <3>4
    <2>7. clean # <<>> => clean[1] \notin Separators
      <3>1. clean \in Seq(Char)
        BY <2>5 DEF Clean
      <3>2. clean # <<>> => Len(clean) \in Nat \ {0}
        BY <3>1, EmptySeq
      <3>3. clean # <<>> => 1 \in 1 .. Len(clean)
        BY <3>2
      <3> QED
        BY <2>5, <3>3 DEF Clean, CleanUpTo
    <2> QED
      BY <2>3, <2>5, <2>6, <2>7 DEF StaticPathsStayInside
  <1>3. ASSUME Encode64 \/ TestProof \/ Hash PROVE StaticPathsStayInside'
    <2>1. job'.kind \in {"base64", "proof", "hash"}
      BY <1>3 DEF Encode64, TestProof, Hash
    <2> QED
      BY <2>1 DEF StaticPathsStayInside
  <1>4. ASSUME StaticPathsStayInside, job' = job PROVE StaticPathsStayInside'
    BY <1>4 DEF StaticPathsStayInside
  <1>5. StaticPathsStayInside /\ [job.kind = "none" /\ Convert]_job => StaticPathsStayInside'
    BY <1>2, <1>3, <1>4 DEF Convert
  <1> QED
    BY <1>1, <1>5, PTL DEF ConversionSpec

\* SHA-256 and SHA-1 hash a message of any length, in two pieces cut anywhere,
\* with the padding of the standard, hmacSha256 is the HMAC of the standard,
\* and the difficulty of a proof counts its leading zero bits.
THEOREM DigestsStandard == ConversionSpec => []DigestsAreStandard
  <1>1. job = Idle => DigestsAreStandard
    BY DEF Idle, DigestsAreStandard
  <1>2. ASSUME Hash PROVE DigestsAreStandard'
    <2>0. PICK msg \in Messages : \E cut \in Cuts \cap (0 .. Len(msg)) :
              LET front == SubSeq(msg, 1, cut)
                  back == SubSeq(msg, cut + 1, Len(msg))
              IN job' = [kind |-> "hash", msg |-> msg, front |-> front, back |-> back,
                         sha256 |-> Sha256Digest(Update(Update(Sha256, front), back)),
                         sha1 |-> Sha1Digest(ProcessBytes(ProcessBytes(Sha1, front), back)),
                         hmac |-> HmacSha256(front, back)]
      BY <1>2 DEF Hash
    <2>1. PICK cut \in Cuts \cap (0 .. Len(msg)) :
              LET front == SubSeq(msg, 1, cut)
                  back == SubSeq(msg, cut + 1, Len(msg))
              IN job' = [kind |-> "hash", msg |-> msg, front |-> front, back |-> back,
                         sha256 |-> Sha256Digest(Update(Update(Sha256, front), back)),
                         sha1 |-> Sha1Digest(ProcessBytes(ProcessBytes(Sha1, front), back)),
                         hmac |-> HmacSha256(front, back)]
      BY <2>0
    <2>2. PICK front, back : front = SubSeq(msg, 1, cut) /\ back = SubSeq(msg, cut + 1, Len(msg))
      OBVIOUS
    <2>3. IsSeq(msg)
      BY InputAssumption DEF IsSeq
    <2>4. cut \in Nat /\ cut <= Len(msg)
      BY <2>3, IsSeqLen
    <2>5. IsSeq(front) /\ IsSeq(back) /\ IsJoin(msg, front, back)
      BY <2>2, <2>3, <2>4, CutIsJoin
    <2>6. PICK sha256, sha1, hmac :
              /\ sha256 = Sha256Digest(Update(Update(Sha256, front), back))
              /\ sha1 = Sha1Digest(ProcessBytes(ProcessBytes(Sha1, front), back))
              /\ hmac = HmacSha256(front, back)
      OBVIOUS
    <2>7. job' = [kind |-> "hash", msg |-> msg, front |-> front, back |-> back,
                  sha256 |-> sha256, sha1 |-> sha1, hmac |-> hmac]
      BY <2>1, <2>2, <2>6
    <2>8. /\ sha256 = DigestOf(BlocksOf(msg), 32) /\ sha1 = DigestOf(BlocksOf(msg), 20)
          /\ hmac = StandardHmac(front, back)
      BY <2>5, <2>6, TwoPieces, HmacIsStandard
    <2>9. /\ job'.kind = "hash" /\ job'.msg = msg /\ job'.front = front /\ job'.back = back
          /\ job'.sha256 = sha256 /\ job'.sha1 = sha1 /\ job'.hmac = hmac
      BY <2>7
    <2> QED
      BY <2>8, <2>9 DEF DigestsAreStandard
  <1>3. ASSUME TestProof PROVE DigestsAreStandard'
    <2>1. PICK digest \in Digests : \E bits \in 0 .. 8 * Len(digest) :
              job' = [kind |-> "proof", digest |-> digest, bits |-> bits,
                      meets |-> MeetsDifficulty(digest, bits)]
      BY <1>3 DEF TestProof
    <2>2. PICK bits \in 0 .. 8 * Len(digest) :
              job' = [kind |-> "proof", digest |-> digest, bits |-> bits,
                      meets |-> MeetsDifficulty(digest, bits)]
      BY <2>1
    <2>3. digest \in Seq(Byte)
      BY InputAssumption
    <2>4. PICK meets : meets = MeetsDifficulty(digest, bits)
      OBVIOUS
    <2>5. meets <=> \A i \in 1 .. bits : BitAt(digest, i) = 0
      BY <2>3, <2>4, DifficultyIsBits
    <2>6. job'.kind = "proof" /\ job'.digest = digest /\ job'.bits = bits /\ job'.meets = meets
      BY <2>2, <2>4
    <2>7. meets <=> \A i \in 1 .. bits : (digest[(i - 1) \div 8 + 1] \div 2 ^ (7 - ((i - 1) % 8))) % 2 = 0
      BY <2>5 DEF BitAt, BitOf
    <2> QED
      BY <2>6, <2>7 DEF DigestsAreStandard
  <1>4. ASSUME Encode64 \/ CleanPath PROVE DigestsAreStandard'
    <2>1. job'.kind \in {"base64", "path"}
      BY <1>4 DEF Encode64, CleanPath
    <2> QED
      BY <2>1 DEF DigestsAreStandard
  <1>5. ASSUME DigestsAreStandard, job' = job PROVE DigestsAreStandard'
    BY <1>5 DEF DigestsAreStandard
  <1>6. DigestsAreStandard /\ [job.kind = "none" /\ Convert]_job => DigestsAreStandard'
    BY <1>2, <1>3, <1>4, <1>5 DEF Convert
  <1> QED
    BY <1>1, <1>6, PTL DEF ConversionSpec

=============================================================================
