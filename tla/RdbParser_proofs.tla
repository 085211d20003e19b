--------------------------- MODULE RdbParser_proofs ---------------------------
(***************************************************************************)
(* The parser of dump.rdb finds in the file, be it whole or cut anywhere,  *)
(* what the writer of the format put there.                                *)
(*                                                                         *)
(* Lies says where in the text of the whole file a piece of it lies; the   *)
(* file is a beginning of that text (Begins).  For each piece, from a      *)
(* number in two's complement to an entry, a lemma says that the writer    *)
(* lays it out so, and another that the read of the parser gives its value *)
(* and the position behind it when all of it is in the file, and otherwise *)
(* throws or ends behind the last byte, from where nothing is read.  The   *)
(* invariant, RdbInv, says where a turn of the loop begins and what has    *)
(* been loaded by then.                                                    *)
(*                                                                         *)
(* ShortDatabases, which the theorems assume, leaves out the third form of *)
(* a length, the one read_length takes for an encoded number: with it      *)
(* LoadedIsRead is false.  The lemmas on sequences are those of            *)
(* Resp_proofs.                                                            *)
(***************************************************************************)
EXTENDS RdbParser, Resp_proofs

-----------------------------------------------------------------------------
(* Numbers *)

LEMMA ByteFacts ==
  /\ Low \in Nat /\ Low >= 6 /\ Byte \in Nat /\ Byte = 4 * Low /\ Byte >= 24
  /\ Opcode.end = Byte - 1 /\ Opcode.select = Byte - 2 /\ Opcode.seconds = Byte - 3
  /\ Opcode.millis = Byte - 4 /\ Opcode.resize = Byte - 5 /\ Opcode.aux = Byte - 6
BY RdbAssumption DEF Byte, Opcode

LEMMA Divide ==
  ASSUME NEW n \in Int, NEW d \in Nat, d > 0
  PROVE  /\ n \div d \in Int /\ n % d \in Nat /\ n % d < d
         /\ n = (d * (n \div d)) + (n % d)
OBVIOUS

\* Dividing a number by d takes a factor d from its bounds.
LEMMA DivideBounds ==
  ASSUME NEW n \in Int, NEW m \in Int, NEW d \in Nat, d > 0
  PROVE  (n < d * m => n \div d < m) /\ (-(d * m) <= n => -m <= n \div d)
OBVIOUS

\* A digit in front of another one, taken apart again.
LEMMA DigitsApart ==
  ASSUME NEW q \in Nat, NEW r \in Nat, NEW d \in Nat, r < d
  PROVE  (d * q + r) \div d = q /\ (d * q + r) % d = r
OBVIOUS

\* What the number of the last byte is in two's complement.
Top(last) == IF 2 * last < Byte THEN last ELSE last - Byte

LEMMA TopIsRead ==
  ASSUME NEW n \in Int, -Byte <= 2 * n, 2 * n < Byte
  PROVE  Top(n % Byte) = n
<1> DEFINE d == Byte
           q == n \div d
           r == n % d
<1>1. d \in Nat /\ d > 0 /\ -d <= 2 * n /\ 2 * n < d
  BY ByteFacts
<1> HIDE DEF d
<1>2. q \in Int /\ r \in Nat /\ r < d /\ n = (d * q) + r
  BY <1>1, Divide
<1> HIDE DEF q, r
<1>3. CASE n >= 0
  <2>1. n \in 0..(d - 1)
    BY <1>1, <1>3
  <2>2. q = 0
    <3>1. ~(q >= 1)
      <4> SUFFICES ASSUME q >= 1 PROVE FALSE
        OBVIOUS
      <4>1. d * q >= d
        BY <1>1, <1>2
      <4> HIDE DEF d, q, r
      <4> QED BY <1>1, <1>2, <2>1, <4>1
    <3>2. ~(q <= -1)
      <4> SUFFICES ASSUME q <= -1 PROVE FALSE
        OBVIOUS
      <4>1. d * q <= -d
        BY <1>1, <1>2
      <4> QED BY <1>1, <1>2, <2>1, <4>1
    <3> QED BY <1>2, <3>1, <3>2
  <2>3. r = n
    BY <1>1, <1>2, <2>2
  <2> QED BY <1>1, <2>3 DEF Top, r, d
<1>4. CASE n < 0
  <2>2. q = -1
    <3>1. ~(q >= 0)
      <4> SUFFICES ASSUME q >= 0 PROVE FALSE
        OBVIOUS
      <4>1. d * q >= 0
        BY <1>1, <1>2
      <4> QED BY <1>1, <1>2, <1>4, <4>1
    <3>2. ~(q <= -2)
      <4> SUFFICES ASSUME q <= -2 PROVE FALSE
        OBVIOUS
      <4>1. d * q <= -(2 * d)
        BY <1>1, <1>2
      <4> QED BY <1>1, <1>2, <1>4, <4>1
    <3> QED BY <1>2, <3>1, <3>2
  <2>3. r = n + d
    BY <1>1, <1>2, <2>2
  <2> QED BY <1>1, <1>4, <2>3 DEF Top, r, d
<1> QED
  BY <1>3, <1>4

\* The bytes a number is taken apart into.
LEMMA BytesAre ==
  ASSUME NEW n \in Int, NEW w \in {1, 2, 4}
  PROVE  LET b == LittleEndian(n, w)
         IN  /\ b \in Seq(Nat) /\ Len(b) = w
             /\ b[1] = n % Byte
             /\ w > 1 => b[2] = (n \div Byte) % Byte
             /\ w > 2 => /\ b[3] = ((n \div Byte) \div Byte) % Byte
                         /\ b[4] = (((n \div Byte) \div Byte) \div Byte) % Byte
<1> DEFINE Rest(f) == [b \in 1..w |-> IF b = 1 THEN n ELSE f[b - 1] \div Byte]
           rest == CHOOSE f : f = Rest(f)
<1>1. \E f : f = Rest(f)
  <2> DEFINE g == [b \in 1..w |-> IF b = 1 THEN n ELSE IF b = 2 THEN n \div Byte
                                   ELSE IF b = 3 THEN (n \div Byte) \div Byte
                                   ELSE ((n \div Byte) \div Byte) \div Byte]
  <2>1. \A b \in 1..w : g[b] = IF b = 1 THEN n ELSE g[b - 1] \div Byte
    <3>1. w = 1 \/ w = 2 \/ w = 4
      OBVIOUS
    <3>2. \A b \in 1..w : b = 1 \/ b = 2 \/ b = 3 \/ b = 4
      BY <3>1
    <3>3. \A b \in 1..w : b # 1 => b - 1 \in 1..w
      BY <3>1
    <3> QED BY <3>2, <3>3
  <2>2. g = Rest(g)
    BY <2>1
  <2> QED BY <2>2
<1>2. rest = Rest(rest)
  BY <1>1, Zenon
<1>3. LittleEndian(n, w) = [b \in 1..w |-> rest[b] % Byte]
  BY Zenon DEF LittleEndian
<1> HIDE DEF rest
<1>4. \A b \in 1..w : rest[b] = IF b = 1 THEN n ELSE rest[b - 1] \div Byte
  BY <1>2
<1>5. /\ rest[1] = n /\ (w > 1 => rest[2] = n \div Byte)
      /\ w > 2 => rest[3] = (n \div Byte) \div Byte /\ rest[4] = ((n \div Byte) \div Byte) \div Byte
  <2>1. rest[1] = n
    BY <1>4
  <2>2. w > 1 => rest[2] = rest[1] \div Byte
    BY <1>4
  <2>3. w > 2 => w = 4 /\ rest[3] = rest[2] \div Byte /\ rest[4] = rest[3] \div Byte
    BY <1>4
  <2> QED BY <2>1, <2>2, <2>3
<1>6. \A b \in 1..w : rest[b] \in Int
  <2>1. \A x \in Int : x \div Byte \in Int
    BY ByteFacts, Divide
  <2>2. w = 1 \/ w = 2 \/ w = 4
    OBVIOUS
  <2>3. \A b \in 1..w : b = 1 \/ (b = 2 /\ w > 1) \/ (b = 3 /\ w > 2) \/ (b = 4 /\ w > 2)
    BY <2>2
  <2>4. n \div Byte \in Int /\ (n \div Byte) \div Byte \in Int
        /\ ((n \div Byte) \div Byte) \div Byte \in Int
    BY <2>1
  <2> QED BY <1>5, <2>3, <2>4
<1>7. \A b \in 1..w : rest[b] % Byte \in Nat
  BY <1>6, ByteFacts, Divide
<1> DEFINE le == [b \in 1..w |-> rest[b] % Byte]
<1>8. le \in Seq(Nat) /\ Len(le) = w /\ \A b \in 1..w : le[b] = rest[b] % Byte
  BY <1>7
<1> HIDE DEF le
<1>9. le[1] = rest[1] % Byte /\ (w > 1 => le[2] = rest[2] % Byte)
      /\ (w > 2 => le[3] = rest[3] % Byte /\ le[4] = rest[4] % Byte)
  BY <1>8
<1>10. /\ le[1] = n % Byte /\ (w > 1 => le[2] = (n \div Byte) % Byte)
       /\ (w > 2 => /\ le[3] = ((n \div Byte) \div Byte) % Byte
                    /\ le[4] = (((n \div Byte) \div Byte) \div Byte) % Byte)
  BY <1>5, <1>9, Zenon
<1> QED
  BY <1>3, <1>8, <1>10 DEF le
\* What a number of one, two or four bytes is read as, byte by byte.
LEMMA SignedIs ==
  ASSUME NEW le \in Seq(Nat), Len(le) \in {1, 2, 4}
  PROVE  /\ Len(le) = 1 => Signed(le) = Top(le[1])
         /\ Len(le) = 2 => Signed(le) = Top(le[2]) * Byte + le[1]
         /\ Len(le) = 4 => Signed(le) = ((Top(le[4]) * Byte + le[3]) * Byte + le[2]) * Byte + le[1]
<1> DEFINE w == Len(le)
           last == le[Len(le)]
           Body(f, b) == IF b < Len(le) THEN f[b + 1] * Byte + le[b]
                         ELSE IF 2 * last < Byte THEN last ELSE last - Byte
           value == CHOOSE f : f = [b \in 1..Len(le) |-> Body(f, b)]
<1>1. Signed(le) = value[1]
  BY Zenon DEF Signed
<1>2. \E f : f = [b \in 1..Len(le) |-> Body(f, b)]
  <2> DEFINE t == Top(last)
             g == [b \in 1..w |->
                    IF b = w THEN t
                    ELSE IF b = w - 1 THEN t * Byte + le[w - 1]
                    ELSE IF b = w - 2 THEN (t * Byte + le[w - 1]) * Byte + le[w - 2]
                    ELSE ((t * Byte + le[w - 1]) * Byte + le[w - 2]) * Byte + le[w - 3]]
  <2>0. \A b \in 1..w : b = w \/ b = w - 1 \/ b = w - 2 \/ b = w - 3
    <3>0. w = 1 \/ w = 2 \/ w = 4
      OBVIOUS
    <3> HIDE DEF w
    <3>1. w \in Nat /\ w <= 4
      BY <3>0
    <3> QED BY <3>1
  <2>1. \A b \in 1..w : g[b] = IF b < w THEN g[b + 1] * Byte + le[b] ELSE t
    <3> SUFFICES ASSUME NEW b \in 1..w PROVE g[b] = IF b < w THEN g[b + 1] * Byte + le[b] ELSE t
      OBVIOUS
    <3>0. w \in Nat /\ (b < w => b + 1 \in 1..w)
      OBVIOUS
    <3> HIDE DEF w, t
    <3>1. CASE b = w
      BY <3>0, <3>1
    <3>2. CASE b = w - 1
      <4>1. b < w /\ b + 1 = w /\ b # w /\ b + 1 \in 1..w
        BY <3>0, <3>2
      <4>2. g[b] = t * Byte + le[w - 1] /\ g[b + 1] = t
        BY <3>2, <4>1
      <4> QED BY <3>2, <4>1, <4>2
    <3>3. CASE b = w - 2
      <4>1. b < w /\ b + 1 = w - 1 /\ b # w /\ b # w - 1 /\ b + 1 # w /\ b + 1 \in 1..w
        BY <3>0, <3>3
      <4>2. g[b] = (t * Byte + le[w - 1]) * Byte + le[w - 2] /\ g[b + 1] = t * Byte + le[w - 1]
        BY <3>3, <4>1
      <4> QED BY <3>3, <4>1, <4>2
    <3>4. CASE b = w - 3
      <4>1. b < w /\ b + 1 = w - 2 /\ b # w /\ b # w - 1 /\ b # w - 2 /\ b + 1 # w /\ b + 1 # w - 1
            /\ b + 1 \in 1..w
        BY <3>0, <3>4
      <4>2. /\ g[b] = ((t * Byte + le[w - 1]) * Byte + le[w - 2]) * Byte + le[w - 3]
            /\ g[b + 1] = (t * Byte + le[w - 1]) * Byte + le[w - 2]
        BY <3>4, <4>1
      <4> QED BY <3>4, <4>1, <4>2
    <3> QED BY <2>0, <3>1, <3>2, <3>3, <3>4 DEF w
  <2>2. g = [b \in 1..Len(le) |-> g[b]]
    OBVIOUS
  <2> HIDE DEF g
  <2>3. \A b \in 1..Len(le) : g[b] = Body(g, b)
    BY <2>1 DEF Top
  <2>4. g = [b \in 1..Len(le) |-> Body(g, b)]
    <3> HIDE DEF Body
    <3> QED BY <2>2, <2>3, Zenon
  <2> QED BY <2>4
<1>3. value = [b \in 1..Len(le) |-> Body(value, b)]
  BY <1>2, Zenon
<1> HIDE DEF value
<1>4. \A b \in 1..Len(le) : value[b] = IF b < Len(le) THEN value[b + 1] * Byte + le[b] ELSE Top(last)
  BY <1>3 DEF Top
<1> HIDE DEF Body
<1>5. CASE Len(le) = 1
  <2>1. value[1] = Top(last)
    BY <1>4, <1>5
  <2> QED BY <1>1, <1>5, <2>1
<1>6. CASE Len(le) = 2
  <2>1. value[2] = Top(last)
    BY <1>4, <1>6
  <2>2. value[1] = value[2] * Byte + le[1]
    BY <1>4, <1>6
  <2> QED BY <1>1, <1>6, <2>1, <2>2
<1>7. CASE Len(le) = 4
  <2>1. value[4] = Top(last)
    BY <1>4, <1>7
  <2>2. value[3] = value[4] * Byte + le[3]
    BY <1>4, <1>7
  <2>3. value[2] = value[3] * Byte + le[2]
    BY <1>4, <1>7
  <2>4. value[1] = value[2] * Byte + le[1]
    BY <1>4, <1>7
  <2> QED BY <1>1, <1>7, <2>1, <2>2, <2>3, <2>4
<1> QED
  BY <1>5, <1>6, <1>7

\* A number is read from its bytes as it was.
LEMMA NumberIsReadBack ==
  ASSUME NEW n \in Int, NEW w \in {1, 2, 4}, Fits(n, w)
  PROVE  Signed(LittleEndian(n, w)) = n
<1> DEFINE le == LittleEndian(n, w)
           B  == Byte
           q1 == n \div B
           q2 == q1 \div B
           q3 == q2 \div B
<1>1. B \in Nat /\ B >= 24 /\ B > 0
  BY ByteFacts
<1>2. /\ le \in Seq(Nat) /\ Len(le) = w /\ le[1] = n % B
      /\ w > 1 => le[2] = q1 % B
      /\ w > 2 => le[3] = q2 % B /\ le[4] = q3 % B
  BY BytesAre
<1>3. /\ w = 1 => Signed(le) = Top(le[1])
      /\ w = 2 => Signed(le) = Top(le[2]) * B + le[1]
      /\ w = 4 => Signed(le) = ((Top(le[4]) * B + le[3]) * B + le[2]) * B + le[1]
  BY <1>2, SignedIs
<1>4. \A m \in Int : -B <= 2 * m /\ 2 * m < B => Top(m % B) = m
  BY TopIsRead
<1>5. /\ w = 1 => -B <= 2 * n /\ 2 * n < B
      /\ w = 2 => -(B * B) <= 2 * n /\ 2 * n < B * B
      /\ w = 4 => -(B * B * B * B) <= 2 * n /\ 2 * n < B * B * B * B
  BY DEF Fits, Numbers
<1> HIDE DEF le
<1>6. \E h \in Nat : B = 2 * h
  <2>1. B = 2 * (2 * Low) /\ 2 * Low \in Nat
    BY ByteFacts
  <2> QED BY <2>1
<1>7. PICK h \in Nat : B = 2 * h
  BY <1>6
<1> HIDE DEF B
<1>8. n = (B * q1) + (n % B) /\ q1 \in Int /\ n % B \in Nat
  BY <1>1, Divide
<1>9. q1 = (B * q2) + (q1 % B) /\ q2 \in Int /\ q1 % B \in Nat
  BY <1>1, <1>8, Divide
<1>10. q2 = (B * q3) + (q2 % B) /\ q3 \in Int /\ q2 % B \in Nat
  BY <1>1, <1>9, Divide
<1>11. -B <= 2 * q3 /\ 2 * q3 < B => Top(q3 % B) = q3
  BY <1>4, <1>10
<1> HIDE DEF q1, q2, q3
<1>12. CASE w = 1
  <2>1. Signed(le) = Top(n % B)
    BY <1>2, <1>3, <1>12, Zenon
  <2> QED BY <1>4, <1>5, <1>12, <2>1 DEF le
<1>13. CASE w = 2
  <2>1. -h <= q1 /\ q1 < h
    <3>1. -(B * h) <= n /\ n < B * h
      <4>1. B * B = 2 * (B * h)
        BY <1>1, <1>7
      <4>2. B * h \in Nat
        BY <1>1, <1>7
      <4> QED BY <1>5, <1>13, <4>1, <4>2
    <3> QED BY <1>1, <3>1, DivideBounds DEF q1
  <2>2. Top(q1 % B) = q1
    <3>1. -B <= 2 * q1 /\ 2 * q1 < B
      BY <1>7, <1>9, <2>1
    <3> QED BY <1>4, <1>8, <3>1
  <2>3. Signed(le) = Top(q1 % B) * B + (n % B)
    <3>1. w > 1
      BY <1>13
    <3> QED BY <1>2, <1>3, <1>13, <3>1, Zenon
  <2>4. Signed(le) = (B * q1) + (n % B)
    BY <1>1, <1>8, <2>2, <2>3
  <2> QED BY <1>8, <2>4 DEF le
<1>14. CASE w = 4
  <2>1. -h <= q3 /\ q3 < h
    <3>1. -(B * (B * B * h)) <= n /\ n < B * (B * B * h) /\ B * B * h \in Int /\ B * h \in Int
      <4>1. B * B * B * B = 2 * (B * (B * B * h))
        BY <1>1, <1>7
      <4>2. B * h \in Nat /\ B * B * h \in Nat /\ B * (B * B * h) \in Nat
        BY <1>1, <1>7
      <4> QED BY <1>5, <1>14, <4>1, <4>2
    <3>2. -(B * B * h) <= q1 /\ q1 < B * B * h
      BY <1>1, <3>1, DivideBounds DEF q1
    <3>3. B * B * h = B * (B * h)
      BY <1>1, <1>7
    <3>4. -(B * h) <= q2 /\ q2 < B * h
      BY <1>1, <1>8, <3>1, <3>2, <3>3, DivideBounds DEF q2
    <3> QED BY <1>1, <1>7, <1>9, <3>4, DivideBounds DEF q3
  <2>2. Top(q3 % B) = q3
    <3>1. -B <= 2 * q3 /\ 2 * q3 < B
      BY <1>7, <1>10, <2>1
    <3> QED BY <1>11, <3>1
  <2>3. Signed(le) = ((Top(q3 % B) * B + (q2 % B)) * B + (q1 % B)) * B + (n % B)
    <3>1. w > 1 /\ w > 2
      BY <1>14
    <3> QED BY <1>2, <1>3, <1>14, <3>1, Zenon
  <2>4. q3 * B + (q2 % B) = q2
    BY <1>1, <1>10
  <2>5. q2 * B + (q1 % B) = q1
    BY <1>1, <1>9
  <2>6. q1 * B + (n % B) = n
    BY <1>1, <1>8
  <2> QED BY <2>2, <2>3, <2>4, <2>5, <2>6, Zenon DEF le
<1> QED
  BY <1>12, <1>13, <1>14
-----------------------------------------------------------------------------
(* Where things lie in the file *)

\* The piece lies in the text from p on.
Lies(text, piece, p) ==
  /\ p \in Nat /\ p >= 1 /\ p + Len(piece) <= Len(text) + 1
  /\ \A j \in 1..Len(piece) : text[p + j - 1] = piece[j]

\* The file is the beginning of the text.
Begins(text) ==
  /\ text \in Seq(Int) /\ file \in Seq(Int) /\ Len(file) <= Len(text)
  /\ \A i \in 1..Len(file) : file[i] = text[i]

LEMMA LiesSplit ==
  ASSUME NEW text \in Seq(Int), NEW a \in Seq(Int), NEW b \in Seq(Int), NEW p,
         Lies(text, a \o b, p)
  PROVE  Lies(text, a, p) /\ Lies(text, b, p + Len(a))
<1> DEFINE c == a \o b
<1>1. Len(text) \in Nat /\ Len(a) \in Nat /\ Len(b) \in Nat
  BY LenProperties
<1>2. /\ Len(c) = Len(a) + Len(b)
      /\ \A i \in 1..Len(a) + Len(b) : c[i] = IF i <= Len(a) THEN a[i] ELSE b[i - Len(a)]
  BY ConcatProperties
<1>3. /\ p \in Nat /\ p >= 1 /\ p + Len(c) <= Len(text) + 1
      /\ \A j \in 1..Len(c) : text[p + j - 1] = c[j]
  BY DEF Lies
<1> HIDE DEF c
<1>4. Lies(text, a, p)
  <2>1. p + Len(a) <= Len(text) + 1
    BY <1>1, <1>2, <1>3
  <2>2. \A j \in 1..Len(a) : j \in 1..Len(c) /\ j \in 1..Len(a) + Len(b) /\ j <= Len(a)
    BY <1>1, <1>2
  <2> QED BY <1>2, <1>3, <2>1, <2>2 DEF Lies
<1>5. Lies(text, b, p + Len(a))
  <2>1. p + Len(a) \in Nat /\ p + Len(a) >= 1 /\ p + Len(a) + Len(b) <= Len(text) + 1
    BY <1>1, <1>2, <1>3
  <2>2. ASSUME NEW j \in 1..Len(b) PROVE text[p + Len(a) + j - 1] = b[j]
    <3>1. /\ Len(a) + j \in 1..Len(c) /\ Len(a) + j \in 1..Len(a) + Len(b) /\ ~(Len(a) + j <= Len(a))
          /\ (Len(a) + j) - Len(a) = j /\ p + (Len(a) + j) - 1 = p + Len(a) + j - 1
      BY <1>1, <1>2, <1>3
    <3> QED BY <1>2, <1>3, <3>1
  <2> QED BY <2>1, <2>2 DEF Lies
<1> QED
  BY <1>4, <1>5

\* What was written last may be taken away.
LEMMA BeginsSplit ==
  ASSUME NEW text \in Seq(Int), NEW a \in Seq(Int), NEW b \in Seq(Int), Lies(text, a \o b, 1)
  PROVE  Lies(text, a, 1) /\ Lies(text, b, Len(a) + 1)
<1>1. Lies(text, a, 1) /\ Lies(text, b, 1 + Len(a))
  BY LiesSplit
<1>2. 1 + Len(a) = Len(a) + 1
  BY LenProperties
<1> QED
  BY <1>1, <1>2

LEMMA WholeLies ==
  ASSUME NEW text \in Seq(Int)
  PROVE  Lies(text, text, 1)
<1>1. Len(text) \in Nat
  BY LenProperties
<1>2. \A j \in 1..Len(text) : 1 + j - 1 = j
  BY <1>1
<1> QED
  BY <1>1, <1>2 DEF Lies

\* One byte; nothing is read in front of the file or behind it.
LEMMA ByteIsRead ==
  ASSUME NEW text, Begins(text), NEW piece \in Seq(Int), NEW p, Lies(text, piece, p),
         Len(piece) >= 1, p <= Failed
  PROVE  /\ p < Failed => read_uint8(p) = [value |-> piece[1], pos |-> p + 1]
         /\ ~(p < Failed) => p = Failed /\ read_uint8(p) = Throw
<1>1. Len(file) \in Nat /\ Failed = Len(file) + 1 /\ Len(piece) \in Nat
  BY LenProperties DEF Begins, Failed
<1>2. p \in Nat /\ p >= 1 /\ p # Thrown
  BY DEF Lies, Thrown
<1>3. text[p] = piece[1]
  <2>1. 1 \in 1..Len(piece) /\ p + 1 - 1 = p
    BY <1>1, <1>2
  <2> QED BY <2>1 DEF Lies
<1>4. Holds(p, 1) <=> p < Failed
  BY <1>1, <1>2 DEF Holds
<1>5. CASE p < Failed
  <2>1. file[p] = text[p]
    <3>1. p \in 1..Len(file)
      BY <1>1, <1>2, <1>5
    <3> QED BY <3>1 DEF Begins
  <2> QED BY <1>3, <1>4, <1>5, <2>1 DEF read_uint8
<1>6. CASE ~(p < Failed)
  <2>1. p = Failed
    BY <1>1, <1>2, <1>6
  <2> QED BY <1>4, <1>6, <2>1 DEF read_uint8
<1> QED
  BY <1>5, <1>6

LEMMA NothingIsRead ==
  ASSUME file \in Seq(Int), NEW p \in {Thrown, Failed}
  PROVE  read_uint8(p) = Throw /\ read_length(p) = Throw /\ read_string(p) = Throw
<1>1. Len(file) \in Nat /\ Failed = Len(file) + 1
  BY LenProperties DEF Failed
<1>2. ~Holds(p, 1)
  BY <1>1 DEF Holds
<1>3. read_uint8(p) = Throw
  BY <1>2 DEF read_uint8
<1>4. Throw.pos = Thrown
  BY DEF Throw
<1>5. read_length(p) = Throw
  BY <1>3, <1>4, Zenon DEF read_length
<1>6. read_string(p) = Throw
  BY <1>4, <1>5, Zenon DEF read_string
<1> QED
  BY <1>3, <1>5, <1>6
-----------------------------------------------------------------------------
(* Lengths *)

LEMMA LengthIsWritten ==
  ASSUME NEW n \in Nat, n < Low * Byte
  PROVE  /\ WriteLength(n) \in Seq(Int)
         /\ n < Low => Len(WriteLength(n)) = 1 /\ WriteLength(n)[1] = n
         /\ ~(n < Low) => /\ Len(WriteLength(n)) = 2
                          /\ WriteLength(n)[1] = Low + (n \div Byte)
                          /\ WriteLength(n)[2] = n % Byte
<1>1. /\ Byte \in Nat /\ Byte > 0 /\ n \div Byte \in Int /\ n % Byte \in Nat /\ Low \in Nat
      /\ Low + (n \div Byte) \in Int
  BY ByteFacts, Divide
<1> DEFINE a == Low + (n \div Byte)
           b == n % Byte
<1>2. CASE n < Low
  BY <1>2 DEF WriteLength
<1>3. CASE ~(n < Low)
  <2>1. WriteLength(n) = <<a, b>>
    BY <1>3 DEF WriteLength
  <2>2. a \in Int /\ b \in Int
    BY <1>1
  <2> HIDE DEF a, b
  <2>3. <<a, b>> \in Seq(Int) /\ Len(<<a, b>>) = 2 /\ <<a, b>>[1] = a /\ <<a, b>>[2] = b
    BY <2>2
  <2> QED BY <1>3, <2>1, <2>3 DEF a, b
<1> QED
  BY <1>2, <1>3

\* A length in one of the two short forms is read back, or its end is missed.
LEMMA LengthIsRead ==
  ASSUME NEW text, Begins(text), NEW n \in Nat, n < Low * Byte, NEW p,
         Lies(text, WriteLength(n), p), p <= Failed
  PROVE  LET q == p + Len(WriteLength(n))
         IN  /\ q <= Failed => read_length(p) = [value |-> n, encoded |-> FALSE, pos |-> q]
             /\ ~(q <= Failed) => read_length(p).pos = Thrown
<1> DEFINE piece == WriteLength(n)
           l     == Len(piece)
           q     == p + l
           first == read_uint8(p)
           enc   == first.value \div Low
           low   == first.value % Low
           next  == read_uint8(first.pos)
<1>1. /\ piece \in Seq(Int)
      /\ n < Low => Len(piece) = 1 /\ piece[1] = n
      /\ ~(n < Low) => Len(piece) = 2 /\ piece[1] = Low + (n \div Byte) /\ piece[2] = n % Byte
  BY LengthIsWritten
<1>2. Lies(text, piece, p) /\ p \in Nat /\ p >= 1 /\ p # 0 /\ p + 1 # 0
  BY DEF Lies
<1>3. read_length(p) =
        CASE first.pos = Thrown -> Throw
          [] first.pos # Thrown /\ enc = 0 -> [value |-> low, encoded |-> FALSE, pos |-> first.pos]
          [] first.pos # Thrown /\ enc = 1 ->
               [value |-> low * Byte + next.value, encoded |-> FALSE, pos |-> next.pos]
          [] OTHER -> [value |-> low, encoded |-> TRUE, pos |-> first.pos]
  BY Zenon DEF read_length
<1> HIDE DEF piece
<1>4. Failed \in Nat /\ Thrown = 0 /\ Throw.pos = Thrown /\ Throw.value = 0
  BY LenProperties DEF Begins, Failed, Thrown, Throw
<1>5. Low \in Nat /\ Low >= 6 /\ Byte = 4 * Low /\ Byte \in Nat
  BY ByteFacts
<1>6. Len(piece) >= 1 /\ (l = 1 \/ l = 2) /\ (n < Low => l = 1) /\ (~(n < Low) => l = 2)
  BY <1>1
<1> HIDE DEF l
<1>7. CASE ~(p < Failed)
  <2>1. first = Throw
    BY <1>1, <1>2, <1>6, <1>7, ByteIsRead
  <2>2. read_length(p).pos = Thrown
    BY <1>3, <1>4, <2>1, Zenon
  <2>3. ~(q <= Failed)
    <3>1. p = Failed
      BY <1>2, <1>4, <1>7
    <3> QED BY <1>4, <1>6, <3>1
  <2> QED BY <2>2, <2>3 DEF piece, l
<1>8. CASE p < Failed
  <2>1. first.value = piece[1] /\ first.pos = p + 1
    <3>1. first = [value |-> piece[1], pos |-> p + 1]
      BY <1>1, <1>2, <1>6, <1>8, ByteIsRead
    <3> QED BY <3>1
  <2> HIDE DEF first
  <2>2. first.pos # Thrown
    BY <1>2, <1>4, <2>1
  <2>3. CASE n < Low
    <3>1. enc = 0 /\ low = n
      <4>1. n \div Low = 0 /\ n % Low = n
        BY <1>5, <2>3
      <4> QED BY <1>1, <2>1, <2>3, <4>1
    <3>2. q = p + 1 /\ q <= Failed
      <4>1. l = 1
        BY <1>6, <2>3
      <4> QED BY <1>2, <1>4, <1>8, <4>1
    <3>3. read_length(p) = [value |-> low, encoded |-> FALSE, pos |-> first.pos]
      <4>1. enc = 0 /\ enc # 1
        BY <3>1
      <4> HIDE DEF enc, low, next
      <4> QED BY <1>3, <2>2, <4>1, Zenon
    <3> QED BY <2>1, <3>1, <3>2, <3>3 DEF piece, l
  <2>4. CASE ~(n < Low)
    <3> DEFINE d == n \div Byte
    <3>1. d \in Nat /\ d < Low /\ n % Byte \in Nat /\ n = (Byte * d) + (n % Byte)
      <4>1. /\ d \in Int /\ n % Byte \in Nat /\ n % Byte < Byte
            /\ n = (Byte * d) + (n % Byte)
        BY <1>5, Divide
      <4>2. Low * Byte = Byte * Low /\ -(Byte * 0) <= n
        BY <1>5
      <4>3. d < Low /\ -0 <= d
        BY <1>5, <4>2, DivideBounds
      <4> QED BY <4>1, <4>3
    <3> HIDE DEF d
    <3>2. first.value = Low + d
      BY <1>1, <2>1, <2>4 DEF d
    <3>3. enc = 1 /\ low = d
      <4>1. (Low * 1 + d) \div Low = 1 /\ (Low * 1 + d) % Low = d
        BY <1>5, <3>1, DigitsApart
      <4>2. Low * 1 + d = Low + d
        BY <1>5, <3>1
      <4> QED BY <3>2, <4>1, <4>2
    <3>4. read_length(p) = [value |-> low * Byte + next.value, encoded |-> FALSE, pos |-> next.pos]
      <4>1. enc # 0
        BY <3>3
      <4> HIDE DEF enc, low, next
      <4> QED BY <1>3, <2>2, <3>3, <4>1, Zenon
    <3> DEFINE tail == <<n % Byte>>
    <3>5. tail \in Seq(Int) /\ Len(tail) = 1 /\ tail[1] = n % Byte
      BY <3>1
    <3>6. Lies(text, tail, p + 1)
      <4>1. Len(piece) = 2 /\ piece[2] = n % Byte
        BY <1>1, <2>4
      <4> HIDE DEF tail
      <4>2. p + 2 <= Len(text) + 1 /\ text[p + 2 - 1] = tail[1]
        BY <1>2, <3>5, <4>1 DEF Lies
      <4>3. p + 1 + Len(tail) <= Len(text) + 1
        BY <1>2, <3>5, <4>2
      <4>4. \A j \in 1..Len(tail) : p + 1 + j - 1 = p + 2 - 1 /\ j = 1
        BY <1>2, <3>5
      <4> QED BY <1>2, <4>2, <4>3, <4>4 DEF Lies
    <3> HIDE DEF tail
    <3>7. p + 1 <= Failed /\ p + 1 \in Nat /\ p + 1 + 1 = q
      <4>1. l = 2
        BY <1>6, <2>4
      <4> QED BY <1>2, <1>4, <1>8, <4>1
    <3>8. CASE p + 1 < Failed
      <4>1. next = [value |-> n % Byte, pos |-> p + 1 + 1]
        BY <2>1, <3>5, <3>6, <3>7, <3>8, ByteIsRead
      <4>2. next.value = n % Byte /\ next.pos = q
        BY <3>7, <4>1
      <4>3. low * Byte + next.value = n
        <5> HIDE DEF low, next
        <5>1. low * Byte = Byte * d
          BY <1>5, <3>1, <3>3
        <5> QED BY <3>1, <4>2, <5>1
      <4>4. q <= Failed
        BY <1>4, <3>7, <3>8
      <4> QED BY <3>4, <4>2, <4>3, <4>4 DEF piece, l
    <3>9. CASE ~(p + 1 < Failed)
      <4>0. Len(tail) >= 1
        BY <3>5
      <4>1. next = Throw
        BY <2>1, <3>5, <3>6, <3>7, <3>9, <4>0, ByteIsRead
      <4>2. read_length(p).pos = Thrown
        <5> HIDE DEF low
        <5> QED BY <1>4, <3>4, <4>1
      <4>3. ~(q <= Failed)
        BY <1>4, <3>7, <3>9
      <4> QED BY <4>2, <4>3 DEF piece, l
    <3> QED BY <3>8, <3>9
  <2> QED BY <2>3, <2>4
<1> QED
  BY <1>7, <1>8
-----------------------------------------------------------------------------
(* Strings *)

\* Strings whose length is written in one of the two short forms.
ShortString(s) == s[1] = "text" => Len(s[2]) < Low * Byte

LEMMA SliceIs ==
  ASSUME NEW text, Begins(text), NEW piece \in Seq(Int), NEW p, Lies(text, piece, p),
         p + Len(piece) <= Failed
  PROVE  SubSeq(file, p, p + Len(piece) - 1) = piece
<1> DEFINE w == Len(piece)
           e == p + w - 1
           s == SubSeq(file, p, e)
<1>1. w \in Nat /\ p \in Nat /\ p >= 1 /\ Len(file) \in Nat /\ p + w <= Len(file) + 1
  BY LenProperties DEF Begins, Lies, Failed
<1>2. \A j \in 1..w : text[p + j - 1] = piece[j]
  BY DEF Lies
<1> HIDE DEF w
<1>3. e \in Int /\ e - p + 1 = w /\ (IF p <= e THEN e - p + 1 ELSE 0) = w
      /\ (\A i \in p..e : i \in 1..Len(file)) /\ (\A j \in 1..w : p + j - 1 \in 1..Len(file))
  BY <1>1
<1>4. \A i \in p..e : file[i] \in Int
  BY <1>3, ElementOfSeq DEF Begins
<1> HIDE DEF e
<1>5. s \in Seq(Int) /\ Len(s) = w /\ \A j \in 1..w : s[j] = file[p + j - 1]
  BY <1>1, <1>3, <1>4, SubSeqProperties
<1> HIDE DEF s
<1>6. \A j \in 1..w : s[j] = piece[j]
  BY <1>2, <1>3, <1>5 DEF Begins
<1>7. s = piece
  BY <1>5, <1>6, SeqEqual DEF w
<1> QED
  BY <1>7 DEF s, e, w

LEMMA TextIsRead ==
  ASSUME NEW text, Begins(text), NEW t \in Seq(Int), Len(t) < Low * Byte, NEW p,
         Lies(text, WriteLength(Len(t)) \o t, p), p <= Failed
  PROVE  LET q == p + Len(WriteLength(Len(t)) \o t)
         IN  /\ q <= Failed => read_string(p).value = <<"text", t>> /\ read_string(p).pos = q
             /\ ~(q <= Failed) => read_string(p).pos \in {Thrown, Failed}
<1> DEFINE n    == Len(t)
           head == WriteLength(n)
           l    == p + Len(head)
           q    == p + Len(head \o t)
           len  == read_length(p)
           have == Min({len.value, Failed - len.pos})
           string == SubSeq(file, len.pos, len.pos + have - 1) \o [b \in 1..(len.value - have) |-> 0]
           byte == read_uint8(len.pos)
<1>1. n \in Nat /\ n < Low * Byte /\ head \in Seq(Int) /\ text \in Seq(Int) /\ file \in Seq(Int)
  BY LenProperties, LengthIsWritten DEF Begins
<1>2. Lies(text, head, p) /\ Lies(text, t, l)
  BY <1>1, LiesSplit
<1>3. /\ l <= Failed => len = [value |-> n, encoded |-> FALSE, pos |-> l]
      /\ ~(l <= Failed) => len.pos = Thrown
  BY <1>1, <1>2, LengthIsRead
<1>4. q = l + n
  <2>1. Len(head \o t) = Len(head) + Len(t)
    BY <1>1, ConcatProperties
  <2>2. Len(head) \in Nat /\ p \in Nat
    BY <1>1, LenProperties DEF Lies
  <2> HIDE DEF head
  <2> QED BY <1>1, <2>1, <2>2
<1>5. l \in Nat /\ l >= 1 /\ Failed \in Nat /\ Thrown = 0 /\ Throw.pos = Thrown
  BY <1>1, <1>2, LenProperties DEF Lies, Failed, Thrown, Throw
<1>6. read_string(p) =
        CASE len.pos = Thrown -> Throw
          [] len.pos # Thrown /\ ~len.encoded ->
               [value |-> <<"text", string>>, pos |-> len.pos + have]
          [] len.pos # Thrown /\ len.encoded /\ len.value = 0 ->
               [byte EXCEPT !.value = <<"int", Signed(<<@>>)>>]
          [] len.pos # Thrown /\ len.encoded /\ len.value \in {1, 2} ->
               [ReadInto(len.pos, 2 * len.value, 1) EXCEPT !.value = AsText(@)]
          [] OTHER -> Throw
  BY Zenon DEF read_string
<1> HIDE DEF n, l, q, head, len, string, byte
<1>7. CASE ~(l <= Failed)
  <2>1. read_string(p).pos = Thrown
    BY <1>3, <1>5, <1>6, <1>7, Zenon
  <2>2. ~(q <= Failed)
    BY <1>1, <1>4, <1>5, <1>7
  <2> QED BY <2>1, <2>2 DEF q, head, n
<1>8. CASE l <= Failed
  <2>1. len.value = n /\ len.encoded = FALSE /\ len.pos = l
    BY <1>3, <1>8
  <2>2. len.pos # Thrown /\ ~len.encoded
    BY <1>5, <2>1
  <2>3. read_string(p) = [value |-> <<"text", string>>, pos |-> len.pos + have]
    <3> HIDE DEF have
    <3> QED BY <1>6, <2>2, Zenon
  <2>4. have = IF n <= Failed - l THEN n ELSE Failed - l
    <3>1. Failed - l \in Int /\ n \in Int
      BY <1>1, <1>5
    <3>2. have = Min({n, Failed - l})
      BY <2>1
    <3> QED BY <3>1, <3>2, MinOfTwo
  <2> HIDE DEF have
  <2>5. CASE q <= Failed
    <3>1. have = n /\ n <= Failed - l
      BY <1>1, <1>4, <1>5, <2>4, <2>5
    <3>2. SubSeq(file, l, l + n - 1) = t
      BY <1>2, <1>4, <2>5, SliceIs DEF n
    <3>3. [b \in 1..(len.value - have) |-> 0] = <<>>
      <4>1. 1..(len.value - have) = {}
        BY <1>1, <2>1, <3>1
      <4> QED BY <4>1
    <3>4. string = t
      <4>1. string = t \o <<>>
        BY <2>1, <3>1, <3>2, <3>3 DEF string
      <4> QED BY <4>1, ConcatEmptySeq
    <3>5. read_string(p).value = <<"text", t>> /\ read_string(p).pos = l + n
      BY <2>1, <2>3, <3>1, <3>4
    <3> QED BY <1>4, <2>5, <3>5 DEF q, head, n
  <2>6. CASE ~(q <= Failed)
    <3>1. have = Failed - l
      BY <1>1, <1>4, <1>5, <2>4, <2>6
    <3>2. read_string(p).pos = Failed
      <4>1. read_string(p).pos = l + have
        BY <2>1, <2>3
      <4> QED BY <1>5, <3>1, <4>1
    <3> QED BY <2>6, <3>2 DEF q, head, n
  <2> QED BY <2>5, <2>6
<1> QED
  BY <1>7, <1>8
LEMMA IntegerSeq ==
  ASSUME NEW S \in SUBSET Int, NEW s \in Seq(S)
  PROVE  s \in Seq(Int) /\ Len(s) \in Nat
<1>1. Len(s) \in Nat /\ s = [i \in 1..Len(s) |-> s[i]] /\ \A i \in 1..Len(s) : s[i] \in S
  BY ElementOfSeq
<1>2. s \in [1..Len(s) -> Int]
  BY <1>1
<1> QED
  BY <1>1, <1>2, SeqDef

LEMMA FunctionIsSeq ==
  ASSUME NEW w \in Nat, NEW f \in [1..w -> 0..(Byte - 1)]
  PROVE  f \in Seq(Int) /\ Len(f) = w
<1>1. f \in [1..w -> Int] /\ f = [i \in 1..w |-> f[i]]
  BY ByteFacts
<1>2. f \in Seq(Int)
  <2>1. f \in UNION {[1..n -> Int] : n \in Nat}
    BY <1>1
  <2> QED BY <2>1, SeqDef
<1> QED
  BY <1>1, <1>2

LEMMA NumberIsWritten ==
  ASSUME NEW n \in Int, Fits(n, 4)
  PROVE  \E form \in {0, 1, 2} : \E w \in {1, 2, 4} :
           /\ w = IF form = 0 THEN 1 ELSE 2 * form
           /\ Fits(n, w)
           /\ WriteNumber(n) = <<3 * Low + form>> \o LittleEndian(n, w)
<1> DEFINE form == IF Fits(n, 1) THEN 0 ELSE IF Fits(n, 2) THEN 1 ELSE 2
           w == IF form = 0 THEN 1 ELSE 2 * form
<1>1. form \in {0, 1, 2}
  OBVIOUS
<1>2. w \in {1, 2, 4}
  <2>1. form = 0 \/ form = 1 \/ form = 2
    OBVIOUS
  <2> HIDE DEF form
  <2> QED BY <2>1
<1>3. Fits(n, w)
  <2>1. CASE Fits(n, 1)
    BY <2>1
  <2>2. CASE ~Fits(n, 1) /\ Fits(n, 2)
    <3>1. w = 2
      BY <2>2
    <3> QED BY <2>2, <3>1
  <2>3. CASE ~Fits(n, 1) /\ ~Fits(n, 2)
    <3>1. w = 4
      BY <2>3
    <3> QED BY <3>1
  <2> QED BY <2>1, <2>2, <2>3
<1>4. WriteNumber(n) = <<3 * Low + form>> \o LittleEndian(n, w)
  BY Zenon DEF WriteNumber
<1> HIDE DEF form
<1>5. w = IF form = 0 THEN 1 ELSE 2 * form
  OBVIOUS
<1> HIDE DEF w
<1> QED
  BY <1>1, <1>2, <1>3, <1>4, <1>5

\* One number that is written as text of digits.
LEMMA NumberStringIsRead ==
  ASSUME NEW text, Begins(text), NEW n \in Int, Fits(n, 4), NEW p,
         Lies(text, WriteNumber(n), p), p <= Failed
  PROVE  LET q == p + Len(WriteNumber(n))
         IN  /\ q <= Failed => read_string(p).value = <<"int", n>> /\ read_string(p).pos = q
             /\ ~(q <= Failed) => read_string(p).pos \in {Thrown, Failed}
<1>1. PICK form \in {0, 1, 2} : \E w \in {1, 2, 4} :
           /\ w = IF form = 0 THEN 1 ELSE 2 * form
           /\ Fits(n, w)
           /\ WriteNumber(n) = <<3 * Low + form>> \o LittleEndian(n, w)
  BY NumberIsWritten, Zenon
<1>2. PICK w \in {1, 2, 4} :
           /\ w = IF form = 0 THEN 1 ELSE 2 * form
           /\ Fits(n, w)
           /\ WriteNumber(n) = <<3 * Low + form>> \o LittleEndian(n, w)
  BY <1>1
<1> DEFINE head == <<3 * Low + form>>
           le   == LittleEndian(n, w)
           q    == p + Len(WriteNumber(n))
           first == read_uint8(p)
           enc   == first.value \div Low
           low   == first.value % Low
           next  == read_uint8(first.pos)
           len  == read_length(p)
           have == Min({len.value, Failed - len.pos})
           string == SubSeq(file, len.pos, len.pos + have - 1) \o [b \in 1..(len.value - have) |-> 0]
           byte == read_uint8(len.pos)
           number == ReadInto(len.pos, 2 * len.value, 1)
<1>3. /\ text \in Seq(Int) /\ file \in Seq(Int) /\ Failed \in Nat /\ Len(file) \in Nat
      /\ Thrown = 0 /\ Throw.pos = Thrown
  BY LenProperties DEF Begins, Failed, Thrown, Throw
<1>4. le \in Seq(Nat) /\ Len(le) = w /\ Signed(le) = n
  BY <1>2, BytesAre, NumberIsReadBack
<1>5. le \in Seq(Int)
  <2>1. Nat \in SUBSET Int
    OBVIOUS
  <2> HIDE DEF le
  <2> QED BY <1>4, <2>1, IntegerSeq
<1>6. Low \in Nat /\ Low >= 6 /\ 3 * Low + form \in Int
  BY ByteFacts
<1>7. head \in Seq(Int) /\ Len(head) = 1 /\ Len(head) >= 1 /\ head[1] = 3 * Low + form
  BY <1>6
<1> HIDE DEF le, head
<1>8. WriteNumber(n) = head \o le
  BY <1>2 DEF head, le
<1>9. Lies(text, head, p) /\ Lies(text, le, p + 1)
  <2>1. Lies(text, head, p) /\ Lies(text, le, p + Len(head))
    BY <1>3, <1>5, <1>7, <1>8, LiesSplit
  <2> QED BY <1>7, <2>1
<1>10. p \in Nat /\ p >= 1 /\ p + 1 # 0
  BY <1>9 DEF Lies
<1>11. q = p + 1 + w
  <2>1. Len(head \o le) = Len(head) + Len(le)
    BY <1>5, <1>7, ConcatProperties
  <2> QED BY <1>4, <1>7, <1>8, <1>10, <2>1
<1>12. (w = 1 \/ w = 2 \/ w = 4) /\ w \in Nat /\ w >= 1
  OBVIOUS
<1>13. len = CASE first.pos = Thrown -> Throw
          [] first.pos # Thrown /\ enc = 0 -> [value |-> low, encoded |-> FALSE, pos |-> first.pos]
          [] first.pos # Thrown /\ enc = 1 ->
               [value |-> low * Byte + next.value, encoded |-> FALSE, pos |-> next.pos]
          [] OTHER -> [value |-> low, encoded |-> TRUE, pos |-> first.pos]
  BY Zenon DEF read_length
<1>14. read_string(p) =
        CASE len.pos = Thrown -> Throw
          [] len.pos # Thrown /\ ~len.encoded ->
               [value |-> <<"text", string>>, pos |-> len.pos + have]
          [] len.pos # Thrown /\ len.encoded /\ len.value = 0 ->
               [byte EXCEPT !.value = <<"int", Signed(<<@>>)>>]
          [] len.pos # Thrown /\ len.encoded /\ len.value \in {1, 2} ->
               [number EXCEPT !.value = AsText(@)]
          [] OTHER -> Throw
  BY Zenon DEF read_string
<1> HIDE DEF q, len, have, string, byte, number
<1>15. CASE ~(p < Failed)
  <2>1. first = Throw
    BY <1>7, <1>9, <1>15, ByteIsRead
  <2>2. len = Throw
    BY <1>3, <1>13, <2>1, Zenon
  <2>3. read_string(p).pos = Thrown
    BY <1>3, <1>14, <2>2, Zenon
  <2>4. ~(q <= Failed)
    BY <1>3, <1>10, <1>11, <1>12, <1>15
  <2> QED BY <2>3, <2>4 DEF q
<1>16. CASE p < Failed
  <2>1. first.value = 3 * Low + form /\ first.pos = p + 1
    <3>1. first = [value |-> head[1], pos |-> p + 1]
      BY <1>7, <1>9, <1>16, ByteIsRead
    <3> QED BY <1>7, <3>1
  <2> HIDE DEF first
  <2>2. enc = 3 /\ low = form
    <3>1. (Low * 3 + form) \div Low = 3 /\ (Low * 3 + form) % Low = form
      BY <1>6, DigitsApart
    <3>2. Low * 3 + form = 3 * Low + form
      BY <1>6
    <3> QED BY <2>1, <3>1, <3>2
  <2>3. first.pos # Thrown /\ enc # 0 /\ enc # 1
    BY <1>3, <1>10, <2>1, <2>2
  <2> HIDE DEF enc, low, next
  <2>4. len = [value |-> low, encoded |-> TRUE, pos |-> first.pos]
    BY <1>13, <2>3, Zenon
  <2>5. len.value = form /\ len.encoded /\ len.pos = p + 1
    BY <2>1, <2>2, <2>4
  <2>6. len.pos # Thrown /\ len.encoded
    BY <1>3, <1>10, <2>5
  <2>7. p + 1 <= Failed
    BY <1>3, <1>10, <1>16
  <2>8. CASE form = 0
    <3>1. w = 1
      BY <1>2, <2>8
    <3>2. read_string(p) = [byte EXCEPT !.value = <<"int", Signed(<<@>>)>>]
      <4>1. len.value = 0
        BY <2>5, <2>8
      <4>2. ~(0 \in {1, 2})
        OBVIOUS
      <4> QED BY <1>14, <2>6, <4>1, <4>2, Zenon
    <3>3. Len(le) >= 1 /\ le = <<le[1]>>
      BY <1>4, <3>1
    <3>4. CASE p + 1 < Failed
      <4>1. byte = [value |-> le[1], pos |-> p + 1 + 1]
        BY <1>5, <1>9, <2>5, <2>7, <3>3, <3>4, ByteIsRead DEF byte
      <4>2. read_string(p) = [value |-> <<"int", Signed(<<le[1]>>)>>, pos |-> p + 1 + 1]
        BY <3>2, <4>1
      <4>3. read_string(p).value = <<"int", n>> /\ read_string(p).pos = p + 1 + 1
        BY <1>4, <3>3, <4>2
      <4>4. q = p + 1 + 1 /\ q <= Failed
        BY <1>3, <1>10, <1>11, <3>1, <3>4
      <4> QED BY <4>3, <4>4 DEF q
    <3>5. CASE ~(p + 1 < Failed)
      <4>1. byte = Throw
        BY <1>5, <1>9, <2>5, <2>7, <3>3, <3>5, ByteIsRead DEF byte
      <4>2. read_string(p).pos = Throw.pos
        BY <3>2, <4>1 DEF Throw
      <4>3. ~(q <= Failed)
        BY <1>3, <1>10, <1>11, <3>1, <3>5
      <4> QED BY <1>3, <4>2, <4>3 DEF q
    <3> QED BY <3>4, <3>5
  <2>9. CASE form # 0
    <3>1. w = 2 * form /\ (form = 1 \/ form = 2)
      BY <1>2, <2>9
    <3>2. read_string(p) = [number EXCEPT !.value = AsText(@)]
      <4>1. len.value \in {1, 2} /\ len.value # 0
        BY <2>5, <2>9
      <4> QED BY <1>14, <2>6, <4>1, Zenon
    <3>3. number = ReadInto(p + 1, w, 1)
      BY <2>5, <3>1 DEF number
    <3>4. Holds(p + 1, w) <=> q <= Failed
      BY <1>3, <1>10, <1>11 DEF Holds
    <3>5. CASE q <= Failed
      <4>1. SubSeq(file, p + 1, p + 1 + w - 1) = le
        <5>1. p + 1 + Len(le) <= Failed
          BY <1>4, <1>11, <3>5
        <5> QED BY <1>4, <1>5, <1>9, <5>1, SliceIs
      <4>2. number = [value |-> <<1, le>>, pos |-> p + 1 + w]
        BY <3>3, <3>4, <3>5, <4>1 DEF ReadInto
      <4>3. <<1, le>> # Uninitialised /\ <<1, le>>[2] = le
        BY DEF Uninitialised
      <4>4. AsText(<<1, le>>) = <<"int", n>>
        BY <1>4, <4>3 DEF AsText
      <4>5. read_string(p) = [value |-> <<"int", n>>, pos |-> p + 1 + w]
        BY <3>2, <4>2, <4>4
      <4> QED BY <1>11, <3>5, <4>5 DEF q
    <3>6. CASE ~(q <= Failed)
      <4>1. number = [value |-> Uninitialised, pos |-> Failed]
        BY <3>3, <3>4, <3>6 DEF ReadInto
      <4>2. read_string(p).pos = Failed
        BY <3>2, <4>1
      <4> QED BY <3>6, <4>2 DEF q
    <3> QED BY <3>5, <3>6
  <2> QED BY <2>8, <2>9
<1> QED
  BY <1>15, <1>16
LEMMA StringIsWritten ==
  ASSUME NEW s \in Strings, ShortString(s)
  PROVE  WriteString(s) \in Seq(Int)
<1>1. CASE s \in Texts
  <2>1. s[1] = "text" /\ s[2] \in Seq(0..(Byte - 1)) /\ s[1] # "int"
    BY <1>1 DEF Texts
  <2>2. s[2] \in Seq(Int)
    <3>1. 0..(Byte - 1) \in SUBSET Int
      BY ByteFacts
    <3> QED BY <2>1, <3>1, IntegerSeq
  <2>3. Len(s[2]) \in Nat /\ Len(s[2]) < Low * Byte
    BY <2>1, <2>2, LenProperties DEF ShortString
  <2>4. WriteLength(Len(s[2])) \in Seq(Int)
    BY <2>3, LengthIsWritten
  <2>5. WriteString(s) = WriteLength(Len(s[2])) \o s[2]
    BY <2>1 DEF WriteString
  <2> QED BY <2>2, <2>4, <2>5, ConcatProperties
<1>2. CASE s \in {"int"} \X {n \in Int : Fits(n, 4)}
  <2>1. s[1] = "int" /\ s[2] \in Int /\ Fits(s[2], 4)
    BY <1>2
  <2>2. PICK form \in {0, 1, 2}, w \in {1, 2, 4} :
          WriteNumber(s[2]) = <<3 * Low + form>> \o LittleEndian(s[2], w)
    BY <2>1, NumberIsWritten
  <2> DEFINE head == <<3 * Low + form>>
             le   == LittleEndian(s[2], w)
  <2>3. le \in Seq(Nat)
    BY <2>1, BytesAre
  <2>4. le \in Seq(Int)
    <3>1. Nat \in SUBSET Int
      OBVIOUS
    <3> HIDE DEF le
    <3> QED BY <2>3, <3>1, IntegerSeq
  <2>5. head \in Seq(Int)
    BY ByteFacts
  <2>6. WriteString(s) = head \o le
    BY <2>1, <2>2 DEF WriteString
  <2> HIDE DEF head, le
  <2> QED BY <2>4, <2>5, <2>6, ConcatProperties
<1> QED
  BY <1>1, <1>2 DEF Strings

LEMMA EncodedStringIsRead ==
  ASSUME NEW text, Begins(text), NEW s \in Strings, ShortString(s), NEW p,
         Lies(text, WriteString(s), p), p <= Failed
  PROVE  LET q == p + Len(WriteString(s))
         IN  /\ q <= Failed => read_string(p).value = s /\ read_string(p).pos = q
             /\ ~(q <= Failed) => read_string(p).pos \in {Thrown, Failed}
<1>1. CASE s \in Texts
  <2>1. s[1] = "text" /\ s[2] \in Seq(0..(Byte - 1)) /\ s[1] # "int" /\ s = <<"text", s[2]>>
    BY <1>1 DEF Texts
  <2>2. s[2] \in Seq(Int)
    <3>1. 0..(Byte - 1) \in SUBSET Int
      BY ByteFacts
    <3> QED BY <2>1, <3>1, IntegerSeq
  <2>3. WriteString(s) = WriteLength(Len(s[2])) \o s[2]
    BY <2>1 DEF WriteString
  <2>4. Len(s[2]) < Low * Byte
    BY <2>1 DEF ShortString
  <2>5. Lies(text, WriteLength(Len(s[2])) \o s[2], p)
    BY <2>3
  <2> QED BY <2>1, <2>2, <2>3, <2>4, <2>5, TextIsRead
<1>2. CASE s \in {"int"} \X {n \in Int : Fits(n, 4)}
  <2>1. s[1] = "int" /\ s[2] \in Int /\ Fits(s[2], 4) /\ s = <<"int", s[2]>>
    BY <1>2
  <2>2. WriteString(s) = WriteNumber(s[2])
    BY <2>1 DEF WriteString
  <2>3. Lies(text, WriteNumber(s[2]), p)
    BY <2>2
  <2> QED BY <2>1, <2>2, <2>3, NumberStringIsRead
<1> QED
  BY <1>1, <1>2 DEF Strings

-----------------------------------------------------------------------------
(* Entries *)

WriteTime(e) ==
  IF e.time = NoTime THEN <<>>
  ELSE <<IF e.time[1] = 1 THEN Opcode.millis ELSE Opcode.seconds>> \o e.time[2]
ShortEntry(e) == ShortString(e.key) /\ ShortString(e.value)

LEMMA TimeIsWritten ==
  ASSUME NEW e \in Entries
  PROVE  /\ WriteTime(e) \in Seq(Int)
         /\ \/ e.time = NoTime /\ WriteTime(e) = <<>>
            \/ \E f \in Seq(Int) : /\ e.time = <<1, f>> /\ Len(f) = 8
                                   /\ WriteTime(e) = <<Byte - 4>> \o f
            \/ \E f \in Seq(Int) : /\ e.time = <<1000, f>> /\ Len(f) = 4
                                   /\ WriteTime(e) = <<Byte - 3>> \o f
<1>1. e.time \in Times
  BY DEF Entries
<1>2. /\ Byte - 4 \in Int /\ Byte - 3 \in Int /\ <<Byte - 4>> \in Seq(Int) /\ <<Byte - 3>> \in Seq(Int)
      /\ Opcode.millis = Byte - 4 /\ Opcode.seconds = Byte - 3 /\ 0..(Byte - 1) \subseteq Int
  BY ByteFacts
<1>3. CASE e.time = NoTime
  BY <1>3 DEF WriteTime
<1>4. CASE e.time \in {1} \X [1..8 -> 0..(Byte - 1)]
  <2>1. PICK f \in [1..8 -> 0..(Byte - 1)] : e.time = <<1, f>>
    BY <1>4
  <2>2. f \in Seq(Int) /\ Len(f) = 8
    BY FunctionIsSeq
  <2>3. e.time # NoTime /\ e.time[1] = 1 /\ e.time[2] = f
    BY <2>1 DEF NoTime
  <2>4. WriteTime(e) = <<Byte - 4>> \o f
    BY <1>2, <2>3 DEF WriteTime
  <2>5. WriteTime(e) \in Seq(Int)
    BY <1>2, <2>2, <2>4, ConcatProperties
  <2> QED BY <2>1, <2>2, <2>4, <2>5
<1>5. CASE e.time \in {1000} \X [1..4 -> 0..(Byte - 1)]
  <2>1. PICK f \in [1..4 -> 0..(Byte - 1)] : e.time = <<1000, f>>
    BY <1>5
  <2>2. f \in Seq(Int) /\ Len(f) = 4
    BY FunctionIsSeq
  <2>3. e.time # NoTime /\ e.time[1] # 1 /\ e.time[2] = f
    BY <2>1 DEF NoTime
  <2>4. WriteTime(e) = <<Byte - 3>> \o f
    BY <1>2, <2>3 DEF WriteTime
  <2>5. WriteTime(e) \in Seq(Int)
    BY <1>2, <2>2, <2>4, ConcatProperties
  <2> QED BY <2>1, <2>2, <2>4, <2>5
<1> QED
  BY <1>1, <1>3, <1>4, <1>5 DEF Times
\* Where the parts of an entry lie.
LEMMA EntryIsWritten ==
  ASSUME NEW e \in Entries, ShortEntry(e)
  PROVE  /\ WriteEntry(e) \in Seq(Int)
         /\ \A text \in Seq(Int), p \in Nat : Lies(text, WriteEntry(e), p) =>
              LET a == p + Len(WriteTime(e))
                  c == a + 1 + Len(WriteString(e.key))
              IN  /\ Lies(text, WriteTime(e), p) /\ Lies(text, <<0>>, a)
                  /\ Lies(text, WriteString(e.key), a + 1) /\ Lies(text, WriteString(e.value), c)
                  /\ p + Len(WriteEntry(e)) = c + Len(WriteString(e.value))
<1> DEFINE T == WriteTime(e)
           Z == <<0>>
           K == WriteString(e.key)
           V == WriteString(e.value)
<1>1. T \in Seq(Int)
  BY TimeIsWritten
<1>2. K \in Seq(Int) /\ V \in Seq(Int)
  BY StringIsWritten DEF Entries, ShortEntry
<1>3. Z \in Seq(Int) /\ Len(Z) = 1
  OBVIOUS
<1>4. WriteEntry(e) = T \o Z \o K \o V
  BY Zenon DEF WriteEntry, WriteTime
<1> HIDE DEF T, Z, K, V
<1>5. /\ T \o Z \in Seq(Int) /\ Len(T \o Z) = Len(T) + Len(Z)
      /\ Len(T) \in Nat /\ Len(K) \in Nat /\ Len(V) \in Nat
  BY <1>1, <1>2, <1>3, ConcatProperties, LenProperties
<1>6. T \o Z \o K \in Seq(Int) /\ Len(T \o Z \o K) = Len(T \o Z) + Len(K)
  BY <1>2, <1>5, ConcatProperties
<1>7. T \o Z \o K \o V \in Seq(Int) /\ Len(T \o Z \o K \o V) = Len(T \o Z \o K) + Len(V)
  BY <1>2, <1>6, ConcatProperties
<1>8. ASSUME NEW text \in Seq(Int), NEW p \in Nat, Lies(text, T \o Z \o K \o V, p)
      PROVE  /\ Lies(text, T, p) /\ Lies(text, Z, p + Len(T))
             /\ Lies(text, K, p + Len(T) + 1) /\ Lies(text, V, p + Len(T) + 1 + Len(K))
             /\ p + Len(T \o Z \o K \o V) = p + Len(T) + 1 + Len(K) + Len(V)
  <2>1. Lies(text, T \o Z \o K, p) /\ Lies(text, V, p + Len(T \o Z \o K))
    BY <1>2, <1>6, <1>8, LiesSplit
  <2>2. Lies(text, T \o Z, p) /\ Lies(text, K, p + Len(T \o Z))
    BY <1>2, <1>5, <2>1, LiesSplit
  <2>3. Lies(text, T, p) /\ Lies(text, Z, p + Len(T))
    BY <1>1, <1>3, <2>2, LiesSplit
  <2>4. /\ p + Len(T \o Z) = p + Len(T) + 1 /\ p + Len(T \o Z \o K) = p + Len(T) + 1 + Len(K)
        /\ p + Len(T \o Z \o K \o V) = p + Len(T) + 1 + Len(K) + Len(V)
    BY <1>3, <1>5, <1>6, <1>7
  <2> QED BY <2>1, <2>2, <2>3, <2>4
<1> QED
  BY <1>4, <1>7, <1>8 DEF T, Z, K, V

\* An opcode with the bytes of a time behind it.
LEMMA TimeBytes ==
  ASSUME NEW text, Begins(text), NEW code \in Int, NEW f \in Seq(Int), NEW w \in Nat, Len(f) = w,
         Lies(text, <<code>> \o f, pos), pos < Failed, NEW a, a = pos + Len(<<code>> \o f), NEW unit
  PROVE  /\ opcode.value = code /\ opcode.pos = pos + 1 /\ opcode.pos # Thrown
         /\ Holds(opcode.pos, w) <=> a <= Failed
         /\ a <= Failed => ReadInto(opcode.pos, w, unit) = [value |-> <<unit, f>>, pos |-> a]
         /\ ~(a <= Failed) => ReadInto(opcode.pos, w, unit) = [value |-> Uninitialised, pos |-> Failed]
<1> DEFINE C == <<code>>
<1>1. /\ text \in Seq(Int) /\ file \in Seq(Int) /\ Failed \in Nat /\ Len(file) \in Nat
      /\ Thrown = 0 /\ Throw.pos = Thrown
  BY LenProperties DEF Begins, Failed, Thrown, Throw
<1>2. pos \in Nat /\ pos >= 1 /\ pos + 1 # 0 /\ pos <= Failed /\ pos + 1 <= Failed
  BY <1>1 DEF Lies
<1>3. C \in Seq(Int) /\ Len(C) = 1 /\ Len(C) >= 1 /\ C[1] = code
  OBVIOUS
<1> HIDE DEF C
<1>4. Lies(text, C, pos) /\ Lies(text, f, pos + 1)
  <2>1. Lies(text, C \o f, pos)
    BY DEF C
  <2>2. Lies(text, C, pos) /\ Lies(text, f, pos + Len(C))
    BY <1>1, <1>3, <2>1, LiesSplit
  <2> QED BY <1>3, <2>2
<1>5. opcode = [value |-> C[1], pos |-> pos + 1]
  BY <1>2, <1>3, <1>4, ByteIsRead DEF opcode
<1>6. opcode.value = code /\ opcode.pos = pos + 1 /\ opcode.pos # Thrown
  BY <1>1, <1>2, <1>3, <1>5
<1>7. a = pos + 1 + w
  <2>1. Len(C \o f) = Len(C) + Len(f)
    BY <1>3, ConcatProperties
  <2>2. Len(C \o f) = 1 + w
    BY <1>3, <2>1
  <2> QED BY <1>2, <2>2 DEF C
<1>8. Holds(pos + 1, w) <=> a <= Failed
  BY <1>1, <1>2, <1>7 DEF Holds
<1>9. CASE a <= Failed
  <2>1. SubSeq(file, pos + 1, pos + 1 + w - 1) = f
    <3>1. pos + 1 + Len(f) <= Failed
      BY <1>7, <1>9
    <3> QED BY <1>4, <3>1, SliceIs
  <2>2. ReadInto(pos + 1, w, unit) = [value |-> <<unit, f>>, pos |-> pos + 1 + w]
    BY <1>8, <1>9, <2>1 DEF ReadInto
  <2> QED BY <1>6, <1>7, <1>8, <1>9, <2>2
<1>10. CASE ~(a <= Failed)
  <2>1. ReadInto(pos + 1, w, unit) = [value |-> Uninitialised, pos |-> Failed]
    BY <1>8, <1>10 DEF ReadInto
  <2> QED BY <1>6, <1>7, <1>8, <1>10, <2>1
<1> QED
  BY <1>9, <1>10

\* What the turn in front of an entry finds, or that it misses the end of it.
FindsTime(e, a) ==
  /\ opcode.pos # Thrown /\ opcode.value \in {0, Byte - 4, Byte - 3}
  /\ a <= Failed => Expiry.value = e.time /\ Expiry.pos = a
  /\ ~(a <= Failed) => Expiry.pos \in {Thrown, Failed}

LEMMA ExpiryIsRead ==
  ASSUME NEW text, Begins(text), NEW e \in Entries, Lies(text, WriteTime(e), pos),
         Lies(text, << 0 >>, pos + Len(WriteTime(e))), pos < Failed, current_expiry = NoTime
  PROVE  FindsTime(e, pos + Len(WriteTime(e)))
<1> DEFINE a == pos + Len(WriteTime(e))
           Z == <<0>>
<1>0. Z \in Seq(Int) /\ Len(Z) >= 1 /\ Z[1] = 0 /\ Lies(text, Z, a)
  OBVIOUS
<1>9. a = pos + Len(WriteTime(e))
  OBVIOUS
<1> HIDE DEF a, Z
<1>1. /\ Opcode.millis = Byte - 4 /\ Opcode.seconds = Byte - 3 /\ Byte \in Nat /\ Byte >= 24
      /\ Byte - 4 \in Int /\ Byte - 3 \in Int /\ Byte - 4 # Byte - 3
  BY ByteFacts
<1>2. /\ text \in Seq(Int) /\ file \in Seq(Int) /\ Failed \in Nat /\ Len(file) \in Nat
      /\ Thrown = 0 /\ Throw.pos = Thrown
  BY LenProperties DEF Begins, Failed, Thrown, Throw
<1>3. pos \in Nat /\ pos >= 1 /\ pos + 1 # 0 /\ pos <= Failed
  BY <1>2 DEF Lies
<1>4. Expiry =
        CASE opcode.value = Opcode.millis ->
               IF Holds(opcode.pos, 8) THEN ReadInto(opcode.pos, 8, 1) ELSE Throw
          [] opcode.value = Opcode.seconds -> ReadInto(opcode.pos, 4, 1000)
          [] OTHER -> [value |-> current_expiry, pos |-> pos]
  BY Zenon DEF Expiry
<1>5. ASSUME WriteTime(e) = <<>>, e.time = NoTime
      PROVE  FindsTime(e, a)
  <2>1. a = pos
    BY <1>3, <1>5, <1>9
  <2>2. Z \in Seq(Int) /\ Len(Z) >= 1 /\ Z[1] = 0 /\ Lies(text, Z, pos)
    BY <1>0, <2>1
  <2>3. read_uint8(pos) = [value |-> Z[1], pos |-> pos + 1]
    BY <1>3, <2>2, ByteIsRead
  <2>4. opcode.value = 0 /\ opcode.pos = pos + 1
    BY <2>2, <2>3 DEF opcode
  <2>5. opcode.value # Opcode.millis /\ opcode.value # Opcode.seconds
    BY <1>1, <2>4
  <2>6. Expiry = [value |-> current_expiry, pos |-> pos]
    BY <1>4, <2>5, Zenon
  <2>7. Expiry.value = e.time /\ Expiry.pos = a
    BY <1>5, <2>1, <2>6
  <2> QED BY <1>2, <1>3, <2>1, <2>4, <2>7 DEF FindsTime
<1>6. ASSUME NEW f \in Seq(Int), e.time = <<1, f>>, Len(f) = 8, WriteTime(e) = <<Byte - 4>> \o f
      PROVE  FindsTime(e, a)
  <2>1. /\ opcode.value = Byte - 4 /\ opcode.pos = pos + 1 /\ opcode.pos # Thrown
        /\ Holds(opcode.pos, 8) <=> a <= Failed
        /\ a <= Failed => ReadInto(opcode.pos, 8, 1) = [value |-> <<1, f>>, pos |-> a]
    <3> DEFINE code == Byte - 4
    <3>1. code \in Int /\ Lies(text, <<code>> \o f, pos) /\ a = pos + Len(<<code>> \o f)
      BY <1>1, <1>6, <1>9
    <3> HIDE DEF code
    <3> DEFINE unit == 1
               w == 8
    <3>2. w \in Nat /\ Len(f) = w
      BY <1>6
    <3> HIDE DEF unit, w
    <3>3. /\ opcode.value = code /\ opcode.pos = pos + 1 /\ opcode.pos # Thrown
          /\ Holds(opcode.pos, w) <=> a <= Failed
          /\ a <= Failed => ReadInto(opcode.pos, w, unit) = [value |-> <<unit, f>>, pos |-> a]
          /\ ~(a <= Failed) => ReadInto(opcode.pos, w, unit) = [value |-> Uninitialised, pos |-> Failed]
      BY <3>1, <3>2, TimeBytes
    <3> QED BY <3>3 DEF code, unit, w
  <2>2. opcode.value = Opcode.millis
    BY <1>1, <2>1
  <2>3. Expiry = IF Holds(opcode.pos, 8) THEN ReadInto(opcode.pos, 8, 1) ELSE Throw
    <3>1. opcode.value # Opcode.seconds
      BY <1>1, <2>2
    <3> QED BY <1>4, <2>2, <3>1, Zenon
  <2> QED BY <1>2, <1>6, <2>1, <2>3 DEF FindsTime
<1>7. ASSUME NEW f \in Seq(Int), e.time = <<1000, f>>, Len(f) = 4, WriteTime(e) = <<Byte - 3>> \o f
      PROVE  FindsTime(e, a)
  <2>1. /\ opcode.value = Byte - 3 /\ opcode.pos = pos + 1 /\ opcode.pos # Thrown
        /\ a <= Failed => ReadInto(opcode.pos, 4, 1000) = [value |-> <<1000, f>>, pos |-> a]
        /\ ~(a <= Failed) => ReadInto(opcode.pos, 4, 1000) = [value |-> Uninitialised, pos |-> Failed]
    <3> DEFINE code == Byte - 3
    <3>1. code \in Int /\ Lies(text, <<code>> \o f, pos) /\ a = pos + Len(<<code>> \o f)
      BY <1>1, <1>7, <1>9
    <3> HIDE DEF code
    <3> DEFINE unit == 1000
               w == 4
    <3>2. w \in Nat /\ Len(f) = w
      BY <1>7
    <3> HIDE DEF unit, w
    <3>3. /\ opcode.value = code /\ opcode.pos = pos + 1 /\ opcode.pos # Thrown
          /\ Holds(opcode.pos, w) <=> a <= Failed
          /\ a <= Failed => ReadInto(opcode.pos, w, unit) = [value |-> <<unit, f>>, pos |-> a]
          /\ ~(a <= Failed) => ReadInto(opcode.pos, w, unit) = [value |-> Uninitialised, pos |-> Failed]
      BY <3>1, <3>2, TimeBytes
    <3> QED BY <3>3 DEF code, unit, w
  <2>2. opcode.value = Opcode.seconds
    BY <1>1, <2>1
  <2>3. Expiry = ReadInto(opcode.pos, 4, 1000)
    <3>1. opcode.value # Opcode.millis
      BY <1>1, <2>2
    <3> QED BY <1>4, <2>2, <3>1, Zenon
  <2> QED BY <1>7, <2>1, <2>3 DEF FindsTime
<1>8. \/ e.time = NoTime /\ WriteTime(e) = <<>>
      \/ \E f \in Seq(Int) : e.time = <<1, f>> /\ Len(f) = 8 /\ WriteTime(e) = <<Byte - 4>> \o f
      \/ \E f \in Seq(Int) : e.time = <<1000, f>> /\ Len(f) = 4 /\ WriteTime(e) = <<Byte - 3>> \o f
  BY TimeIsWritten
<1>10. FindsTime(e, a)
  <2>1. CASE e.time = NoTime /\ WriteTime(e) = <<>>
    BY <1>5, <2>1
  <2>2. CASE \E f \in Seq(Int) : e.time = <<1, f>> /\ Len(f) = 8 /\ WriteTime(e) = <<Byte - 4>> \o f
    BY <1>6, <2>2
  <2>3. CASE \E f \in Seq(Int) : e.time = <<1000, f>> /\ Len(f) = 4 /\ WriteTime(e) = <<Byte - 3>> \o f
    BY <1>7, <2>3
  <2> QED BY <1>8, <2>1, <2>2, <2>3
<1> QED
  BY <1>10 DEF a

\* What the turn in front of an entry reads, or that it misses the end of it.
ReadsEntry(e, q) ==
  LET type  == read_uint8(Expiry.pos)
      key   == read_string(type.pos)
      value == read_string(key.pos)
  IN  /\ opcode.pos # Thrown /\ opcode.value \in {0, Byte - 4, Byte - 3}
      /\ type.pos = Thrown \/ type.value = 0
      /\ q <= Failed => /\ Expiry.value = e.time /\ key.value = e.key /\ value.value = e.value
                        /\ value.pos = q
      /\ ~(q <= Failed) => value.pos \in {Thrown, Failed}

LEMMA EntryIsRead ==
  ASSUME NEW text, Begins(text), NEW e \in Entries, ShortEntry(e), Lies(text, WriteEntry(e), pos),
         pos < Failed, current_expiry = NoTime
  PROVE  ReadsEntry(e, pos + Len(WriteEntry(e)))
<1> DEFINE Z == <<0>>
           T == WriteTime(e)
           K == WriteString(e.key)
           V == WriteString(e.value)
           a == pos + Len(T)
           c == a + 1 + Len(K)
           q == c + Len(V)
           time  == Expiry
           type  == read_uint8(time.pos)
           key   == read_string(type.pos)
           value == read_string(key.pos)
<1>1. /\ text \in Seq(Int) /\ file \in Seq(Int) /\ Failed \in Nat /\ Len(file) \in Nat
      /\ Thrown = 0 /\ Throw.pos = Thrown
  BY LenProperties DEF Begins, Failed, Thrown, Throw
<1>2. pos \in Nat /\ pos >= 1
  BY DEF Lies
<1>3. /\ Lies(text, T, pos) /\ Lies(text, Z, a) /\ Lies(text, K, a + 1) /\ Lies(text, V, c)
      /\ pos + Len(WriteEntry(e)) = q
  BY <1>1, <1>2, EntryIsWritten
<1>4. e.key \in Strings /\ e.value \in Strings /\ ShortString(e.key) /\ ShortString(e.value)
  BY DEF Entries, ShortEntry
<1>5. Len(T) \in Nat /\ Len(K) \in Nat /\ Len(V) \in Nat
  BY <1>4, TimeIsWritten, StringIsWritten, LenProperties
<1>6. FindsTime(e, a)
  BY <1>3, ExpiryIsRead
<1>7. Z \in Seq(Int) /\ Len(Z) = 1 /\ Len(Z) >= 1 /\ Z[1] = 0
  OBVIOUS
<1>8. a \in Nat /\ a >= 1 /\ c \in Nat /\ c >= a + 1 /\ q >= c /\ q \in Nat
  BY <1>2, <1>5
<1>9. c = (a + 1) + Len(K) /\ q = c + Len(V)
  OBVIOUS
<1>10. /\ a + 1 <= Failed =>
            /\ c <= Failed => read_string(a + 1).value = e.key /\ read_string(a + 1).pos = c
            /\ ~(c <= Failed) => read_string(a + 1).pos \in {Thrown, Failed}
       /\ c <= Failed =>
            /\ q <= Failed => read_string(c).value = e.value /\ read_string(c).pos = q
            /\ ~(q <= Failed) => read_string(c).pos \in {Thrown, Failed}
  BY <1>3, <1>4, EncodedStringIsRead
<1> HIDE DEF Z, T, K, V, a, c, q, time, type, key, value
<1>11. ASSUME type.pos \in {Thrown, Failed} PROVE value.pos \in {Thrown, Failed}
  <2>1. key = Throw
    BY <1>1, <1>11, NothingIsRead DEF key
  <2>2. key.pos \in {Thrown, Failed}
    BY <1>1, <2>1
  <2>3. value = Throw
    BY <1>1, <2>2, NothingIsRead DEF value
  <2> QED BY <1>1, <2>3
<1>12. ASSUME key.pos \in {Thrown, Failed} PROVE value.pos \in {Thrown, Failed}
  <2>1. value = Throw
    BY <1>1, <1>12, NothingIsRead DEF value
  <2> QED BY <1>1, <2>1
<1>13. CASE ~(a < Failed)
  <2>1. time.pos \in {Thrown, Failed}
    <3>1. CASE a <= Failed
      <4>1. a = Failed
        BY <1>1, <1>8, <1>13, <3>1
      <4> QED BY <1>6, <4>1 DEF FindsTime, time
    <3>2. CASE ~(a <= Failed)
      BY <1>6, <3>2 DEF FindsTime, time
    <3> QED BY <3>1, <3>2
  <2>2. type = Throw
    BY <1>1, <2>1, NothingIsRead DEF type
  <2>3. type.pos = Thrown
    BY <1>1, <2>2
  <2>4. ~(q <= Failed)
    BY <1>1, <1>8, <1>13
  <2>5. value.pos \in {Thrown, Failed}
    BY <1>11, <2>3
  <2> QED BY <1>3, <1>6, <2>3, <2>4, <2>5 DEF ReadsEntry, FindsTime, time, type, key, value
<1>14. CASE a < Failed
  <2>1. time.pos = a /\ time.value = e.time /\ a <= Failed /\ a + 1 <= Failed
    <3>1. a <= Failed /\ a + 1 <= Failed
      BY <1>1, <1>8, <1>14
    <3> QED BY <1>6, <3>1 DEF FindsTime, time
  <2>2. type = [value |-> Z[1], pos |-> a + 1]
    BY <1>3, <1>7, <1>14, <2>1, ByteIsRead DEF type
  <2>3. type.pos = a + 1 /\ type.value = 0
    BY <1>7, <2>2
  <2>4. CASE ~(c <= Failed)
    <3>1. key.pos \in {Thrown, Failed}
      BY <1>10, <2>1, <2>3, <2>4 DEF key
    <3>2. value.pos \in {Thrown, Failed}
      BY <1>12, <3>1
    <3>3. ~(q <= Failed)
      BY <1>1, <1>8, <2>4
    <3> QED BY <1>3, <1>6, <2>3, <3>2, <3>3 DEF ReadsEntry, FindsTime, time, type, key, value
  <2>5. CASE c <= Failed
    <3>1. key.value = e.key /\ key.pos = c
      BY <1>10, <2>1, <2>3, <2>5 DEF key
    <3>2. /\ q <= Failed => value.value = e.value /\ value.pos = q
          /\ ~(q <= Failed) => value.pos \in {Thrown, Failed}
      BY <1>10, <2>5, <3>1 DEF value
    <3> QED BY <1>3, <1>6, <2>1, <2>3, <3>1, <3>2 DEF ReadsEntry, FindsTime, time, type, key, value
  <2> QED BY <2>4, <2>5
<1> QED
  BY <1>13, <1>14
-----------------------------------------------------------------------------
(* The whole file *)

\* What the file begins with, in front of its entries.
AuxName  == <<"text", <<1>>>>
AuxValue == <<"int", 7>>
Prelude(db) ==
  Magic \o <<0, 0, 1, 1>>
  \o <<Opcode.aux>> \o WriteString(AuxName) \o WriteString(AuxValue)
  \o <<Opcode.select>> \o WriteLength(0)
  \o <<Opcode.resize>> \o WriteLength(Len(db)) \o WriteLength(0)

AtSelect == 11 + Len(WriteString(AuxName)) + Len(WriteString(AuxValue))
AtResize == AtSelect + 1 + Len(WriteLength(0))
AtEntries(db) == AtResize + 1 + Len(WriteLength(Len(db))) + Len(WriteLength(0))

PreludeLies(text, db) ==
  /\ Lies(text, <<Opcode.aux>>, 10)
  /\ Lies(text, WriteString(AuxName), 11)
  /\ Lies(text, WriteString(AuxValue), 11 + Len(WriteString(AuxName)))
  /\ Lies(text, <<Opcode.select>>, AtSelect) /\ Lies(text, WriteLength(0), AtSelect + 1)
  /\ Lies(text, <<Opcode.resize>>, AtResize) /\ Lies(text, WriteLength(Len(db)), AtResize + 1)
  /\ Lies(text, WriteLength(0), AtResize + 1 + Len(WriteLength(Len(db))))

LEMMA Associative ==
  ASSUME NEW S, NEW a \in Seq(S), NEW b \in Seq(S), NEW c \in Seq(S)
  PROVE  (a \o b) \o c = a \o (b \o c)
BY ConcatAssociative, SMTT(60)

LEMMA IntAssociative == \A a, b, c \in Seq(Int) : a \o (b \o c) = (a \o b) \o c
<1> DEFINE S == Int
<1> HIDE DEF S
<1>1. \A a, b, c \in Seq(S) : a \o (b \o c) = (a \o b) \o c
  BY Associative
<1> QED
  BY <1>1, Zenon DEF S

LEMMA ConcatInt ==
  ASSUME NEW a \in Seq(Int), NEW b \in Seq(Int)
  PROVE  /\ a \o b \in Seq(Int) /\ Len(a \o b) = Len(a) + Len(b) /\ Len(a \o b) \in Nat
         /\ \A c \in Seq(Int) : a \o (b \o c) = (a \o b) \o c
<1>1. a \o b \in Seq(Int) /\ Len(a \o b) = Len(a) + Len(b) /\ Len(a \o b) \in Nat
  BY ConcatProperties, LenProperties
<1>2. \A c \in Seq(Int) : a \o (b \o c) = (a \o b) \o c
  BY IntAssociative, Zenon
<1> QED
  BY <1>1, <1>2

LEMMA AuxIsShort ==
  /\ AuxName \in Strings /\ AuxValue \in Strings
  /\ ShortString(AuxName) /\ ShortString(AuxValue)
<1>1. Byte \in Nat /\ Byte >= 24 /\ Low \in Nat /\ Low >= 6
  BY ByteFacts
<1>2. AuxName \in Strings
  <2>1. 1 \in 0..(Byte - 1)
    BY <1>1
  <2>2. <<1>> \in Seq(0..(Byte - 1))
    BY <2>1
  <2>3. AuxName \in Texts
    BY <2>2 DEF AuxName, Texts
  <2> QED BY <2>3 DEF Strings
<1>3. AuxValue \in Strings
  <2> DEFINE B == Byte
  <2>1. B \in Nat /\ B >= 24
    BY <1>1
  <2> HIDE DEF B
  <2>2. B * B >= 24 /\ B * B \in Nat
    BY <2>1
  <2>3. B * B * B >= 24 /\ B * B * B \in Nat
    BY <2>1, <2>2
  <2>4. B * B * B * B >= 24 /\ B * B * B * B \in Nat
    BY <2>1, <2>3
  <2>5. -(B * B * B * B) <= 2 * 7 /\ 2 * 7 < B * B * B * B
    BY <2>4
  <2>6. Fits(7, 4)
    BY <2>5 DEF Fits, Numbers, B
  <2>7. AuxValue \in {"int"} \X {n \in Int : Fits(n, 4)}
    BY <2>6 DEF AuxValue
  <2> QED BY <2>7 DEF Strings
<1>4. ShortString(AuxName)
  <2>1. Len(<<1>>) < Low * Byte
    <3>1. Low * Byte >= Byte
      BY <1>1
    <3> QED BY <1>1, <3>1
  <2> QED BY <2>1 DEF ShortString, AuxName
<1>5. ShortString(AuxValue)
  BY DEF ShortString, AuxValue
<1> QED
  BY <1>2, <1>3, <1>4, <1>5

LEMMA PreludeIsLaid ==
  ASSUME NEW text \in Seq(Int), NEW db, Len(db) \in Nat, Len(db) < Low * Byte
  PROVE  /\ Prelude(db) \in Seq(Int) /\ Len(Prelude(db)) + 1 = AtEntries(db)
         /\ Lies(text, Prelude(db), 1) => PreludeLies(text, db)
<1> DEFINE M == Magic \o <<0, 0, 1, 1>>
           A == <<Opcode.aux>>
           N == WriteString(AuxName)
           V == WriteString(AuxValue)
           S == <<Opcode.select>>
           Z == WriteLength(0)
           R == <<Opcode.resize>>
           L == WriteLength(Len(db))
           p2 == M \o A
           p3 == p2 \o N
           p4 == p3 \o V
           p5 == p4 \o S
           p6 == p5 \o Z
           p7 == p6 \o R
           p8 == p7 \o L
           p9 == p8 \o Z
<1>1. M \in Seq(Int) /\ Len(M) = 9
  BY DEF Magic
<1>2. /\ A \in Seq(Int) /\ Len(A) = 1 /\ S \in Seq(Int) /\ Len(S) = 1
      /\ R \in Seq(Int) /\ Len(R) = 1
  BY ByteFacts
<1>3. N \in Seq(Int) /\ V \in Seq(Int)
  BY AuxIsShort, StringIsWritten
<1>4. Z \in Seq(Int) /\ L \in Seq(Int)
  <2>1. 0 \in Nat /\ 0 < Low * Byte
    <3>1. Low \in Nat /\ Low >= 6 /\ Byte \in Nat /\ Byte >= 24
      BY ByteFacts
    <3>2. Low * Byte >= Byte
      BY <3>1
    <3> QED BY <3>1, <3>2
  <2> QED BY <2>1, LengthIsWritten
<1>5. Prelude(db) = p9
  BY Zenon DEF Prelude
<1> HIDE DEF M, A, N, V, S, Z, R, L
<1>12. p2 \in Seq(Int) /\ Len(p2) = Len(M) + Len(A)
  BY <1>1, <1>2, ConcatInt
<1> HIDE DEF p2
<1>13. p3 \in Seq(Int) /\ Len(p3) = Len(p2) + Len(N)
  BY <1>3, <1>12, ConcatInt
<1> HIDE DEF p3
<1>14. p4 \in Seq(Int) /\ Len(p4) = Len(p3) + Len(V)
  BY <1>3, <1>13, ConcatInt
<1> HIDE DEF p4
<1>15. p5 \in Seq(Int) /\ Len(p5) = Len(p4) + Len(S)
  BY <1>2, <1>14, ConcatInt
<1> HIDE DEF p5
<1>16. p6 \in Seq(Int) /\ Len(p6) = Len(p5) + Len(Z)
  BY <1>4, <1>15, ConcatInt
<1> HIDE DEF p6
<1>17. p7 \in Seq(Int) /\ Len(p7) = Len(p6) + Len(R)
  BY <1>2, <1>16, ConcatInt
<1> HIDE DEF p7
<1>18. p8 \in Seq(Int) /\ Len(p8) = Len(p7) + Len(L)
  BY <1>4, <1>17, ConcatInt
<1> HIDE DEF p8
<1>19. p9 \in Seq(Int) /\ Len(p9) = Len(p8) + Len(Z)
  BY <1>4, <1>18, ConcatInt
<1> HIDE DEF p9
<1>20. Len(N) \in Nat /\ Len(V) \in Nat /\ Len(Z) \in Nat /\ Len(L) \in Nat
  BY <1>3, <1>4, LenProperties
<1>21. /\ Len(M) + 1 = 10 /\ Len(p2) + 1 = 11 /\ Len(p3) + 1 = 11 + Len(N)
       /\ Len(p4) + 1 = AtSelect /\ Len(p5) + 1 = AtSelect + 1
       /\ Len(p6) + 1 = AtResize /\ Len(p7) + 1 = AtResize + 1
       /\ Len(p8) + 1 = AtResize + 1 + Len(L) /\ Len(p9) + 1 = AtEntries(db)
  <2>1. Len(M) = 9 /\ Len(p2) = 10 /\ Len(p3) = 10 + Len(N)
    BY <1>1, <1>2, <1>12, <1>13
  <2>2. Len(p4) = 10 + Len(N) + Len(V) /\ Len(p5) = 11 + Len(N) + Len(V)
    BY <1>2, <1>14, <1>15, <1>20, <2>1
  <2>3. Len(p4) + 1 = AtSelect /\ Len(p5) = AtSelect /\ AtSelect \in Nat
    BY <1>20, <2>2 DEF AtSelect, N, V
  <2>4. Len(p6) + 1 = AtResize /\ Len(p7) = AtResize /\ AtResize \in Nat
    BY <1>2, <1>16, <1>17, <1>20, <2>3 DEF AtResize, Z
  <2>5. Len(p8) + 1 = AtResize + 1 + Len(L) /\ Len(p9) + 1 = AtResize + 1 + Len(L) + Len(Z)
    BY <1>18, <1>19, <1>20, <2>4
  <2>6. Len(p9) + 1 = AtEntries(db)
    BY <2>5 DEF AtEntries, L, Z
  <2>7. Len(M) + 1 = 10 /\ Len(p2) + 1 = 11 /\ Len(p3) + 1 = 11 + Len(N) /\ Len(p5) + 1 = AtSelect + 1
        /\ Len(p7) + 1 = AtResize + 1
    BY <1>20, <2>1, <2>3, <2>4
  <2> QED BY <2>3, <2>4, <2>5, <2>6, <2>7
<1>22. ASSUME Lies(text, p9, 1) PROVE PreludeLies(text, db)
  <2>1. Lies(text, p8, 1) /\ Lies(text, Z, Len(p8) + 1)
    BY <1>4, <1>18, <1>22, BeginsSplit DEF p9
  <2>2. Lies(text, p7, 1) /\ Lies(text, L, Len(p7) + 1)
    BY <1>4, <1>17, <2>1, BeginsSplit DEF p8
  <2>3. Lies(text, p6, 1) /\ Lies(text, R, Len(p6) + 1)
    BY <1>2, <1>16, <2>2, BeginsSplit DEF p7
  <2>4. Lies(text, p5, 1) /\ Lies(text, Z, Len(p5) + 1)
    BY <1>4, <1>15, <2>3, BeginsSplit DEF p6
  <2>5. Lies(text, p4, 1) /\ Lies(text, S, Len(p4) + 1)
    BY <1>2, <1>14, <2>4, BeginsSplit DEF p5
  <2>6. Lies(text, p3, 1) /\ Lies(text, V, Len(p3) + 1)
    BY <1>3, <1>13, <2>5, BeginsSplit DEF p4
  <2>7. Lies(text, p2, 1) /\ Lies(text, N, Len(p2) + 1)
    BY <1>3, <1>12, <2>6, BeginsSplit DEF p3
  <2>8. Lies(text, A, Len(M) + 1)
    BY <1>2, <1>12, <2>7, BeginsSplit DEF p2
  <2> QED BY <1>21, <2>1, <2>2, <2>3, <2>4, <2>5, <2>6, <2>7, <2>8, Zenon
          DEF PreludeLies, A, N, V, S, Z, R, L
<1> QED
  BY <1>5, <1>19, <1>21, <1>22
\* The lengths of this database are all written in one of the two short forms.
ShortDatabase(db) ==
  /\ db \in Seq(Entries) /\ Len(db) < Low * Byte
  /\ \A n \in 1..Len(db) : ShortEntry(db[n])

\* Where each entry begins, and the end behind the last one.
EntriesLie(text, db, at) ==
  /\ at[0] = AtEntries(db)
  /\ \A k \in 0..(Len(db) - 1) : /\ Lies(text, WriteEntry(db[k + 1]), at[k])
                                 /\ at[k + 1] = at[k] + Len(WriteEntry(db[k + 1]))
  /\ Lies(text, <<Opcode.end>>, at[Len(db)]) /\ at[Len(db)] = Len(text)

\* The entries, one behind the other.
LEMMA EntriesAreJoined ==
  ASSUME NEW db, ShortDatabase(db)
  PROVE  \E F : /\ F[0] = <<>> /\ \A k \in 0..Len(db) : F[k] \in Seq(Int)
                /\ \A k \in 0..(Len(db) - 1) : F[k + 1] = F[k] \o WriteEntry(db[k + 1])
                /\ FlattenSeq([n \in DOMAIN db |-> WriteEntry(db[n])]) = F[Len(db)]
<1> DEFINE m == Len(db)
           seqs == [n \in DOMAIN db |-> WriteEntry(db[n])]
<1>1. m \in Nat /\ DOMAIN db = 1..m /\ \A n \in 1..m : WriteEntry(db[n]) \in Seq(Int)
  <2>1. m \in Nat /\ DOMAIN db = 1..m /\ \A n \in 1..m : db[n] \in Entries /\ ShortEntry(db[n])
    BY LenProperties, ElementOfSeq DEF ShortDatabase
  <2> HIDE DEF m
  <2> QED BY <2>1, EntryIsWritten
<1>2. Len(seqs) = m /\ \A n \in 1..m : seqs[n] = WriteEntry(db[n])
  BY <1>1
<1>3. CASE m = 0
  <2>1. seqs = <<>>
    BY <1>1, <1>3
  <2>2. FlattenSeq(seqs) = <<>>
    <3>1. Len(seqs) = 0
      BY <1>2, <1>3
    <3> HIDE DEF seqs
    <3>2. FlattenSeq(seqs) = seqs
      BY <3>1, Zenon DEF FlattenSeq
    <3> QED BY <2>1, <3>2
  <2> DEFINE F == [k \in {0} |-> <<>>]
  <2>3. F[0] = <<>> /\ <<>> \in Seq(Int)
    OBVIOUS
  <2>4. (\A k \in 0..m : k = 0) /\ 0..(m - 1) = {}
    BY <1>3
  <2> HIDE DEF F, seqs
  <2>5. FlattenSeq(seqs) = F[m]
    BY <1>3, <2>2, <2>3
  <2> QED BY <2>3, <2>4, <2>5 DEF seqs
<1>4. CASE m # 0
  <2>1. PICK f : Joined(seqs, m, f) /\ FlattenSeq(seqs) = f[m]
    <3> HIDE DEF seqs, m
    <3>1. Len(seqs) \in Nat /\ Len(seqs) # 0
      BY <1>1, <1>2, <1>4
    <3> QED BY <1>2, <3>1, FlattenUnfolds
  <2> HIDE DEF seqs, m
  <2>2. \A i \in 1..m : f[i] = IF i = 1 THEN seqs[i] ELSE f[i - 1] \o seqs[i]
    BY <2>1, Zenon DEF Joined
  <2> DEFINE F == [k \in 0..m |-> IF k = 0 THEN <<>> ELSE f[k]]
  <2>3. F[0] = <<>> /\ <<>> \in Seq(Int) /\ F[m] = f[m] /\ \A k \in 0..m : k # 0 => F[k] = f[k]
    BY <1>1, <1>4
  <2> HIDE DEF F
  <2>4. ASSUME NEW k \in 0..(m - 1) PROVE F[k + 1] = F[k] \o WriteEntry(db[k + 1])
    <3>1. k + 1 \in 1..m /\ k + 1 \in 0..m /\ k \in 0..m /\ k + 1 # 0 /\ (k + 1) - 1 = k
      BY <1>1
    <3> DEFINE w == WriteEntry(db[k + 1])
    <3>2. w \in Seq(Int) /\ seqs[k + 1] = w /\ <<>> \o w = w
      BY <1>1, <1>2, <3>1, ConcatEmptySeq
    <3> HIDE DEF w
    <3>3. F[k + 1] = IF k + 1 = 1 THEN w ELSE f[k] \o w
      BY <2>2, <2>3, <3>1, <3>2
    <3>4. CASE k = 0
      <4>1. F[k] = <<>> /\ F[k + 1] = w
        BY <2>3, <3>3, <3>4
      <4>2. F[k + 1] = F[k] \o w
        BY <3>2, <4>1, Zenon
      <4> QED BY <4>2 DEF w
    <3>5. CASE k # 0
      <4>1. F[k] = f[k] /\ k + 1 # 1
        BY <2>3, <3>1, <3>5
      <4> QED BY <3>3, <4>1 DEF w
    <3> QED BY <3>4, <3>5
  <2> DEFINE T == {k \in Nat : k <= m => F[k] \in Seq(Int)}
  <2>5. 0 \in T
    BY <2>3
  <2>6. ASSUME NEW k \in T PROVE k + 1 \in T
    <3>1. CASE k + 1 <= m
      <4>1. k \in 0..(m - 1) /\ k + 1 \in 1..m /\ k <= m
        BY <1>1, <3>1
      <4>2. F[k] \in Seq(Int) /\ WriteEntry(db[k + 1]) \in Seq(Int)
        BY <1>1, <4>1
      <4>3. F[k + 1] \in Seq(Int)
        BY <2>4, <4>1, <4>2, ConcatInt
      <4> QED BY <4>3
    <3> QED BY <3>1
  <2>7. T = Nat
    <3>1. T \in SUBSET Nat
      OBVIOUS
    <3> HIDE DEF T
    <3> QED BY <2>5, <2>6, <3>1, NatSetInduction
  <2>8. \A k \in 0..m : F[k] \in Seq(Int)
    BY <1>1, <2>7
  <2> QED BY <2>1, <2>3, <2>4, <2>8 DEF seqs, m
<1> QED
  BY <1>3, <1>4

LEMMA FileIsLaid ==
  ASSUME NEW db, ShortDatabase(db)
  PROVE  /\ Write(db) \in Seq(Int) /\ PreludeLies(Write(db), db)
         /\ \E at : EntriesLie(Write(db), db, at)
<1> DEFINE m == Len(db)
           P == Prelude(db)
           E == <<Opcode.end>>
           W == Write(db)
           flat == FlattenSeq([n \in DOMAIN db |-> WriteEntry(db[n])])
<1>1. /\ m \in Nat /\ m < Low * Byte
      /\ \A k \in 0..(m - 1) : WriteEntry(db[k + 1]) \in Seq(Int)
  <2>1. m \in Nat /\ m < Low * Byte /\ \A n \in 1..m : db[n] \in Entries /\ ShortEntry(db[n])
    BY LenProperties, ElementOfSeq DEF ShortDatabase
  <2> HIDE DEF m
  <2>2. \A k \in 0..(m - 1) : k + 1 \in 1..m
    BY <2>1
  <2> QED BY <2>1, <2>2, EntryIsWritten
<1>2. PICK F : /\ F[0] = <<>> /\ \A k \in 0..m : F[k] \in Seq(Int)
               /\ \A k \in 0..(m - 1) : F[k + 1] = F[k] \o WriteEntry(db[k + 1])
               /\ flat = F[m]
  BY EntriesAreJoined, Zenon
<1>3. W = P \o flat \o E
  BY Zenon DEF Write, Prelude, AuxName, AuxValue
<1>4. E \in Seq(Int) /\ Len(E) = 1
  BY ByteFacts
<1>5. P \in Seq(Int) /\ Len(P) + 1 = AtEntries(db) /\ \A text \in Seq(Int) : Lies(text, P, 1) => PreludeLies(text, db)
  <2> DEFINE none == <<>>
  <2>1. none \in Seq(Int)
    OBVIOUS
  <2> HIDE DEF P, none
  <2>2. \A text \in Seq(Int) : /\ Prelude(db) \in Seq(Int) /\ Len(Prelude(db)) + 1 = AtEntries(db)
                               /\ Lies(text, Prelude(db), 1) => PreludeLies(text, db)
    BY <1>1, PreludeIsLaid
  <2>3. Prelude(db) \in Seq(Int) /\ Len(Prelude(db)) + 1 = AtEntries(db)
    BY <2>1, <2>2
  <2> QED BY <2>2, <2>3 DEF P
<1> HIDE DEF m, P, E, W, flat
<1>6. flat \in Seq(Int) /\ P \o flat \in Seq(Int)
  <2>1. m \in 0..m
    BY <1>1
  <2> QED BY <1>2, <1>5, <2>1, ConcatInt
<1>7. W \in Seq(Int) /\ Len(W) = Len(P \o flat) + 1 /\ Len(P \o flat) \in Nat
  <2>1. W \in Seq(Int) /\ Len(W) = Len(P \o flat) + Len(E) /\ Len(P \o flat) \in Nat
    BY <1>3, <1>4, <1>6, ConcatInt, LenProperties
  <2> QED BY <1>4, <2>1
<1>8. Lies(W, P \o flat, 1) /\ Lies(W, E, Len(W))
  <2>1. Lies(W, (P \o flat) \o E, 1)
    BY <1>3, <1>7, WholeLies
  <2> QED BY <1>4, <1>6, <1>7, <2>1, BeginsSplit
<1> DEFINE T == {d \in Nat : d <= m => Lies(W, P \o F[m - d], 1)}
<1>9. \A k \in 0..m : P \o F[k] \in Seq(Int) /\ Len(P \o F[k]) \in Nat
  BY <1>2, <1>5, ConcatInt
<1>10. ASSUME NEW k \in 0..(m - 1), Lies(W, P \o F[k + 1], 1)
       PROVE  /\ Lies(W, P \o F[k], 1) /\ Lies(W, WriteEntry(db[k + 1]), Len(P \o F[k]) + 1)
              /\ Len(P \o F[k + 1]) = Len(P \o F[k]) + Len(WriteEntry(db[k + 1]))
  <2> DEFINE a == P \o F[k]
             w == WriteEntry(db[k + 1])
  <2>1. k \in 0..m /\ w \in Seq(Int) /\ F[k] \in Seq(Int) /\ a \in Seq(Int) /\ F[k + 1] = F[k] \o w
    <3>1. k \in 0..m
      BY <1>1
    <3>2. w \in Seq(Int)
      BY <1>1
    <3>3. F[k + 1] = F[k] \o w
      BY <1>2
    <3> QED BY <1>2, <1>9, <3>1, <3>2, <3>3
  <2>2. P \o F[k + 1] = a \o w
    <3> DEFINE x == F[k]
    <3>1. x \in Seq(Int) /\ w \in Seq(Int) /\ F[k + 1] = x \o w
      BY <2>1
    <3> HIDE DEF x, w
    <3>2. P \o (x \o w) = (P \o x) \o w
      BY <1>5, <3>1, ConcatInt
    <3> QED BY <3>1, <3>2 DEF x
  <2> HIDE DEF a, w
  <2>3. Lies(W, a \o w, 1)
    BY <1>10, <2>2
  <2>4. Lies(W, a, 1) /\ Lies(W, w, Len(a) + 1) /\ Len(a \o w) = Len(a) + Len(w)
    BY <1>7, <2>1, <2>3, BeginsSplit, ConcatInt
  <2> QED BY <2>2, <2>4 DEF a, w
<1>11. 0 \in T
  BY <1>1, <1>2, <1>8
<1>12. ASSUME NEW d \in T PROVE d + 1 \in T
  <2>1. CASE d + 1 <= m
    <3>1. d \in Nat /\ d <= m /\ m - (d + 1) \in 0..(m - 1) /\ (m - (d + 1)) + 1 = m - d
      BY <1>1, <2>1
    <3>2. Lies(W, P \o F[m - d], 1)
      BY <3>1
    <3>3. Lies(W, P \o F[m - (d + 1)], 1)
      BY <1>10, <3>1, <3>2
    <3> QED BY <3>3
  <2> QED BY <2>1
<1>13. T = Nat
  <2>1. T \in SUBSET Nat
    OBVIOUS
  <2> HIDE DEF T
  <2> QED BY <1>11, <1>12, <2>1, NatSetInduction
<1>14. \A k \in 0..m : Lies(W, P \o F[k], 1)
  <2>1. \A k \in 0..m : m - k \in Nat /\ m - k <= m /\ m - (m - k) = k
    BY <1>1
  <2> QED BY <1>13, <2>1
<1> DEFINE at == [k \in 0..m |-> Len(P \o F[k]) + 1]
<1>15. 0 \in 0..m /\ m \in 0..m /\ \A k \in 0..(m - 1) : k \in 0..m /\ k + 1 \in 0..m
  BY <1>1
<1>16. \A k \in 0..m : at[k] = Len(P \o F[k]) + 1
  OBVIOUS
<1> HIDE DEF at, T
<1>17. at[0] = AtEntries(db)
  <2>1. P \o <<>> = P
    BY <1>5, ConcatEmptySeq
  <2> QED BY <1>2, <1>5, <1>15, <1>16, <2>1
<1>18. ASSUME NEW k \in 0..(m - 1)
       PROVE  /\ Lies(W, WriteEntry(db[k + 1]), at[k])
              /\ at[k + 1] = at[k] + Len(WriteEntry(db[k + 1]))
  <2>1. /\ Lies(W, WriteEntry(db[k + 1]), Len(P \o F[k]) + 1)
        /\ Len(P \o F[k + 1]) = Len(P \o F[k]) + Len(WriteEntry(db[k + 1]))
    BY <1>10, <1>14, <1>15
  <2>2. at[k] = Len(P \o F[k]) + 1 /\ at[k + 1] = Len(P \o F[k + 1]) + 1
    BY <1>15, <1>16
  <2>3. Len(P \o F[k]) \in Nat /\ Len(WriteEntry(db[k + 1])) \in Nat
    BY <1>1, <1>9, <1>15, LenProperties
  <2> DEFINE x == Len(P \o F[k])
             y == Len(WriteEntry(db[k + 1]))
  <2>4. x \in Nat /\ y \in Nat /\ at[k] = x + 1 /\ at[k + 1] = (x + y) + 1
    BY <2>1, <2>2, <2>3
  <2>5. Lies(W, WriteEntry(db[k + 1]), at[k])
    BY <2>1, <2>2
  <2> HIDE DEF x, y
  <2>6. at[k + 1] = at[k] + y
    BY <2>4
  <2> QED BY <2>5, <2>6 DEF y
<1>19. Lies(W, E, at[m]) /\ at[m] = Len(W)
  BY <1>2, <1>7, <1>8, <1>15, <1>16
<1>20. PreludeLies(W, db)
  <2>1. Lies(W, P, 1)
    <3>1. P \o <<>> = P
      BY <1>5, ConcatEmptySeq
    <3> QED BY <1>2, <1>14, <1>15, <3>1
  <2> QED BY <1>5, <1>7, <2>1
<1>21. EntriesLie(W, db, at)
  BY <1>17, <1>18, <1>19 DEF EntriesLie, m, E
<1> QED
  BY <1>7, <1>20, <1>21 DEF W
-----------------------------------------------------------------------------
(* The invariant *)

\* What the two theorems assume: every length has one of the two short forms.
ShortDatabases == \A db \in Databases : ShortDatabase(db)

Starts(db) == CHOOSE at : EntriesLie(Write(db), db, at)

\* In front of entry k + 1, or of the end, the first k have been taken.
EntryPlace(db, k, p, es) ==
  /\ p = Starts(db)[k]
  /\ es \in Seq(Entries) /\ Len(es) = k /\ \A n \in 1..k : es[n] = db[n]

\* Where a turn begins: behind the last byte, in front of one of the fields
\* that are dropped, or in front of an entry or the end.
Place(db, last, p, es, time) ==
  \/ p = last
  \/ /\ p <= last /\ time = NoTime
     /\ \/ es = <<>> /\ p \in {10, AtSelect, AtResize}
        \/ \E k \in 0..Len(db) : EntryPlace(db, k, p, es)

RdbInv ==
  /\ database \in Databases /\ Begins(Write(database))
  /\ whole <=> Len(file) = Len(Write(database))
  /\ stage = "header" => entries = <<>> /\ current_expiry = NoTime
  /\ stage = "entries" => Place(database, Failed, pos, entries, current_expiry)
  /\ stage = "loaded" => whole /\ entries = database

LEMMA StartsLie ==
  ASSUME NEW db, ShortDatabase(db)
  PROVE  /\ Write(db) \in Seq(Int) /\ PreludeLies(Write(db), db)
         /\ EntriesLie(Write(db), db, Starts(db))
<1>1. \E at : EntriesLie(Write(db), db, at)
  BY FileIsLaid
<1>2. EntriesLie(Write(db), db, Starts(db))
  BY <1>1, Zenon DEF Starts
<1> QED
  BY <1>2, FileIsLaid

\* The turn has an opcode: which one it is, and where it stands.
Dropped(code, at) ==
  entries = <<>> /\ pos = at /\ opcode.value = code /\ opcode.pos = at + 1
AtAnEntry(k) ==
  /\ EntryPlace(database, k, pos, entries)
  /\ ReadsEntry(database[k + 1], Starts(database)[k + 1])

LEMMA DroppedIsRead ==
  ASSUME NEW text, Begins(text), NEW code \in Int, NEW at, Lies(text, <<code>>, at), pos = at,
         pos < Failed, entries = <<>>
  PROVE  Dropped(code, at)
<1> DEFINE C == <<code>>
<1>1. C \in Seq(Int) /\ Len(C) >= 1 /\ C[1] = code
  OBVIOUS
<1> HIDE DEF C
<1>2. Lies(text, C, pos) /\ pos <= Failed
  <2>1. Failed \in Nat /\ pos \in Nat
    BY LenProperties DEF Begins, Failed, Lies
  <2> QED BY <2>1 DEF C
<1>3. opcode = [value |-> C[1], pos |-> pos + 1]
  BY <1>1, <1>2, ByteIsRead DEF opcode
<1> QED
  BY <1>1, <1>3 DEF Dropped

LEMMA TurnIs ==
  ASSUME ShortDatabases, RdbInv, stage = "entries", opcode.pos # Thrown
  PROVE  /\ current_expiry = NoTime
         /\ \/ Dropped(Byte - 6, 10) \/ Dropped(Byte - 2, AtSelect) \/ Dropped(Byte - 5, AtResize)
            \/ \E k \in 0..(Len(database) - 1) : AtAnEntry(k)
            \/ /\ EntryPlace(database, Len(database), pos, entries)
               /\ opcode.value = Byte - 1 /\ whole
<1> DEFINE db == database
           W == Write(db)
           m == Len(db)
<1>1. /\ W \in Seq(Int) /\ PreludeLies(W, db) /\ EntriesLie(W, db, Starts(db)) /\ Begins(W)
      /\ ShortDatabase(db) /\ m \in Nat
  BY StartsLie, LenProperties DEF ShortDatabases, RdbInv, ShortDatabase
<1>2. /\ Opcode.end = Byte - 1 /\ Opcode.select = Byte - 2 /\ Opcode.resize = Byte - 5
      /\ Opcode.aux = Byte - 6
      /\ Byte - 1 \in Int /\ Byte - 2 \in Int /\ Byte - 5 \in Int /\ Byte - 6 \in Int
  BY ByteFacts
<1>3. Failed \in Nat /\ Failed = Len(file) + 1 /\ Thrown = 0 /\ Throw.pos = Thrown /\ file \in Seq(Int)
  BY LenProperties DEF RdbInv, Begins, Failed, Thrown, Throw
<1>4. pos # Failed
  <2>1. ASSUME pos = Failed PROVE FALSE
    <3>1. read_uint8(pos) = Throw
      BY <1>3, <2>1, NothingIsRead
    <3> QED BY <1>3, <3>1 DEF opcode
  <2> QED BY <2>1
<1>5. /\ pos <= Failed /\ current_expiry = NoTime
      /\ \/ entries = <<>> /\ pos \in {10, AtSelect, AtResize}
         \/ \E k \in 0..m : EntryPlace(db, k, pos, entries)
  BY <1>4 DEF RdbInv, Place
<1>6. whole <=> Len(file) = Len(W)
  BY DEF RdbInv
<1> HIDE DEF db, W, m
<1>7. CASE entries = <<>> /\ pos \in {10, AtSelect, AtResize}
  <2>1. /\ Lies(W, <<Byte - 6>>, 10) /\ Lies(W, <<Byte - 2>>, AtSelect)
        /\ Lies(W, <<Byte - 5>>, AtResize)
    BY <1>1, <1>2 DEF PreludeLies
  <2>2. pos < Failed
    <3>1. pos \in Nat
      BY <1>7, <2>1 DEF Lies
    <3> QED BY <1>3, <1>4, <1>5, <3>1
  <2>3. CASE pos = 10
    BY <1>1, <1>2, <1>5, <1>7, <2>1, <2>2, <2>3, DroppedIsRead
  <2>4. CASE pos = AtSelect
    BY <1>1, <1>2, <1>5, <1>7, <2>1, <2>2, <2>4, DroppedIsRead
  <2>5. CASE pos = AtResize
    BY <1>1, <1>2, <1>5, <1>7, <2>1, <2>2, <2>5, DroppedIsRead
  <2> QED BY <1>7, <2>3, <2>4, <2>5
<1>8. ASSUME NEW k \in 0..m, EntryPlace(db, k, pos, entries), k < m PROVE AtAnEntry(k)
  <2>1. k \in 0..(m - 1) /\ k + 1 \in 1..m
    BY <1>1, <1>8
  <2>2. /\ Lies(W, WriteEntry(db[k + 1]), pos)
        /\ Starts(db)[k + 1] = pos + Len(WriteEntry(db[k + 1]))
    BY <1>1, <1>8, <2>1 DEF EntriesLie, EntryPlace, m
  <2>3. db[k + 1] \in Entries /\ ShortEntry(db[k + 1])
    BY <1>1, <2>1, ElementOfSeq DEF ShortDatabase, m
  <2>4. pos < Failed
    <3>1. pos \in Nat
      BY <2>2 DEF Lies
    <3> QED BY <1>3, <1>4, <1>5, <3>1
  <2>5. ReadsEntry(db[k + 1], pos + Len(WriteEntry(db[k + 1])))
    BY <1>1, <1>5, <2>2, <2>3, <2>4, EntryIsRead
  <2> QED BY <1>8, <2>2, <2>5 DEF AtAnEntry, db
<1>9. ASSUME EntryPlace(db, m, pos, entries) PROVE opcode.value = Byte - 1 /\ whole
  <2> DEFINE C == <<Byte - 1>>
  <2>1. C \in Seq(Int) /\ Len(C) >= 1 /\ C[1] = Byte - 1
    BY <1>2
  <2>2. Lies(W, C, pos) /\ pos = Len(W)
    BY <1>1, <1>2, <1>9 DEF EntriesLie, EntryPlace, m
  <2> HIDE DEF C
  <2>3. pos \in Nat /\ pos < Failed
    <3>1. pos \in Nat
      BY <2>2 DEF Lies
    <3> QED BY <1>3, <1>4, <1>5, <3>1
  <2>4. opcode = [value |-> C[1], pos |-> pos + 1]
    BY <1>1, <1>5, <2>1, <2>2, <2>3, ByteIsRead DEF opcode
  <2>5. Len(file) = Len(W)
    <3>1. Len(file) <= Len(W) /\ Len(file) \in Nat
      BY <1>1, LenProperties DEF Begins
    <3> QED BY <1>3, <2>2, <2>3, <3>1
  <2> QED BY <1>6, <2>1, <2>4, <2>5
<1>10. CASE \E k \in 0..m : EntryPlace(db, k, pos, entries)
  <2>1. PICK k \in 0..m : EntryPlace(db, k, pos, entries)
    BY <1>10
  <2>2. CASE k < m
    <3>1. k \in 0..(m - 1) /\ AtAnEntry(k)
      BY <1>1, <1>8, <2>1, <2>2
    <3> QED BY <1>5, <3>1 DEF m, db
  <2>3. CASE ~(k < m)
    <3>1. k = m
      BY <1>1, <2>3
    <3> QED BY <1>5, <1>9, <2>1, <3>1 DEF m, db
  <2> QED BY <2>2, <2>3
<1> QED
  BY <1>5, <1>7, <1>10 DEF m, db
-----------------------------------------------------------------------------
(* Steps *)

LEMMA RdbStart ==
  ASSUME ShortDatabases, RdbInit
  PROVE  RdbInv
<1> DEFINE W == Write(database)
<1>1. database \in Databases /\ W \in Seq(Int) /\ Len(W) \in Nat
  BY StartsLie, LenProperties DEF RdbInit, ShortDatabases
<1>2. PICK n \in 0..Len(W) : file = SubSeq(W, 1, n) /\ whole = (n = Len(W))
  BY DEF RdbInit
<1> HIDE DEF W
<1> DEFINE s == SubSeq(W, 1, n)
<1>3. n \in Nat /\ n <= Len(W) /\ (IF 1 <= n THEN n - 1 + 1 ELSE 0) = n /\ n - 1 + 1 = n
  BY <1>1
<1>4. \A i \in 1..n : W[i] \in Int /\ i \in 1..Len(W) /\ 1 + i - 1 = i
  BY <1>1, <1>3, ElementOfSeq
<1>5. s \in Seq(Int) /\ Len(s) = n /\ \A i \in 1..n : s[i] = W[1 + i - 1]
  BY <1>3, <1>4, SubSeqProperties
<1> HIDE DEF s
<1>6. Begins(W)
  BY <1>1, <1>2, <1>3, <1>4, <1>5 DEF Begins, s
<1>7. whole <=> Len(file) = Len(W)
  BY <1>2, <1>5 DEF s
<1> QED
  BY <1>1, <1>6, <1>7 DEF RdbInit, RdbInv, W

\* What no action changes, and where it may leave the parser.
LEMMA Framed ==
  ASSUME RdbInv, database' = database, file' = file, whole' = whole, stage' # "header",
         stage' = "entries" => Place(database, Failed, pos', entries', current_expiry'),
         stage' = "loaded" => whole /\ entries' = database
  PROVE  RdbInv'
<1>1. Failed' = Failed
  BY DEF Failed
<1>2. Begins(Write(database))'
  BY DEF RdbInv, Begins
<1>3. Place(database, Failed, pos, entries, current_expiry)' =
        Place(database, Failed, pos', entries', current_expiry')
  BY <1>1
<1> QED
  BY <1>2, <1>3 DEF RdbInv

LEMMA HeaderStep ==
  ASSUME RdbInv, parse_header
  PROVE  RdbInv'
<1>1. /\ database' = database /\ file' = file /\ whole' = whole
      /\ entries' = <<>> /\ current_expiry' = NoTime
      /\ \/ stage' = "entries" /\ pos' = 10 /\ Len(file) >= 9
         \/ stage' = "refused"
  BY DEF parse_header, RdbInv
<1>2. stage' = "entries" => Place(database, Failed, pos', entries', current_expiry')
  <2>1. ASSUME stage' = "entries" PROVE pos' = 10 /\ 10 <= Failed
    <3>1. Len(file) \in Nat
      BY LenProperties DEF RdbInv, Begins
    <3> QED BY <1>1, <2>1, <3>1 DEF Failed
  <2> QED BY <1>1, <2>1 DEF Place
<1> QED
  BY <1>1, <1>2, Framed

LEMMA EndOfFileStep ==
  ASSUME RdbInv, EndOfFile
  PROVE  RdbInv'
<1>1. /\ database' = database /\ file' = file /\ whole' = whole /\ stage' = "refused"
  BY DEF EndOfFile, After
<1> QED
  BY <1>1, Framed

LEMMA EndOfEntriesStep ==
  ASSUME ShortDatabases, RdbInv, EndOfEntries
  PROVE  RdbInv'
<1>1. /\ database' = database /\ file' = file /\ whole' = whole /\ stage' = "loaded"
      /\ entries' = entries /\ stage = "entries" /\ opcode.pos # Thrown /\ opcode.value = Byte - 1
  BY ByteFacts DEF EndOfEntries, Turn
<1>2. Byte \in Nat /\ Byte >= 24
  BY ByteFacts
<1>3. whole /\ EntryPlace(database, Len(database), pos, entries)
  <2>1. ~Dropped(Byte - 6, 10) /\ ~Dropped(Byte - 2, AtSelect) /\ ~Dropped(Byte - 5, AtResize)
    BY <1>1, <1>2 DEF Dropped
  <2>2. ~(opcode.value \in {0, Byte - 4, Byte - 3})
    BY <1>1, <1>2
  <2>3. \A k \in 0..(Len(database) - 1) : ~AtAnEntry(k)
    BY <2>2 DEF AtAnEntry, ReadsEntry
  <2> QED BY <1>1, <2>1, <2>3, TurnIs
<1>4. entries = database
  <2>1. database \in Seq(Entries)
    BY DEF ShortDatabases, ShortDatabase, RdbInv
  <2> QED BY <1>3, <2>1, SeqEqual DEF EntryPlace
<1> QED
  BY <1>1, <1>3, <1>4, Framed
LEMMA OpcodeHolds ==
  ASSUME opcode.pos # Thrown
  PROVE  pos + 1 <= Failed
<1>1. Throw.pos = Thrown
  BY DEF Throw
<1>2. Holds(pos, 1)
  BY <1>1 DEF opcode, read_uint8
<1> QED
  BY <1>2 DEF Holds

\* Where a read of the operands of a dropped field leaves the parser.
Passed(p, at) == p \in {Thrown, Failed} \/ (p = at /\ at <= Failed)

LEMMA AuxIsRead ==
  ASSUME ShortDatabases, RdbInv, 11 <= Failed
  PROVE  Passed(read_string(read_string(11).pos).pos, AtSelect)
<1> DEFINE W == Write(database)
           N == WriteString(AuxName)
           V == WriteString(AuxValue)
           a == 11 + Len(N)
           key == read_string(11)
<1>1. Lies(W, N, 11) /\ Lies(W, V, a) /\ Begins(W)
  BY StartsLie DEF RdbInv, ShortDatabases, PreludeLies
<1>2. AuxName \in Strings /\ AuxValue \in Strings /\ ShortString(AuxName) /\ ShortString(AuxValue)
  BY AuxIsShort
<1>3. AtSelect = a + Len(V)
  BY DEF AtSelect
<1>4. file \in Seq(Int) /\ Throw.pos = Thrown
  BY DEF RdbInv, Begins, Throw
<1> HIDE DEF W
<1>5. /\ a <= Failed => key.pos = a
      /\ ~(a <= Failed) => key.pos \in {Thrown, Failed}
  BY <1>1, <1>2, EncodedStringIsRead
<1>6. a <= Failed => /\ a + Len(V) <= Failed => read_string(a).pos = a + Len(V)
                     /\ ~(a + Len(V) <= Failed) => read_string(a).pos \in {Thrown, Failed}
  BY <1>1, <1>2, EncodedStringIsRead
<1> HIDE DEF N, V, a, key
<1>7. CASE a <= Failed
  BY <1>3, <1>5, <1>6, <1>7 DEF Passed, key
<1>8. CASE ~(a <= Failed)
  <2>1. read_string(key.pos) = Throw
    BY <1>4, <1>5, <1>8, NothingIsRead
  <2> QED BY <1>4, <2>1 DEF Passed, key
<1> QED
  BY <1>7, <1>8

LEMMA SizesAreShort ==
  ASSUME ShortDatabases, RdbInv
  PROVE  /\ 0 \in Nat /\ 0 < Low * Byte
         /\ Len(database) \in Nat /\ Len(database) < Low * Byte
<1>1. Len(database) \in Nat /\ Len(database) < Low * Byte
  BY LenProperties DEF ShortDatabases, ShortDatabase, RdbInv
<1>2. 0 < Low * Byte
  <2>1. Low \in Nat /\ Low >= 6 /\ Byte \in Nat /\ Byte >= 24
    BY ByteFacts
  <2>2. Low * Byte >= Byte
    BY <2>1
  <2> QED BY <2>1, <2>2
<1> QED
  BY <1>1, <1>2

LEMMA SelectIsRead ==
  ASSUME ShortDatabases, RdbInv, AtSelect + 1 <= Failed
  PROVE  Passed(read_length(AtSelect + 1).pos, AtResize)
<1> DEFINE W == Write(database)
           p == AtSelect + 1
<1>1. Lies(W, WriteLength(0), p) /\ Begins(W)
  BY StartsLie DEF RdbInv, ShortDatabases, PreludeLies
<1>2. AtResize = p + Len(WriteLength(0))
  BY DEF AtResize
<1>3. 0 \in Nat /\ 0 < Low * Byte
  BY SizesAreShort
<1> HIDE DEF W, p
<1>4. p <= Failed
  BY DEF p
<1>5. LET q == p + Len(WriteLength(0))
      IN  /\ q <= Failed => read_length(p) = [value |-> 0, encoded |-> FALSE, pos |-> q]
          /\ ~(q <= Failed) => read_length(p).pos = Thrown
  BY <1>1, <1>3, <1>4, LengthIsRead
<1> QED
  BY <1>2, <1>5 DEF Passed, p

LEMMA ResizeIsRead ==
  ASSUME ShortDatabases, RdbInv, AtResize + 1 <= Failed
  PROVE  Passed(read_length(read_length(AtResize + 1).pos).pos, AtEntries(database))
<1> DEFINE W == Write(database)
           n == Len(database)
           p == AtResize + 1
           a == p + Len(WriteLength(n))
           q == a + Len(WriteLength(0))
           size == read_length(p)
<1>1. Lies(W, WriteLength(n), p) /\ Lies(W, WriteLength(0), a) /\ Begins(W)
  BY StartsLie DEF RdbInv, ShortDatabases, PreludeLies
<1>2. AtEntries(database) = q
  BY DEF AtEntries
<1>3. 0 \in Nat /\ 0 < Low * Byte /\ n \in Nat /\ n < Low * Byte
  BY SizesAreShort
<1>4. file \in Seq(Int) /\ Throw.pos = Thrown
  BY DEF RdbInv, Begins, Throw
<1>5. /\ a <= Failed => size = [value |-> n, encoded |-> FALSE, pos |-> a]
      /\ ~(a <= Failed) => size.pos = Thrown
  <2> HIDE DEF W, n
  <2> QED BY <1>1, <1>3, LengthIsRead
<1>6. a <= Failed => /\ q <= Failed => read_length(a) = [value |-> 0, encoded |-> FALSE, pos |-> q]
                     /\ ~(q <= Failed) => read_length(a).pos = Thrown
  <2> SUFFICES ASSUME a <= Failed
               PROVE  /\ q <= Failed => read_length(a) = [value |-> 0, encoded |-> FALSE, pos |-> q]
                      /\ ~(q <= Failed) => read_length(a).pos = Thrown
    OBVIOUS
  <2> HIDE DEF W, a
  <2> QED BY <1>1, <1>3, LengthIsRead
<1> HIDE DEF W, n, p, a, q, size
<1>7. CASE a <= Failed
  <2>1. size.pos = a
    BY <1>5, <1>7
  <2>2. Passed(read_length(a).pos, q)
    <3>1. CASE q <= Failed
      BY <1>6, <1>7, <3>1 DEF Passed
    <3>2. CASE ~(q <= Failed)
      BY <1>6, <1>7, <3>2 DEF Passed
    <3> QED BY <3>1, <3>2
  <2> QED BY <1>2, <2>1, <2>2 DEF size, p
<1>8. CASE ~(a <= Failed)
  <2>1. read_length(size.pos) = Throw
    BY <1>4, <1>5, <1>8, NothingIsRead
  <2> QED BY <1>4, <2>1 DEF Passed, size, p
<1> QED
  BY <1>7, <1>8

LEMMA SkipStep ==
  ASSUME ShortDatabases, RdbInv, Skip
  PROVE  RdbInv'
<1>1. Byte \in Nat /\ Byte >= 24
  BY ByteFacts
<1>2. /\ database' = database /\ file' = file /\ whole' = whole
      /\ entries' = entries /\ current_expiry' = current_expiry
      /\ stage = "entries" /\ opcode.pos # Thrown
      /\ opcode.value \in {Byte - 6, Byte - 2, Byte - 5}
  BY ByteFacts DEF Skip, Turn
<1>3. /\ current_expiry = NoTime
      /\ Dropped(Byte - 6, 10) \/ Dropped(Byte - 2, AtSelect) \/ Dropped(Byte - 5, AtResize)
  <2>1. ~(opcode.value \in {0, Byte - 4, Byte - 3}) /\ opcode.value # Byte - 1
    BY <1>1, <1>2
  <2>2. \A k \in 0..(Len(database) - 1) : ~AtAnEntry(k)
    BY <2>1 DEF AtAnEntry, ReadsEntry
  <2> QED BY <1>2, <2>1, <2>2, TurnIs
<1>4. pos + 1 <= Failed
  BY <1>2, OpcodeHolds
<1>5. ASSUME NEW p, After(p), NEW at, Passed(p, at), entries = <<>>,
             \/ at = AtSelect \/ at = AtResize \/ at = AtEntries(database)
      PROVE  RdbInv'
  <2>1. p = Thrown => stage' = "refused"
    BY <1>5 DEF After
  <2>2. p # Thrown => pos' = p /\ stage' = "entries"
    BY <1>2, <1>5 DEF After
  <2>3. ASSUME p # Thrown PROVE Place(database, Failed, pos', entries', current_expiry')
    <3>1. pos' = Failed \/ (pos' = at /\ at <= Failed)
      BY <1>5, <2>2, <2>3 DEF Passed
    <3>2. CASE pos' = Failed
      BY <3>2 DEF Place
    <3>3. CASE pos' = at /\ at <= Failed /\ (at = AtSelect \/ at = AtResize)
      BY <1>2, <1>3, <1>5, <3>3 DEF Place
    <3>4. CASE pos' = at /\ at <= Failed /\ at = AtEntries(database)
      <4>1. Starts(database)[0] = AtEntries(database)
        BY StartsLie DEF RdbInv, ShortDatabases, EntriesLie
      <4>2. Len(database) \in Nat
        BY SizesAreShort
      <4>3. 0 \in 0..Len(database) /\ EntryPlace(database, 0, pos', entries')
        <5>1. <<>> \in Seq(Entries) /\ Len(<<>>) = 0 /\ 1..0 = {}
          OBVIOUS
        <5> QED BY <1>2, <1>5, <3>4, <4>1, <4>2, <5>1 DEF EntryPlace
      <4> QED BY <1>2, <1>3, <3>4, <4>3 DEF Place
    <3> QED BY <1>5, <3>1, <3>2, <3>3, <3>4
  <2>4. stage' # "header" /\ stage' # "loaded"
    BY <2>1, <2>2
  <2>5. stage' = "entries" => Place(database, Failed, pos', entries', current_expiry')
    BY <2>1, <2>3
  <2> QED BY <1>2, <2>4, <2>5, Framed
<1>6. CASE Dropped(Byte - 6, 10)
  <2>1. opcode.value = Byte - 6 /\ opcode.pos = 11 /\ pos = 10 /\ entries = <<>>
    BY <1>6 DEF Dropped
  <2>2. After(read_string(read_string(11).pos).pos)
    <3>1. ~Turn(Opcode.select) /\ ~Turn(Opcode.resize)
      BY <1>1, <2>1, ByteFacts DEF Turn
    <3>2. \E key \in {read_string(opcode.pos)} : After(read_string(key.pos).pos)
      BY <3>1 DEF Skip
    <3>3. PICK key \in {read_string(opcode.pos)} : After(read_string(key.pos).pos)
      BY <3>2
    <3>4. key = read_string(11)
      BY <2>1
    <3> QED BY <3>3, <3>4
  <2>3. Passed(read_string(read_string(11).pos).pos, AtSelect)
    <3>1. 11 <= Failed
      BY <1>4, <2>1
    <3> QED BY <3>1, AuxIsRead
  <2> QED BY <1>5, <2>1, <2>2, <2>3
<1>7. CASE Dropped(Byte - 2, AtSelect)
  <2>1. opcode.value = Byte - 2 /\ opcode.pos = AtSelect + 1 /\ pos = AtSelect /\ entries = <<>>
    BY <1>7 DEF Dropped
  <2>2. After(read_length(AtSelect + 1).pos)
    <3>1. ~Turn(Opcode.aux) /\ ~Turn(Opcode.resize)
      BY <1>1, <2>1, ByteFacts DEF Turn
    <3>2. After(read_length(opcode.pos).pos)
      BY <3>1 DEF Skip
    <3> QED BY <2>1, <3>2
  <2>3. Passed(read_length(AtSelect + 1).pos, AtResize)
    BY <1>4, <2>1, SelectIsRead
  <2> QED BY <1>5, <2>1, <2>2, <2>3
<1>8. CASE Dropped(Byte - 5, AtResize)
  <2>1. opcode.value = Byte - 5 /\ opcode.pos = AtResize + 1 /\ pos = AtResize /\ entries = <<>>
    BY <1>8 DEF Dropped
  <2>2. After(read_length(read_length(AtResize + 1).pos).pos)
    <3>1. ~Turn(Opcode.aux) /\ ~Turn(Opcode.select)
      BY <1>1, <2>1, ByteFacts DEF Turn
    <3>2. \E size \in {read_length(opcode.pos)} : After(read_length(size.pos).pos)
      BY <3>1 DEF Skip
    <3>3. PICK size \in {read_length(opcode.pos)} : After(read_length(size.pos).pos)
      BY <3>2
    <3>4. size = read_length(AtResize + 1)
      BY <2>1
    <3> QED BY <3>3, <3>4
  <2>3. Passed(read_length(read_length(AtResize + 1).pos).pos, AtEntries(database))
    BY <1>4, <2>1, ResizeIsRead
  <2> QED BY <1>5, <2>1, <2>2, <2>3
<1> QED
  BY <1>3, <1>6, <1>7, <1>8
LEMMA EntryStep ==
  ASSUME ShortDatabases, RdbInv, Entry
  PROVE  RdbInv'
<1>1. Byte \in Nat /\ Byte >= 24
  BY ByteFacts
<1>2. /\ database' = database /\ file' = file /\ whole' = whole
      /\ stage = "entries" /\ opcode.pos # Thrown
      /\ opcode.value # Byte - 1 /\ opcode.value # Byte - 6 /\ opcode.value # Byte - 2
      /\ opcode.value # Byte - 5
  BY ByteFacts DEF Entry
<1>3. current_expiry = NoTime /\ \E k \in 0..(Len(database) - 1) : AtAnEntry(k)
  <2>1. ~Dropped(Byte - 6, 10) /\ ~Dropped(Byte - 2, AtSelect) /\ ~Dropped(Byte - 5, AtResize)
    BY <1>2 DEF Dropped
  <2> QED BY <1>2, <2>1, TurnIs
<1>4. PICK k \in 0..(Len(database) - 1) : AtAnEntry(k)
  BY <1>3
<1> DEFINE e == database[k + 1]
           q == Starts(database)[k + 1]
           time  == Expiry
           type  == read_uint8(time.pos)
           key   == read_string(type.pos)
           value == read_string(key.pos)
<1>5. /\ type.pos = Thrown \/ type.value = 0
      /\ q <= Failed => /\ time.value = e.time /\ key.value = e.key /\ value.value = e.value
                        /\ value.pos = q
      /\ ~(q <= Failed) => value.pos \in {Thrown, Failed}
  BY <1>4 DEF AtAnEntry, ReadsEntry
<1>6. /\ After(value.pos)
      /\ entries' = IF value.pos = Thrown THEN entries
                    ELSE Append(entries, [key |-> key.value, value |-> value.value,
                                          time |-> time.value])
      /\ current_expiry' = NoTime
  <2>1. PICK t \in {Expiry} : \E y \in {read_uint8(t.pos)} :
          \/ /\ y.pos # Thrown /\ y.value # 0
             /\ After(y.pos) /\ current_expiry' = t.value /\ UNCHANGED entries
          \/ /\ y.pos = Thrown \/ y.value = 0
             /\ \E u \in {read_string(y.pos)} : \E v \in {read_string(u.pos)} :
                  /\ After(v.pos)
                  /\ entries' = IF v.pos = Thrown THEN entries
                       ELSE Append(entries, [key |-> u.value, value |-> v.value, time |-> t.value])
             /\ current_expiry' = AfterEntry(t.value)
    BY Zenon DEF Entry
  <2>2. t = time
    OBVIOUS
  <2> HIDE DEF time
  <2>3. \/ /\ type.pos # Thrown /\ type.value # 0
        \/ /\ \E u \in {read_string(type.pos)} : \E v \in {read_string(u.pos)} :
                /\ After(v.pos)
                /\ entries' = IF v.pos = Thrown THEN entries
                     ELSE Append(entries, [key |-> u.value, value |-> v.value, time |-> time.value])
           /\ current_expiry' = AfterEntry(time.value)
    BY <2>1, <2>2, Zenon
  <2>4. PICK u \in {read_string(type.pos)} : \E v \in {read_string(u.pos)} :
                /\ After(v.pos)
                /\ entries' = IF v.pos = Thrown THEN entries
                     ELSE Append(entries, [key |-> u.value, value |-> v.value, time |-> time.value])
    BY <1>5, <2>3, Zenon
  <2>5. u = key
    OBVIOUS
  <2>6. current_expiry' = NoTime
    BY <1>5, <2>3 DEF AfterEntry
  <2> HIDE DEF type, key
  <2>7. PICK v \in {read_string(key.pos)} :
                /\ After(v.pos)
                /\ entries' = IF v.pos = Thrown THEN entries
                     ELSE Append(entries, [key |-> key.value, value |-> v.value, time |-> time.value])
    BY <2>4, <2>5, Zenon
  <2>8. v = value
    OBVIOUS
  <2> QED BY <2>6, <2>7, <2>8, Zenon
<1> HIDE DEF time, type, key, value
<1>7. CASE value.pos = Thrown
  <2>1. stage' = "refused"
    BY <1>6, <1>7 DEF After
  <2> QED BY <1>2, <2>1, Framed
<1>8. CASE value.pos # Thrown
  <2>1. stage' = "entries" /\ pos' = value.pos
    BY <1>2, <1>6, <1>8 DEF After
  <2>2. CASE ~(q <= Failed)
    <3>1. Place(database, Failed, pos', entries', current_expiry')
      BY <1>5, <1>8, <2>1, <2>2 DEF Place
    <3> QED BY <1>2, <2>1, <3>1, Framed
  <2>3. CASE q <= Failed
    <3>1. e \in Entries /\ k + 1 \in 0..Len(database) /\ k \in Nat /\ k + 1 \in 1..Len(database)
      <4>1. database \in Seq(Entries) /\ Len(database) \in Nat
        BY LenProperties DEF ShortDatabases, ShortDatabase, RdbInv
      <4>2. k + 1 \in 0..Len(database) /\ k \in Nat /\ k + 1 \in 1..Len(database)
        BY <4>1
      <4> QED BY <4>1, <4>2, ElementOfSeq
    <3>2. entries' = Append(entries, e)
      <4>1. e = [key |-> e.key, value |-> e.value, time |-> e.time]
        BY <3>1 DEF Entries
      <4>2. entries' = Append(entries, [key |-> key.value, value |-> value.value, time |-> time.value])
        BY <1>6, <1>8
      <4> HIDE DEF e
      <4> QED BY <1>5, <2>3, <4>1, <4>2
    <3>3. /\ entries \in Seq(Entries) /\ Len(entries) = k
          /\ \A n \in 1..k : entries[n] = database[n]
      BY <1>4 DEF AtAnEntry, EntryPlace
    <3>4. /\ Append(entries, e) \in Seq(Entries) /\ Len(Append(entries, e)) = k + 1
          /\ \A n \in 1..k : Append(entries, e)[n] = entries[n]
          /\ Append(entries, e)[k + 1] = e
      <4> HIDE DEF e
      <4> QED BY <3>1, <3>3, AppendProperties
    <3>5. EntryPlace(database, k + 1, pos', entries')
      <4>1. \A n \in 1..(k + 1) : n \in 1..k \/ n = k + 1
        BY <3>1
      <4>2. pos' = q
        BY <1>5, <2>1, <2>3
      <4> QED BY <3>2, <3>3, <3>4, <4>1, <4>2 DEF EntryPlace
    <3>6. Place(database, Failed, pos', entries', current_expiry')
      <4>1. pos' <= Failed
        BY <1>5, <2>1, <2>3
      <4> QED BY <1>6, <3>1, <3>5, <4>1 DEF Place
    <3> QED BY <1>2, <2>1, <3>6, Framed
  <2> QED BY <2>2, <2>3
<1> QED
  BY <1>7, <1>8

LEMMA RdbStep ==
  ASSUME ShortDatabases, RdbInv, [RdbNext]_rdbVars
  PROVE  RdbInv'
<1>1. CASE UNCHANGED rdbVars
  <2>1. Failed' = Failed /\ Begins(Write(database))' = Begins(Write(database))
    BY <1>1 DEF rdbVars, Failed, Begins
  <2> QED BY <1>1, <2>1 DEF RdbInv, rdbVars
<1> QED
  BY <1>1, HeaderStep, SkipStep, EntryStep, EndOfEntriesStep, EndOfFileStep DEF RdbNext

LEMMA RdbAlways ==
  ASSUME ShortDatabases
  PROVE  RdbSpec => []RdbInv
<1>1. RdbInit => RdbInv
  BY RdbStart
<1>2. RdbInv /\ [RdbNext]_rdbVars => RdbInv'
  BY RdbStep
<1> QED
  BY <1>1, <1>2, PTL DEF RdbSpec

\* Of a file whose lengths are short, what the parser accepts is every entry
\* of the database it was written from, in order (RdbParser.cpp:30).
THEOREM LoadedIsReadHolds ==
  ASSUME ShortDatabases
  PROVE  RdbSpec => []LoadedIsRead
<1>1. RdbInv => LoadedIsRead
  BY DEF RdbInv, LoadedIsRead
<1> QED
  BY <1>1, RdbAlways, PTL

\* Wherever such a file was cut, and although not every read is checked, the
\* parser refuses it (RdbParser.cpp:30).
THEOREM CutIsRefusedHolds ==
  ASSUME ShortDatabases
  PROVE  RdbSpec => []CutIsRefused
<1>1. RdbInv => CutIsRefused
  BY DEF RdbInv, CutIsRefused
<1> QED
  BY <1>1, RdbAlways, PTL
=============================================================================
