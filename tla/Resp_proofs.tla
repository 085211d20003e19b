------------------------------ MODULE Resp_proofs ------------------------------
(***************************************************************************)
(* Proofs about the text on the wire: the parser of the server finds, in   *)
(* what the encoder wrote, the very strings it was given, whatever follows *)
(* in the same read.                                                       *)
(*                                                                         *)
(* Laid says where in a text the strings of an array lie.  The encoder     *)
(* lays them out like that, one behind the other (ArrayIsLaid, by          *)
(* induction on the strings), more text behind them changes nothing, and   *)
(* from a text laid out like that the parser's loop takes them             *)
(* (LaidIsRead, by induction on its turns).                                *)
(***************************************************************************)
EXTENDS Resp, SequenceTheorems, WellFoundedInduction, TLAPS

\* Characters; the prover knows of no string that it is in STRING.
Char == STRING \cup {"*", "$", "+", "-", ":", "CR", "LF"} \cup
        {"0", "1", "2", "3", "4", "5", "6", "7", "8", "9"}

\* Strings whose length is written in one digit.
Word == {w \in Seq(Char) : Len(w) <= 9}

\* Where a string of an array begins in a text, and where the next one does.
LaidAt(text, word, from, next) ==
  /\ next = from + 6 + Len(word) /\ next <= Len(text) + 1
  /\ text[from] = "$" /\ text[from + 1] = to_string(Len(word))[1]
  /\ text[from + 2] = "CR" /\ text[from + 3] = "LF"
  /\ \A j \in 1..Len(word) : text[from + 3 + j] = word[j]

\* The text begins with the head of an array and with n of its strings.
Laid(text, words, n, at) ==
  /\ text \in Seq(Char) /\ Len(text) >= 4
  /\ text[1] = "*" /\ text[2] = to_string(Len(words))[1] /\ text[3] = "CR" /\ text[4] = "LF"
  /\ at[1] = 5
  /\ \A i \in 1..(n + 1) : at[i] \in Nat /\ at[i] >= 4 + i /\ at[i] <= Len(text) + 1
  /\ \A i \in 1..n : LaidAt(text, words[i], at[i], at[i + 1])

LEMMA NatSetInduction ==
  ASSUME NEW T \in SUBSET Nat, 0 \in T, \A n \in T : n + 1 \in T
  PROVE  T = Nat
<1> SUFFICES ASSUME Nat \ T # {} PROVE FALSE
  OBVIOUS
<1>1. PICK n \in Nat \ T : \A m \in Nat \ T : ~(<<m, n>> \in OpToRel(<, Nat))
  BY NatLessThanWellFounded, WFMin, Zenon
<1>2. \A m \in Nat \ T : ~(m < n)
  BY <1>1 DEF OpToRel
<1>3. n - 1 \in Nat /\ n - 1 < n /\ (n - 1) + 1 = n
  <2>1. n \in Nat /\ n # 0
    BY <1>1
  <2> QED BY <2>1
<1>4. n - 1 \in T
  BY <1>2, <1>3
<1> QED
  BY <1>1, <1>3, <1>4

-----------------------------------------------------------------------------
(* Numbers *)

LEMMA OneDigit ==
  ASSUME NEW n \in 0..9
  PROVE  /\ to_string(n) = <<to_string(n)[1]>>
         /\ to_string(n)[1] \in Char
         /\ IsDigit(to_string(n)[1])
         /\ ValueOf(to_string(n)[1]) = n
<1> DEFINE D == <<"1", "2", "3", "4", "5", "6", "7", "8", "9">>
<1>1. DOMAIN D = 1..9 /\ \A d \in 1..9 : D[d] # "0"
  <2>1. DOMAIN D = 1..9
    OBVIOUS
  <2>2. \A d \in 1..9 : D[d] # "0"
    OBVIOUS
  <2> HIDE DEF D
  <2> QED BY <2>1, <2>2
<1>1a. \A d \in 1..9 : D[d] \in Char
  BY DEF Char
<1>2. \A d, e \in 1..9 : D[d] = D[e] => d = e
  OBVIOUS
<1> HIDE DEF D
<1>3. Digits = D
  BY DEF Digits, D
<1>4. CASE n = 0
  <2>1. to_string(n) = <<"0">>
    BY <1>4 DEF to_string
  <2>2. IsDigit("0") /\ ValueOf("0") = 0 /\ "0" \in Char
    BY DEF IsDigit, ValueOf, Char
  <2>3. to_string(n)[1] = "0"
    BY <2>1
  <2> QED BY <1>4, <2>1, <2>2, <2>3
<1>5. CASE n \in 1..9
  <2>1. to_string(n) = <<D[n]>>
    <3>1. n # 0 /\ n > 0
      BY <1>5
    <3> QED BY <1>3, <3>1 DEF to_string
  <2>2. to_string(n)[1] = D[n]
    BY <2>1
  <2>3. IsDigit(D[n])
    BY <1>1, <1>3, <1>5 DEF IsDigit
  <2>4. ValueOf(D[n]) = n
    BY <1>1, <1>2, <1>3, <1>5 DEF ValueOf
  <2> QED BY <1>1a, <1>5, <2>1, <2>2, <2>3, <2>4
<1> QED
  BY <1>4, <1>5

LEMMA LineEndIsNoDigit == ~IsDigit("CR")
<1>1. \A d \in 1..9 : <<"1", "2", "3", "4", "5", "6", "7", "8", "9">>[d] # "CR"
  OBVIOUS
<1> QED
  BY <1>1 DEF IsDigit, Digits

\* The parser of the server takes a number of one digit with its line end.
LEMMA NumberIsRead ==
  ASSUME NEW text \in Seq(Char), NEW p \in Nat, p >= 1, p + 2 <= Len(text),
         NEW n \in 0..9, text[p] = to_string(n)[1], text[p + 1] = "CR", text[p + 2] = "LF"
  PROVE  int_parser(text)[p] = [value |-> n, pos |-> p + 3]
<1>0. Len(text) \in Nat /\ p \in 1..(Len(text) + 1)
  BY LenProperties
<1>1. BehindDigits(text, p) = p + 1
  <2> DEFINE Ends(q) == /\ q = Len(text) + 1 \/ ~IsDigit(text[q])
                        /\ \A m \in p..(q - 1) : IsDigit(text[m])
  <2>1. Ends(p + 1) /\ p + 1 \in p..(Len(text) + 1)
    <3>1. \A m \in p..((p + 1) - 1) : m = p
      OBVIOUS
    <3>2. IsDigit(text[p]) /\ ~IsDigit(text[p + 1])
      BY OneDigit, LineEndIsNoDigit
    <3>3. p + 1 \in p..(Len(text) + 1)
      BY <1>0
    <3> QED BY <3>1, <3>2, <3>3
  <2>2. ASSUME NEW q \in p..(Len(text) + 1), Ends(q) PROVE q = p + 1
    <3>1. IsDigit(text[p]) /\ p # Len(text) + 1
      BY <1>0, OneDigit
    <3>2. q # p
      BY <2>2, <3>1
    <3>3. ~(p + 1 \in p..(q - 1))
      BY <2>2, LineEndIsNoDigit
    <3> QED BY <1>0, <3>2, <3>3
  <2> HIDE DEF Ends
  <2>3. BehindDigits(text, p) = CHOOSE q \in p..(Len(text) + 1) : Ends(q)
    BY DEF BehindDigits, Ends
  <2> QED BY <2>1, <2>2, <2>3
<1>2. Number(text, p, p + 1) = n
  <2> DEFINE Body(v, m) == IF m = p THEN 0 ELSE 10 * v[m - 1] + ValueOf(text[m - 1])
             v == CHOOSE v : v = [m \in p..(p + 1) |-> Body(v, m)]
             w == [m \in p..(p + 1) |-> IF m = p THEN 0 ELSE n]
  <2>1. Number(text, p, p + 1) = v[p + 1]
    BY Zenon DEF Number
  <2>2. \A m \in p..(p + 1) : w[m] = Body(w, m)
    <3> SUFFICES ASSUME NEW m \in p..(p + 1) PROVE w[m] = Body(w, m)
      OBVIOUS
    <3>1. CASE m = p
      BY <3>1
    <3>2. CASE m = p + 1
      <4>1. w[p] = 0 /\ ValueOf(text[p]) = n /\ (p + 1) - 1 = p /\ w[p + 1] = n /\ p # p + 1
        BY OneDigit
      <4> HIDE DEF w
      <4> QED BY <3>2, <4>1
    <3> QED BY <3>1, <3>2
  <2>3. w = [m \in p..(p + 1) |-> Body(w, m)]
    <3>1. w = [m \in p..(p + 1) |-> w[m]]
      OBVIOUS
    <3> HIDE DEF w, Body
    <3> QED BY <2>2, <3>1, Zenon
  <2>4. v = [m \in p..(p + 1) |-> Body(v, m)]
    <3> HIDE DEF w
    <3> QED BY <2>3, Zenon
  <2> HIDE DEF v
  <2>5. v[p] = 0 /\ v[p + 1] = 10 * v[p] + ValueOf(text[p])
    <3>1. p \in p..(p + 1) /\ p + 1 \in p..(p + 1) /\ p + 1 # p /\ (p + 1) - 1 = p
      OBVIOUS
    <3>2. v[p] = Body(v, p) /\ v[p + 1] = Body(v, p + 1)
      <4> HIDE DEF Body
      <4> QED BY <2>4, <3>1, Zenon
    <3> QED BY <3>1, <3>2
  <2>6. ValueOf(text[p]) = n
    BY OneDigit
  <2> QED BY <2>1, <2>5, <2>6
<1>3. EndsLine(text, p + 1)
  <2>1. \A i \in p + 1..(p + 1) + 1 : text[i] \in Char
    BY <1>0, ElementOfSeq
  <2>2. SubSeq(text, p + 1, (p + 1) + 1) = <<"CR", "LF">>
    <3> DEFINE s == SubSeq(text, p + 1, (p + 1) + 1)
               t == <<"CR", "LF">>
    <3>1. /\ s \in Seq(Char) /\ Len(s) = 2
          /\ s[1] = text[p + 1] /\ s[2] = text[p + 2]
      <4>1. /\ s \in Seq(Char)
            /\ Len(s) = IF p + 1 <= (p + 1) + 1 THEN (p + 1) + 1 - (p + 1) + 1 ELSE 0
            /\ \A i \in 1..(p + 1) + 1 - (p + 1) + 1 : s[i] = text[(p + 1) + i - 1]
        <5>1. p + 1 \in Int /\ (p + 1) + 1 \in Int
          OBVIOUS
        <5> QED BY <2>1, <5>1, SubSeqProperties DEF s
      <4> HIDE DEF s
      <4>2. 1 \in 1..(p + 1) + 1 - (p + 1) + 1 /\ 2 \in 1..(p + 1) + 1 - (p + 1) + 1
        OBVIOUS
      <4>3. (p + 1) + 1 - 1 = p + 1 /\ (p + 1) + 2 - 1 = p + 2
        OBVIOUS
      <4> QED BY <4>1, <4>2, <4>3
    <3>2. t \in Seq(Char) /\ Len(t) = 2 /\ t[1] = "CR" /\ t[2] = "LF"
      BY DEF Char
    <3> HIDE DEF s, t
    <3>3. Len(s) = Len(t) /\ \A i \in 1..Len(s) : s[i] = t[i]
      BY <3>1, <3>2
    <3>4. s = t
      BY <3>1, <3>2, <3>3, SeqEqual, Zenon
    <3> QED BY <3>4 DEF s, t
  <2> QED BY <1>0, <2>2 DEF EndsLine, CRLF
<1>4. int_parser(text)[p] =
        LET last == BehindDigits(text, p)
        IN  [value |-> Number(text, p, last),
             pos   |-> IF EndsLine(text, last) THEN last + 2 ELSE last]
  BY <1>0, Zenon DEF int_parser
<1> QED
  BY <1>1, <1>2, <1>3, <1>4

LEMMA MinOfTwo ==
  ASSUME NEW a \in Int, NEW b \in Int
  PROVE  Min({a, b}) = IF a <= b THEN a ELSE b
<1> DEFINE m == IF a <= b THEN a ELSE b
<1>1. m \in {a, b} /\ \A y \in {a, b} : m =< y
  OBVIOUS
<1>2. \A x \in {a, b} : (\A y \in {a, b} : x =< y) => x = m
  BY <1>1
<1> QED
  BY <1>1, <1>2, Zenon DEF Min

\* Where a string was written, the parser finds its length and the string.
LEMMA StringIsRead ==
  ASSUME NEW text \in Seq(Char), NEW word \in Word, NEW from \in Nat, from >= 5, NEW next,
         LaidAt(text, word, from, next)
  PROVE  /\ Len(word) \in 0..9 /\ from \in 1..Len(text)
         /\ next = from + 6 + Len(word) /\ next <= Len(text) + 1
         /\ int_parser(text)[from + 1] = [value |-> Len(word), pos |-> from + 4]
         /\ SubSeq(text, from + 4, from + 4 + Len(word) - 1) = word
<1> DEFINE w == Len(word)
<1>1. word \in Seq(Char) /\ w \in 0..9
  <2>1. word \in Seq(Char) /\ w <= 9
    BY DEF Word
  <2>2. w \in Nat
    BY <2>1, LenProperties
  <2> HIDE DEF w
  <2> QED BY <2>1, <2>2
<1>2. Len(text) \in Nat
  BY LenProperties
<1>3. /\ next = from + 6 + w /\ next <= Len(text) + 1
      /\ text[from + 1] = to_string(w)[1]
      /\ text[from + 2] = "CR" /\ text[from + 3] = "LF"
      /\ \A j \in 1..w : text[from + 3 + j] = word[j]
  BY DEF LaidAt
<1> HIDE DEF w
<1>4. from \in 1..Len(text)
  BY <1>1, <1>2, <1>3
<1>5. int_parser(text)[from + 1] = [value |-> w, pos |-> from + 4]
  <2> DEFINE p == from + 1
  <2>1. p \in Nat /\ p >= 1 /\ p + 2 <= Len(text) /\ p + 1 = from + 2 /\ p + 2 = from + 3
        /\ p + 3 = from + 4
    BY <1>1, <1>2, <1>3
  <2>2. text[p] = to_string(w)[1] /\ text[p + 1] = "CR" /\ text[p + 2] = "LF"
    BY <1>3, <2>1
  <2> HIDE DEF p
  <2>3. int_parser(text)[p] = [value |-> w, pos |-> p + 3]
    BY <1>1, <2>1, <2>2, NumberIsRead
  <2> QED BY <2>1, <2>3 DEF p
<1>6. SubSeq(text, from + 4, from + 4 + w - 1) = word
  <2> DEFINE m == from + 4
             n == from + 4 + w - 1
             s == SubSeq(text, m, n)
  <2>1. m \in Int /\ n \in Int /\ \A j \in m..n : j \in 1..Len(text)
    BY <1>1, <1>2, <1>3
  <2>2. \A j \in m..n : text[j] \in Char
    BY <2>1, ElementOfSeq
  <2>3. n - m + 1 = w /\ (IF m <= n THEN n - m + 1 ELSE 0) = w
    BY <1>1
  <2>4. \A j \in 1..w : m + j - 1 = from + 3 + j
    BY <1>1
  <2> HIDE DEF m, n
  <2>5. s \in Seq(Char) /\ Len(s) = w /\ \A j \in 1..w : s[j] = text[m + j - 1]
    BY <2>1, <2>2, <2>3, SubSeqProperties
  <2> HIDE DEF s
  <2>6. \A j \in 1..w : s[j] = word[j]
    BY <1>3, <2>4, <2>5
  <2>7. s = word
    BY <1>1, <2>5, <2>6, SeqEqual DEF w
  <2> QED BY <2>7 DEF s, m, n
<1> QED
  BY <1>1, <1>3, <1>4, <1>5, <1>6 DEF w

LEMMA LaidIsRead ==
  ASSUME NEW text, NEW words \in Seq(Word), Len(words) \in 0..9, NEW at,
         Laid(text, words, Len(words), at)
  PROVE  resp_to_text(text) = [strings |-> words, beyond |-> FALSE]
<1> DEFINE L       == Len(words)
           number  == int_parser(text)
           count   == Min({number[2].value, Len(text)})
           outside == Len(text) + 4
           next    == [p \in 1..outside |->
                        IF p > Len(text) THEN outside
                        ELSE Min({outside, number[p + 1].pos + number[p + 1].value + 2})]
           begin   == CHOOSE begin : begin = [n \in 1..(count + 1) |->
                        IF n = 1 THEN number[2].pos ELSE next[begin[n - 1]]]
           string  == [p \in 1..Len(text) |->
                        SubSeq(text, number[p + 1].pos, number[p + 1].pos + number[p + 1].value - 1)]
           beyond  == begin[count + 1] = outside
<1>1. resp_to_text(text) =
        [strings |-> IF beyond THEN <<>> ELSE [n \in 1..count |-> string[begin[n]]],
         beyond  |-> beyond]
  BY Zenon DEF resp_to_text
<1> HIDE DEF L, number, count, outside, next, begin, string, beyond
<1>2. /\ text \in Seq(Char) /\ Len(text) \in Nat /\ Len(text) >= 4
      /\ L \in 0..9 /\ at[1] = 5
      /\ \A i \in 1..(L + 1) : at[i] \in Nat /\ at[i] >= 4 + i /\ at[i] <= Len(text) + 1
      /\ \A i \in 1..L : LaidAt(text, words[i], at[i], at[i + 1])
      /\ \A i \in 1..L : words[i] \in Word
  <2>1. text \in Seq(Char)
    BY DEF Laid
  <2>2. Len(text) \in Nat
    BY <2>1, LenProperties
  <2>3. \A i \in 1..L : words[i] \in Word
    BY ElementOfSeq DEF L
  <2> QED BY <2>1, <2>2, <2>3 DEF Laid, L
<1>3. number[2] = [value |-> L, pos |-> 5]
  <2>1. text[2] = to_string(L)[1] /\ text[2 + 1] = "CR" /\ text[2 + 2] = "LF"
    BY DEF Laid, L
  <2>2. 2 \in Nat /\ 2 >= 1 /\ 2 + 2 <= Len(text) /\ 2 + 3 = 5
    BY <1>2
  <2>3. number[2] = [value |-> L, pos |-> 2 + 3]
    BY <1>2, <2>1, <2>2, NumberIsRead DEF number
  <2> QED BY <2>2, <2>3
<1>4. L + 1 \in 1..(L + 1)
  BY <1>2
<1>5. count = L
  <2>0. at[L + 1] \in Nat /\ at[L + 1] >= 4 + (L + 1) /\ at[L + 1] <= Len(text) + 1
    BY <1>2, <1>4
  <2>1. L <= Len(text)
    <3>1. L \in Nat /\ Len(text) \in Nat
      BY <1>2
    <3> QED BY <2>0, <3>1
  <2>2. Min({L, Len(text)}) = L
    BY <1>2, <2>1, MinOfTwo
  <2>3. number[2].value = L
    BY <1>3
  <2> QED BY <2>2, <2>3 DEF count
<1>6. ASSUME NEW i \in 1..L
      PROVE  /\ at[i] \in 1..Len(text) /\ i + 1 \in 1..(L + 1)
             /\ number[at[i] + 1] = [value |-> Len(words[i]), pos |-> at[i] + 4]
             /\ at[i + 1] = at[i] + 4 + Len(words[i]) + 2
             /\ SubSeq(text, at[i] + 4, at[i] + 4 + Len(words[i]) - 1) = words[i]
  <2>1. i \in 1..(L + 1) /\ i + 1 \in 1..(L + 1)
    BY <1>2
  <2> DEFINE a == at[i]
             word == words[i]
             b == at[i + 1]
  <2>2. a \in Nat /\ a >= 5 /\ word \in Word /\ LaidAt(text, word, a, b)
    BY <1>2, <2>1
  <2> HIDE DEF a, word, b
  <2>3. /\ Len(word) \in 0..9 /\ a \in 1..Len(text) /\ b = a + 6 + Len(word)
        /\ int_parser(text)[a + 1] = [value |-> Len(word), pos |-> a + 4]
        /\ SubSeq(text, a + 4, a + 4 + Len(word) - 1) = word
    BY <1>2, <2>2, StringIsRead
  <2>4. b = a + 4 + Len(word) + 2
    BY <2>2, <2>3
  <2> QED BY <2>1, <2>3, <2>4 DEF number, a, b, word
<1>7. ASSUME NEW i \in 1..L PROVE next[at[i]] = at[i + 1]
  <2> DEFINE a == at[i]
  <2>0. a \in 1..Len(text)
    BY <1>6
  <2> HIDE DEF a
  <2>1. a \in 1..outside /\ ~(a > Len(text)) /\ outside = Len(text) + 4
    BY <1>2, <2>0 DEF outside
  <2>2. next[a] = Min({outside, number[a + 1].pos + number[a + 1].value + 2})
    BY <2>1 DEF next
  <2>3. number[a + 1].pos + number[a + 1].value + 2 = at[i + 1]
    <3>1. number[a + 1].pos = a + 4 /\ number[a + 1].value = Len(words[i])
      <4>1. number[a + 1] = [value |-> Len(words[i]), pos |-> a + 4]
        BY <1>6 DEF a
      <4> QED BY <4>1
    <3>2. at[i + 1] = a + 4 + Len(words[i]) + 2
      BY <1>6 DEF a
    <3> QED BY <3>1, <3>2
  <2>4. at[i + 1] \in Int /\ at[i + 1] <= Len(text) + 1
    BY <1>2, <1>6
  <2>5. outside \in Int /\ ~(outside <= at[i + 1])
    BY <1>2, <2>1, <2>4
  <2>6. next[a] = at[i + 1]
    BY <2>2, <2>3, <2>4, <2>5, MinOfTwo
  <2> QED BY <2>6 DEF a
<1>8. ASSUME NEW i \in 1..L PROVE string[at[i]] = words[i]
  <2> DEFINE a == at[i]
  <2>1. a \in 1..Len(text) /\ number[a + 1] = [value |-> Len(words[i]), pos |-> a + 4]
        /\ SubSeq(text, a + 4, a + 4 + Len(words[i]) - 1) = words[i]
    BY <1>6
  <2> HIDE DEF a
  <2>2. string[a] = SubSeq(text, number[a + 1].pos, number[a + 1].pos + number[a + 1].value - 1)
    BY <2>1 DEF string
  <2>3. number[a + 1].pos = a + 4 /\ number[a + 1].value = Len(words[i])
    BY <2>1
  <2>4. string[a] = words[i]
    BY <2>1, <2>2, <2>3, Zenon
  <2> QED BY <2>4 DEF a
<1>10. begin = [n \in 1..(count + 1) |-> IF n = 1 THEN number[2].pos ELSE next[begin[n - 1]]]
  <2> DEFINE Body(f, n) == IF n = 1 THEN number[2].pos ELSE next[f[n - 1]]
             w == [n \in 1..(count + 1) |-> at[n]]
  <2>1. \A n \in 1..(count + 1) : w[n] = Body(w, n)
    <3> SUFFICES ASSUME NEW n \in 1..(count + 1) PROVE w[n] = Body(w, n)
      OBVIOUS
    <3>1. CASE n = 1
      BY <1>2, <1>3, <3>1
    <3>2. CASE n # 1
      <4>1. n - 1 \in 1..L /\ (n - 1) + 1 = n /\ n - 1 \in 1..(count + 1)
        BY <1>2, <1>5, <3>2
      <4>2. next[at[n - 1]] = at[n]
        BY <1>7, <4>1
      <4> QED BY <3>2, <4>1, <4>2
    <3> QED BY <3>1, <3>2
  <2>2. w = [n \in 1..(count + 1) |-> w[n]]
    OBVIOUS
  <2> HIDE DEF w
  <2>3. w = [n \in 1..(count + 1) |-> Body(w, n)]
    <3> HIDE DEF Body
    <3> QED BY <2>1, <2>2, Zenon
  <2> QED BY <2>3, Zenon DEF begin
<1>11. \A n \in 1..(L + 1) : begin[n] = at[n]
  <2> DEFINE T == {n \in Nat : n <= L => begin[n + 1] = at[n + 1]}
  <2>0. \A n \in 1..(L + 1) : begin[n] = IF n = 1 THEN number[2].pos ELSE next[begin[n - 1]]
    BY <1>5, <1>10, Zenon
  <2>1. 0 \in T
    <3>1. 1 \in 1..(L + 1)
      BY <1>2
    <3>2. begin[1] = at[1]
      BY <1>2, <1>3, <2>0, <3>1
    <3> QED BY <3>2
  <2>2. ASSUME NEW n \in T PROVE n + 1 \in T
    <3>1. n \in Nat /\ n + 1 \in Nat
      OBVIOUS
    <3>2. ASSUME n + 1 <= L PROVE begin[(n + 1) + 1] = at[(n + 1) + 1]
      <4>1. /\ n <= L /\ n + 1 \in 1..L /\ (n + 1) + 1 \in 1..(L + 1)
            /\ (n + 1) + 1 # 1 /\ ((n + 1) + 1) - 1 = n + 1
        BY <1>2, <3>1, <3>2
      <4>2. begin[n + 1] = at[n + 1]
        BY <4>1
      <4>3. begin[(n + 1) + 1] = next[begin[n + 1]]
        BY <2>0, <4>1
      <4> QED BY <1>7, <4>1, <4>2, <4>3
    <3> QED BY <3>1, <3>2
  <2>3. T \in SUBSET Nat
    OBVIOUS
  <2> HIDE DEF T
  <2>4. T = Nat
    BY <2>1, <2>2, <2>3, NatSetInduction
  <2>5. \A n \in 1..(L + 1) : n - 1 \in Nat /\ n - 1 <= L /\ (n - 1) + 1 = n
    BY <1>2
  <2> QED BY <2>4, <2>5 DEF T
<1>12. beyond = FALSE
  <2>1. begin[count + 1] = at[L + 1] /\ at[L + 1] \in Nat /\ at[L + 1] <= Len(text) + 1
    BY <1>2, <1>4, <1>5, <1>11
  <2> QED BY <1>2, <2>1 DEF outside, beyond
<1>13. [n \in 1..count |-> string[begin[n]]] = words
  <2>1. \A n \in 1..L : string[begin[n]] = words[n]
    <3>1. \A n \in 1..L : n \in 1..(L + 1)
      BY <1>2
    <3> QED BY <1>8, <1>11, <3>1
  <2>2. words = [n \in 1..L |-> words[n]]
    BY LenProperties DEF L
  <2> QED BY <1>5, <2>1, <2>2
<1> QED
  BY <1>1, <1>12, <1>13

-----------------------------------------------------------------------------
(* What the encoder writes *)

LEMMA HeadIsWritten ==
  ASSUME NEW n \in 0..9, NEW mark \in Char
  PROVE  LET h == <<mark>> \o to_string(n) \o CRLF
         IN  /\ h \in Seq(Char) /\ Len(h) = 4
             /\ h[1] = mark /\ h[2] = to_string(n)[1] /\ h[3] = "CR" /\ h[4] = "LF"
<1> DEFINE d == to_string(n)[1]
<1>1. to_string(n) = <<d>> /\ d \in Char
  BY OneDigit
<1>2. "CR" \in Char /\ "LF" \in Char
  BY DEF Char
<1> HIDE DEF d
<1>3. <<mark>> \in Seq(Char) /\ <<d>> \in Seq(Char) /\ CRLF \in Seq(Char)
  BY <1>1, <1>2 DEF CRLF
<1>4. Len(<<mark>>) = 1 /\ Len(<<d>>) = 1 /\ Len(CRLF) = 2 /\ <<mark>>[1] = mark /\ <<d>>[1] = d /\ CRLF[1] = "CR" /\ CRLF[2] = "LF"
  BY DEF CRLF
<1> DEFINE m == <<mark>>
           c == <<d>>
           x == m \o c
<1> HIDE DEF m, c
<1>5. x \in Seq(Char) /\ Len(x) = 2 /\ x[1] = mark /\ x[2] = d
  <2>1. m \in Seq(Char) /\ c \in Seq(Char) /\ Len(m) = 1 /\ Len(c) = 1 /\ m[1] = mark /\ c[1] = d
    BY <1>3, <1>4 DEF m, c
  <2>2. /\ x \in Seq(Char) /\ Len(x) = Len(m) + Len(c)
        /\ \A i \in 1..Len(m) + Len(c) : x[i] = IF i <= Len(m) THEN m[i] ELSE c[i - Len(m)]
    BY <2>1, ConcatProperties
  <2> HIDE DEF x
  <2> QED BY <2>1, <2>2
<1> HIDE DEF x
<1>6. /\ x \o CRLF \in Seq(Char) /\ Len(x \o CRLF) = 4
      /\ (x \o CRLF)[1] = mark /\ (x \o CRLF)[2] = d /\ (x \o CRLF)[3] = "CR" /\ (x \o CRLF)[4] = "LF"
  <2> DEFINE l == CRLF
             y == x \o l
  <2>1. l \in Seq(Char) /\ Len(l) = 2 /\ l[1] = "CR" /\ l[2] = "LF"
    BY <1>3, <1>4
  <2> HIDE DEF l
  <2>2. /\ y \in Seq(Char) /\ Len(y) = Len(x) + Len(l)
        /\ \A i \in 1..Len(x) + Len(l) : y[i] = IF i <= Len(x) THEN x[i] ELSE l[i - Len(x)]
    BY <1>5, <2>1, ConcatProperties
  <2> HIDE DEF y
  <2>3. Len(y) = 4 /\ y[1] = x[1] /\ y[2] = x[2] /\ y[3] = l[1] /\ y[4] = l[2]
    BY <1>5, <2>1, <2>2
  <2> QED BY <1>5, <2>1, <2>2, <2>3 DEF y, l
<1>7. <<mark>> \o to_string(n) \o CRLF = x \o CRLF
  BY <1>1 DEF x, m, c
<1> QED
  BY <1>6, <1>7 DEF d

LEMMA BulkIsWritten ==
  ASSUME NEW word \in Word
  PROVE  LET b == bulk_string_resp(word)
         IN  /\ b \in Seq(Char) /\ Len(b) = 6 + Len(word)
             /\ b[1] = "$" /\ b[2] = to_string(Len(word))[1] /\ b[3] = "CR" /\ b[4] = "LF"
             /\ \A j \in 1..Len(word) : b[4 + j] = word[j]
             /\ b[5 + Len(word)] = "CR" /\ b[6 + Len(word)] = "LF"
<1> DEFINE w == Len(word)
           h == <<"$">> \o to_string(w) \o CRLF
<1>1. word \in Seq(Char) /\ w \in 0..9
  <2>1. word \in Seq(Char) /\ w <= 9
    BY DEF Word
  <2>2. w \in Nat
    BY <2>1, LenProperties
  <2> HIDE DEF w
  <2> QED BY <2>1, <2>2
<1> HIDE DEF w
<1>2. "$" \in Char
  BY DEF Char
<1>3. h \in Seq(Char) /\ Len(h) = 4 /\ h[1] = "$" /\ h[2] = to_string(w)[1] /\ h[3] = "CR" /\ h[4] = "LF"
  BY <1>1, <1>2, HeadIsWritten
<1>4. CRLF \in Seq(Char) /\ Len(CRLF) = 2 /\ CRLF[1] = "CR" /\ CRLF[2] = "LF"
  BY DEF CRLF, Char
<1>5. bulk_string_resp(word) = (h \o word) \o CRLF
  BY DEF bulk_string_resp, w
<1> HIDE DEF h
<1> DEFINE a == h \o word
<1>6. /\ a \in Seq(Char) /\ Len(a) = 4 + w
      /\ \A i \in 1..(4 + w) : a[i] = IF i <= 4 THEN h[i] ELSE word[i - 4]
  <2>1. /\ a \in Seq(Char) /\ Len(a) = Len(h) + Len(word)
        /\ \A i \in 1..Len(h) + Len(word) : a[i] = IF i <= Len(h) THEN h[i] ELSE word[i - Len(h)]
    BY <1>1, <1>3, ConcatProperties
  <2> HIDE DEF a
  <2> QED BY <1>3, <2>1 DEF w
<1> HIDE DEF a
<1>7. /\ a \o CRLF \in Seq(Char) /\ Len(a \o CRLF) = 4 + w + 2
      /\ \A i \in 1..(4 + w) : (a \o CRLF)[i] = a[i]
      /\ (a \o CRLF)[5 + w] = "CR" /\ (a \o CRLF)[6 + w] = "LF"
  <2> DEFINE l == CRLF
             y == a \o l
  <2>1. l \in Seq(Char) /\ Len(l) = 2 /\ l[1] = "CR" /\ l[2] = "LF"
    BY <1>4
  <2> HIDE DEF l
  <2>2. /\ y \in Seq(Char) /\ Len(y) = Len(a) + Len(l)
        /\ \A i \in 1..Len(a) + Len(l) : y[i] = IF i <= Len(a) THEN a[i] ELSE l[i - Len(a)]
    BY <1>6, <2>1, ConcatProperties
  <2> HIDE DEF y
  <2>3. Len(y) = 4 + w + 2 /\ \A i \in 1..(4 + w) : y[i] = a[i]
    BY <1>1, <1>6, <2>1, <2>2
  <2>4. /\ 5 + w \in 1..(4 + w + 2) /\ ~(5 + w <= 4 + w) /\ (5 + w) - (4 + w) = 1
        /\ 6 + w \in 1..(4 + w + 2) /\ ~(6 + w <= 4 + w) /\ (6 + w) - (4 + w) = 2
    BY <1>1
  <2>5. y[5 + w] = "CR" /\ y[6 + w] = "LF"
    BY <1>6, <2>1, <2>2, <2>4
  <2> QED BY <2>2, <2>3, <2>5 DEF y, l
<1> DEFINE b == a \o CRLF
<1>8. \A i \in 1..(4 + w) : b[i] = IF i <= 4 THEN h[i] ELSE word[i - 4]
  BY <1>1, <1>6, <1>7 DEF a
<1>8a. b[5 + w] = "CR" /\ b[6 + w] = "LF"
  BY <1>7
<1> HIDE DEF b
<1>9. b[1] = h[1] /\ b[2] = h[2] /\ b[3] = h[3] /\ b[4] = h[4]
  BY <1>1, <1>8
<1>10. \A j \in 1..w : b[4 + j] = word[j]
  <2>1. \A j \in 1..w : 4 + j \in 1..(4 + w) /\ ~(4 + j <= 4) /\ (4 + j) - 4 = j
    BY <1>1
  <2> QED BY <1>8, <2>1
<1>11. b \in Seq(Char) /\ Len(b) = 6 + w
  BY <1>1, <1>7 DEF b
<1>12. bulk_string_resp(word) = b
  BY <1>1, <1>5, <1>7 DEF a, b
<1> QED
  BY <1>3, <1>8a, <1>9, <1>10, <1>11, <1>12 DEF w

\* More text behind an array changes nothing of it.
LEMMA LaidStays ==
  ASSUME NEW text, NEW words \in Seq(Word), NEW n \in Nat, n <= Len(words), NEW at,
         Laid(text, words, n, at), NEW rest \in Seq(Char)
  PROVE  Laid(text \o rest, words, n, at)
<1> DEFINE all == text \o rest
<1>1. /\ text \in Seq(Char) /\ Len(text) \in Nat /\ Len(text) >= 4 /\ Len(rest) \in Nat
      /\ Len(words) \in Nat
  BY LenProperties DEF Laid
<1>2. /\ all \in Seq(Char) /\ Len(all) = Len(text) + Len(rest)
      /\ \A i \in 1..Len(text) : all[i] = text[i]
  <2>1. \A i \in 1..Len(text) : i \in 1..(Len(text) + Len(rest)) /\ i <= Len(text)
    BY <1>1
  <2> QED BY <1>1, <2>1, ConcatProperties
<1> HIDE DEF all
<1>3. all[1] = text[1] /\ all[2] = text[2] /\ all[3] = text[3] /\ all[4] = text[4]
  BY <1>1, <1>2
<1>4. \A i \in 1..(n + 1) : at[i] \in Nat /\ at[i] >= 4 + i /\ at[i] <= Len(all) + 1
  BY <1>1, <1>2 DEF Laid
<1>5. ASSUME NEW i \in 1..n PROVE LaidAt(all, words[i], at[i], at[i + 1])
  <2> DEFINE a == at[i]
             b == at[i + 1]
             w == Len(words[i])
  <2>1. a \in Nat /\ a >= 5
    <3>1. i \in 1..(n + 1) /\ 4 + i >= 5
      OBVIOUS
    <3>2. a \in Nat /\ a >= 4 + i
      BY <3>1 DEF Laid
    <3> HIDE DEF a
    <3> QED BY <3>1, <3>2
  <2>2. LaidAt(text, words[i], a, b)
    BY DEF Laid
  <2>3. words[i] \in Seq(Char) /\ w \in Nat
    <3>1. words[i] \in Word
      BY <1>1, ElementOfSeq
    <3> QED BY <3>1, LenProperties DEF Word
  <2> HIDE DEF a, b, w
  <2>4. b = a + 6 + w /\ b <= Len(text) + 1
    BY <2>2 DEF LaidAt, w
  <2>5. /\ b <= Len(all) + 1 /\ a \in 1..Len(text)
        /\ a + 1 \in 1..Len(text) /\ a + 2 \in 1..Len(text) /\ a + 3 \in 1..Len(text)
        /\ \A j \in 1..w : a + 3 + j \in 1..Len(text)
    BY <1>1, <1>2, <2>1, <2>3, <2>4
  <2>6. LaidAt(all, words[i], a, b)
    BY <1>2, <2>2, <2>4, <2>5 DEF LaidAt, w
  <2> QED BY <2>6 DEF a, b
<1> QED
  BY <1>1, <1>2, <1>3, <1>4, <1>5 DEF Laid, all

\* One string more at the end of the text.
LEMMA LaidNext ==
  ASSUME NEW text, NEW words \in Seq(Word), NEW n \in Nat, n + 1 \in 1..Len(words), NEW at,
         Laid(text, words, n, at), at[n + 1] = Len(text) + 1
  PROVE  LET more == text \o bulk_string_resp(words[n + 1])
         IN  \E b : Laid(more, words, n + 1, b) /\ b[(n + 1) + 1] = Len(more) + 1
<1> DEFINE word == words[n + 1]
           w    == Len(word)
           bulk == bulk_string_resp(word)
           more == text \o bulk
           end  == Len(text) + 7 + w
           b    == [i \in 1..(n + 2) |-> IF i = n + 2 THEN end ELSE at[i]]
<1>1. text \in Seq(Char) /\ Len(text) \in Nat /\ word \in Word /\ Len(words) \in Nat
  <2>1. text \in Seq(Char)
    BY DEF Laid
  <2> QED BY <2>1, LenProperties, ElementOfSeq
<1>2. /\ bulk \in Seq(Char) /\ Len(bulk) = 6 + w
      /\ bulk[1] = "$" /\ bulk[2] = to_string(w)[1] /\ bulk[3] = "CR" /\ bulk[4] = "LF"
      /\ \A j \in 1..w : bulk[4 + j] = word[j]
  <2> HIDE DEF word, bulk
  <2> QED BY <1>1, BulkIsWritten DEF bulk
<1>3. w \in Nat
  BY <1>1, LenProperties DEF Word
<1> HIDE DEF word, w, bulk
<1>4. /\ more \in Seq(Char) /\ Len(more) = Len(text) + 6 + w
      /\ \A i \in 1..(6 + w) : more[Len(text) + i] = bulk[i]
  <2>1. /\ more \in Seq(Char) /\ Len(more) = Len(text) + Len(bulk)
        /\ \A i \in 1..Len(text) + Len(bulk) :
             more[i] = IF i <= Len(text) THEN text[i] ELSE bulk[i - Len(text)]
    BY <1>1, <1>2, ConcatProperties
  <2> HIDE DEF more
  <2>2. \A i \in 1..(6 + w) : /\ Len(text) + i \in 1..Len(text) + Len(bulk)
                             /\ ~(Len(text) + i <= Len(text)) /\ (Len(text) + i) - Len(text) = i
    BY <1>1, <1>2, <1>3
  <2>3. \A i \in 1..(6 + w) : more[Len(text) + i] = bulk[i]
    BY <2>1, <2>2
  <2>4. Len(more) = Len(text) + 6 + w
    BY <1>1, <1>2, <1>3, <2>1
  <2> QED BY <2>1, <2>3, <2>4
<1>5. Laid(more, words, n, at)
  <2>1. n <= Len(words)
    BY <1>1
  <2> QED BY <1>2, <2>1, LaidStays
<1> HIDE DEF more
<1>6. \A i \in 1..(n + 1) : b[i] = at[i] /\ i \in 1..(n + 2)
  OBVIOUS
<1>7. b[n + 2] = end /\ n + 1 \in 1..(n + 1) /\ n + 2 = (n + 1) + 1
  OBVIOUS
<1> HIDE DEF b
<1>8. /\ at[n + 1] = Len(text) + 1 /\ at[n + 1] \in Nat /\ at[n + 1] >= 4 + (n + 1)
  BY <1>5, <1>7 DEF Laid
<1>9. LaidAt(more, word, b[n + 1], b[n + 2])
  <2> DEFINE a == Len(text) + 1
  <2>1. b[n + 1] = a
    BY <1>6, <1>7, <1>8
  <2>2. /\ end = a + 6 + w /\ end <= Len(more) + 1
        /\ more[a] = bulk[1] /\ more[a + 1] = bulk[2] /\ more[a + 2] = bulk[3] /\ more[a + 3] = bulk[4]
    <3>1. a + 1 = Len(text) + 2 /\ a + 2 = Len(text) + 3 /\ a + 3 = Len(text) + 4
      BY <1>1
    <3> QED BY <1>1, <1>3, <1>4, <3>1
  <2>3. \A j \in 1..w : more[a + 3 + j] = word[j]
    <3>1. \A j \in 1..w : 4 + j \in 1..(6 + w) /\ a + 3 + j = Len(text) + (4 + j)
      BY <1>1, <1>3
    <3> QED BY <1>2, <1>4, <3>1
  <2> HIDE DEF a, end
  <2> QED BY <1>2, <1>7, <2>1, <2>2, <2>3 DEF LaidAt, w
<1>10. \A i \in 1..(n + 1) : LaidAt(more, words[i], b[i], b[i + 1])
  <2> SUFFICES ASSUME NEW i \in 1..(n + 1) PROVE LaidAt(more, words[i], b[i], b[i + 1])
    OBVIOUS
  <2>1. CASE i = n + 1
    BY <1>7, <1>9, <2>1 DEF word
  <2>2. CASE i # n + 1
    <3>1. i \in 1..n /\ i + 1 \in 1..(n + 1)
      BY <2>2
    <3>2. LaidAt(more, words[i], at[i], at[i + 1])
      BY <1>5, <3>1 DEF Laid
    <3> QED BY <1>6, <3>1, <3>2
  <2> QED BY <2>1, <2>2
<1>11. \A i \in 1..((n + 1) + 1) : b[i] \in Nat /\ b[i] >= 4 + i /\ b[i] <= Len(more) + 1
  <2> SUFFICES ASSUME NEW i \in 1..((n + 1) + 1)
               PROVE  b[i] \in Nat /\ b[i] >= 4 + i /\ b[i] <= Len(more) + 1
    OBVIOUS
  <2>1. CASE i = n + 2
    <3>1. end \in Nat /\ end >= 4 + (n + 2) /\ end <= Len(more) + 1
      BY <1>1, <1>3, <1>4, <1>8
    <3> QED BY <1>7, <2>1, <3>1
  <2>2. CASE i # n + 2
    <3>1. i \in 1..(n + 1)
      BY <2>2
    <3> QED BY <1>5, <1>6, <3>1 DEF Laid
  <2> QED BY <2>1, <2>2
<1>12. b[1] = 5
  <2>1. 1 \in 1..(n + 1)
    OBVIOUS
  <2> QED BY <1>5, <1>6, <2>1 DEF Laid
<1>13. Laid(more, words, n + 1, b)
  BY <1>5, <1>10, <1>11, <1>12 DEF Laid
<1>14. b[(n + 1) + 1] = Len(more) + 1
  BY <1>1, <1>3, <1>4, <1>7
<1> QED
  BY <1>13, <1>14 DEF more, bulk, word

-----------------------------------------------------------------------------
(* An array of strings, one behind the other *)

\* What FlattenSeq has put together after n of the sequences.
Joined(seqs, n, flatten) ==
  flatten = [i \in 1..n |-> IF i = 1 THEN seqs[i] ELSE flatten[i - 1] \o seqs[i]]

LEMMA JoinedExists ==
  ASSUME NEW seqs
  PROVE  \A n \in Nat : \E f : Joined(seqs, n, f)
<1> DEFINE T == {n \in Nat : \E f : Joined(seqs, n, f)}
<1>1. 0 \in T
  <2>1. 1..0 = {}
    OBVIOUS
  <2>2. Joined(seqs, 0, [i \in 1..0 |-> <<>>])
    BY <2>1 DEF Joined
  <2> QED BY <2>2
<1>2. ASSUME NEW n \in T PROVE n + 1 \in T
  <2>1. PICK g : Joined(seqs, n, g)
    OBVIOUS
  <2> DEFINE Turn(f, i) == IF i = 1 THEN seqs[i] ELSE f[i - 1] \o seqs[i]
             h == [i \in 1..(n + 1) |-> IF i = n + 1 THEN Turn(g, n + 1) ELSE g[i]]
  <2>2. n \in Nat /\ n + 1 \in Nat
    OBVIOUS
  <2>3. \A i \in 1..n : g[i] = Turn(g, i)
    BY <2>1 DEF Joined
  <2>4. \A i \in 1..n : h[i] = g[i]
    BY <2>2
  <2>5. h[n + 1] = Turn(g, n + 1)
    BY <2>2
  <2>6. \A i \in 1..(n + 1) : i # 1 => i - 1 \in 1..n
    BY <2>2
  <2>7. h = [i \in 1..(n + 1) |-> h[i]]
    OBVIOUS
  <2>8. \A i \in 1..(n + 1) : Turn(h, i) = Turn(g, i)
    BY <2>4, <2>6
  <2> HIDE DEF Turn
  <2>9. \A i \in 1..(n + 1) : h[i] = Turn(h, i)
    <3>1. \A i \in 1..(n + 1) : i \in 1..n \/ i = n + 1
      BY <2>2
    <3> QED BY <2>3, <2>4, <2>5, <2>8, <3>1
  <2>10. h = [i \in 1..(n + 1) |-> Turn(h, i)]
    BY <2>7, <2>9, Zenon
  <2>11. Joined(seqs, n + 1, h)
    BY <2>10, Zenon DEF Joined, Turn
  <2> QED BY <2>2, <2>11
<1> HIDE DEF T
<1>3. T = Nat
  <2>1. T \in SUBSET Nat
    BY DEF T
  <2> QED BY <1>1, <1>2, <2>1, NatSetInduction
<1> QED
  BY <1>3 DEF T

LEMMA FlattenUnfolds ==
  ASSUME NEW seqs, Len(seqs) \in Nat, Len(seqs) # 0
  PROVE  \E f : Joined(seqs, Len(seqs), f) /\ FlattenSeq(seqs) = f[Len(seqs)]
<1> DEFINE g == CHOOSE f : Joined(seqs, Len(seqs), f)
<1>1. FlattenSeq(seqs) = g[Len(seqs)]
  BY Zenon DEF FlattenSeq, Joined
<1>2. \E f : Joined(seqs, Len(seqs), f)
  BY JoinedExists
<1>3. Joined(seqs, Len(seqs), g)
  BY <1>2
<1> HIDE DEF g
<1> QED
  BY <1>1, <1>3

LEMMA ArrayIsLaid ==
  ASSUME NEW words \in Seq(Word), Len(words) \in 1..9, NEW rest \in Seq(Char)
  PROVE  /\ \E at : /\ Laid(array_to_resp(words) \o rest, words, Len(words), at)
                   /\ at[Len(words) + 1] = Len(array_to_resp(words)) + 1
         /\ array_to_resp(words) \in Seq(Char) /\ Len(array_to_resp(words)) >= 4
<1> DEFINE L == Len(words)
           h == <<"*">> \o to_string(L) \o CRLF
           seqs == [n \in DOMAIN words |-> bulk_string_resp(words[n])]
<1>1. array_to_resp(words) = h \o FlattenSeq(seqs)
  BY DEF array_to_resp
<1>2. L \in 1..9 /\ L \in 0..9 /\ DOMAIN words = 1..L /\ \A n \in 1..L : words[n] \in Word
  BY LenProperties, ElementOfSeq
<1>3. h \in Seq(Char) /\ Len(h) = 4 /\ h[1] = "*" /\ h[2] = to_string(L)[1] /\ h[3] = "CR" /\ h[4] = "LF"
  <2>1. "*" \in Char
    BY DEF Char
  <2> HIDE DEF L
  <2> QED BY <1>2, <2>1, HeadIsWritten
<1> HIDE DEF L
<1>4. Len(seqs) = L /\ \A n \in 1..L : seqs[n] = bulk_string_resp(words[n])
  BY <1>2
<1> HIDE DEF h, seqs
<1>5. PICK f : Joined(seqs, L, f) /\ FlattenSeq(seqs) = f[L]
  <2>1. Len(seqs) \in Nat /\ Len(seqs) # 0
    BY <1>2, <1>4
  <2> QED BY <1>4, <2>1, FlattenUnfolds
<1>6. \A i \in 1..L : f[i] = IF i = 1 THEN seqs[i] ELSE f[i - 1] \o seqs[i]
  BY <1>5, Zenon DEF Joined
<1> DEFINE F(n) == IF n = 0 THEN <<>> ELSE f[n]
           C(n) == /\ F(n) \in Seq(Char)
                   /\ \E at : Laid(h \o F(n), words, n, at) /\ at[n + 1] = Len(h \o F(n)) + 1
           T == {n \in Nat : n <= L => C(n)}
<1>7. \A n \in Nat : n + 1 <= L => F(n + 1) = F(n) \o bulk_string_resp(words[n + 1])
  <2> SUFFICES ASSUME NEW n \in Nat, n + 1 <= L
               PROVE  F(n + 1) = F(n) \o bulk_string_resp(words[n + 1])
    OBVIOUS
  <2>1. n + 1 \in 1..L /\ n + 1 # 0 /\ (n + 1) - 1 = n
    BY <1>2
  <2>2. bulk_string_resp(words[n + 1]) \in Seq(Char)
    BY <1>2, <2>1, BulkIsWritten
  <2>3. <<>> \o bulk_string_resp(words[n + 1]) = bulk_string_resp(words[n + 1])
    BY <2>2, ConcatEmptySeq
  <2>4. F(n + 1) = f[n + 1] /\ f[n + 1] = IF n + 1 = 1 THEN seqs[n + 1] ELSE f[n] \o seqs[n + 1]
    BY <1>6, <2>1
  <2>5. seqs[n + 1] = bulk_string_resp(words[n + 1])
    BY <1>4, <2>1
  <2>6. CASE n = 0
    <3>1. F(n) = <<>> /\ n + 1 = 1
      BY <2>6
    <3> HIDE DEF F
    <3> QED BY <2>3, <2>4, <2>5, <3>1
  <2>7. CASE n # 0
    <3>1. F(n) = f[n] /\ n + 1 # 1
      BY <2>7
    <3> HIDE DEF F
    <3> QED BY <2>4, <2>5, <3>1
  <2> QED BY <2>6, <2>7
<1>8. C(0)
  <2>1. F(0) = <<>> /\ <<>> \in Seq(Char) /\ h \o <<>> = h
    BY <1>3, EmptySeq, ConcatEmptySeq
  <2> DEFINE at == [i \in 1..1 |-> 5]
  <2>2. at[1] = 5 /\ 1..(0 + 1) = {1} /\ 1..0 = {} /\ 0 + 1 = 1
    OBVIOUS
  <2> HIDE DEF at
  <2>3. Laid(h, words, 0, at)
    BY <1>3, <2>2 DEF Laid, L
  <2> HIDE DEF F
  <2>4. Laid(h \o F(0), words, 0, at)
    BY <2>1, <2>3, Zenon
  <2>5. at[0 + 1] = Len(h \o F(0)) + 1
    <3>1. Len(h \o F(0)) = 4
      BY <1>3, <2>1
    <3> QED BY <2>2, <3>1
  <2> QED BY <2>1, <2>4, <2>5
<1> HIDE DEF F
<1>9. ASSUME NEW n \in Nat, n + 1 <= L, C(n) PROVE C(n + 1)
  <2>1. PICK at : Laid(h \o F(n), words, n, at) /\ at[n + 1] = Len(h \o F(n)) + 1
    BY <1>9
  <2> DEFINE b == bulk_string_resp(words[n + 1])
  <2>2. n + 1 \in 1..L
    BY <1>2, <1>9
  <2>3. b \in Seq(Char) /\ F(n) \in Seq(Char) /\ F(n + 1) = F(n) \o b
    BY <1>2, <1>7, <1>9, <2>2, BulkIsWritten
  <2>4. \E c : Laid((h \o F(n)) \o b, words, n + 1, c) /\ c[(n + 1) + 1] = Len((h \o F(n)) \o b) + 1
    <3> DEFINE text == h \o F(n)
    <3>1. Laid(text, words, n, at) /\ at[n + 1] = Len(text) + 1
      BY <2>1
    <3> HIDE DEF text
    <3>2. \E c : Laid(text \o b, words, n + 1, c) /\ c[(n + 1) + 1] = Len(text \o b) + 1
      BY <2>2, <3>1, LaidNext DEF L
    <3> QED BY <3>2 DEF text
  <2> HIDE DEF b
  <2>5. (h \o F(n)) \o b = h \o F(n + 1) /\ F(n + 1) \in Seq(Char)
    <3>1. (h \o F(n)) \o b = h \o (F(n) \o b)
      <4> DEFINE x == F(n)
      <4>1. h \in Seq(Char) /\ x \in Seq(Char) /\ b \in Seq(Char)
        BY <1>3, <2>3
      <4> HIDE DEF x
      <4>2. (h \o x) \o b = h \o (x \o b)
        BY <4>1, ConcatAssociative
      <4> QED BY <4>2 DEF x
    <3>2. F(n) \o b \in Seq(Char)
      BY <2>3, ConcatProperties
    <3> QED BY <2>3, <3>1, <3>2
  <2> QED BY <2>4, <2>5, Zenon
<1> HIDE DEF C
<1>10. T = Nat
  <2>1. T \in SUBSET Nat
    OBVIOUS
  <2>2. 0 \in T
    BY <1>8
  <2>3. ASSUME NEW n \in T PROVE n + 1 \in T
    <3>1. n \in Nat /\ n + 1 \in Nat /\ (n + 1 <= L => n <= L)
      BY <1>2
    <3>2. n + 1 <= L => C(n + 1)
      BY <1>9, <3>1, Zenon
    <3> QED BY <3>1, <3>2
  <2> HIDE DEF T
  <2> QED BY <2>1, <2>2, <2>3, NatSetInduction
<1>11. C(L)
  <2>1. L \in T /\ L <= L
    BY <1>2, <1>10
  <2> QED BY <2>1
<1>12. F(L) = FlattenSeq(seqs)
  BY <1>2, <1>5 DEF F
<1>13. PICK at : /\ Laid(array_to_resp(words), words, L, at)
                 /\ at[L + 1] = Len(array_to_resp(words)) + 1
  BY <1>1, <1>11, <1>12, Zenon DEF C
<1>14. L \in Nat /\ L <= Len(words)
  BY <1>2 DEF L
<1>15. Laid(array_to_resp(words) \o rest, words, L, at)
  BY <1>13, <1>14, LaidStays
<1> QED
  BY <1>13, <1>15 DEF L, Laid

LEMMA ArrayIsWritten ==
  ASSUME NEW words \in Seq(Word), Len(words) \in 0..9
  PROVE  /\ array_to_resp(words) \in Seq(Char) /\ Len(array_to_resp(words)) >= 4
         /\ array_to_resp(words)[1] = "*"
<1>1. CASE Len(words) \in 1..9
  <2>1. <<>> \in Seq(Char)
    BY EmptySeq
  <2>2. /\ \E at : Laid(array_to_resp(words) \o <<>>, words, Len(words), at)
        /\ array_to_resp(words) \in Seq(Char) /\ Len(array_to_resp(words)) >= 4
    BY <1>1, <2>1, ArrayIsLaid
  <2>3. array_to_resp(words) \o <<>> = array_to_resp(words)
    BY <2>2, ConcatEmptySeq
  <2> QED BY <2>2, <2>3 DEF Laid
<1>2. CASE Len(words) = 0
  <2> DEFINE h == <<"*">> \o to_string(0) \o CRLF
  <2>1. h \in Seq(Char) /\ Len(h) = 4 /\ h[1] = "*"
    <3>1. "*" \in Char /\ 0 \in 0..9
      BY DEF Char
    <3> QED BY <3>1, HeadIsWritten
  <2>2. words = <<>>
    BY <1>2, EmptySeq, SeqEqual
  <2>3. [n \in DOMAIN words |-> bulk_string_resp(words[n])] = <<>>
    <3>1. DOMAIN words = {}
      BY <2>2
    <3> QED BY <3>1
  <2>4. FlattenSeq(<<>>) = <<>>
    BY DEF FlattenSeq
  <2>5. array_to_resp(words) = h \o <<>>
    BY <1>2, <2>3, <2>4 DEF array_to_resp
  <2>6. h \o <<>> = h
    BY <2>1, ConcatEmptySeq
  <2>7. array_to_resp(words) = h
    BY <2>5, <2>6, Zenon
  <2>8. Len(h) >= 4
    <3> HIDE DEF h
    <3> QED BY <2>1
  <2> QED BY <2>1, <2>7, <2>8, Zenon
<1> QED
  BY <1>1, <1>2

\* resp_to_text: the strings of the request at the beginning of what recv gave,
\* whatever follows it, and no read beyond the text.
THEOREM RequestIsRead ==
  ASSUME NEW words \in Seq(Word), Len(words) \in 1..9, NEW rest \in Seq(Char)
  PROVE  resp_to_text(array_to_resp(words) \o rest) = [strings |-> words, beyond |-> FALSE]
<1>1. PICK at : Laid(array_to_resp(words) \o rest, words, Len(words), at)
  BY ArrayIsLaid
<1>2. Len(words) \in 0..9
  OBVIOUS
<1> QED
  BY <1>1, <1>2, LaidIsRead, Zenon
=============================================================================
