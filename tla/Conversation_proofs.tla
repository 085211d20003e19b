-------------------------- MODULE Conversation_proofs --------------------------
(***************************************************************************)
(* Proofs about the conversation of the window and the server, for every   *)
(* number of requests and every size of the buffer.                        *)
(*                                                                         *)
(* An undisturbed patient user has at most one request or one answer under *)
(* way, so that no read can join two of them and no answer can be taken    *)
(* for that to another request (TalkInv).  Of an impatient user a read may *)
(* take several requests, and the parser gives the first of them           *)
(* (FlowInv).  What either side makes of a whole text is in Resp_proofs    *)
(* and, for the window, in the second section.                             *)
(***************************************************************************)
EXTENDS Conversation, Resp_proofs

Requests == {splitCommand(line) : line \in Lines} \ {<<>>}

\* A stream with one write in it.
One(text) == [text |-> text, ends |-> {Len(text)}]

-----------------------------------------------------------------------------
(* The texts *)

LEMMA ShortWords ==
  ASSUME NEW words \in Seq(Seq(STRING)), Len(words) <= 9,
         \A n \in DOMAIN words : Len(words[n]) <= 9
  PROVE  words \in Seq(Word) /\ Len(words) \in 0..9
<1>1. Len(words) \in Nat /\ DOMAIN words = 1..Len(words)
  BY LenProperties
<1>2. \A n \in 1..Len(words) : words[n] \in Seq(STRING)
  BY ElementOfSeq
<1>3. \A w \in Seq(STRING) : w \in Seq(Char)
  BY DEF Char
<1>4. \A n \in 1..Len(words) : words[n] \in Word
  BY <1>1, <1>2, <1>3 DEF Word
<1>5. words = [n \in 1..Len(words) |-> words[n]]
  BY LenProperties
<1>6. words \in Seq(Word)
  <2>1. words \in [1..Len(words) -> Word]
    BY <1>4, <1>5
  <2> DEFINE l == Len(words)
  <2>2. l \in Nat /\ words \in [1..l -> Word]
    BY <1>1, <2>1
  <2> HIDE DEF l
  <2>3. words \in UNION {[1..n -> Word] : n \in Nat}
    BY <2>2
  <2> QED BY <2>3, SeqDef
<1> DEFINE l == Len(words)
<1>7. l \in Nat /\ l <= 9
  BY <1>1
<1> HIDE DEF l
<1>8. l \in 0..9
  BY <1>7
<1> QED
  BY <1>6, <1>8 DEF l

LEMMA RequestsAreTexts ==
  ASSUME NEW words \in Requests
  PROVE  /\ words \in Seq(Word) /\ Len(words) \in 1..9
         /\ encodeRespArray(words) \in Seq(Char) /\ Len(encodeRespArray(words)) \in Nat \ {0}
<1>1. words \in Seq(Word) /\ Len(words) \in 0..9 /\ words # <<>>
  <2>1. /\ words \in Seq(Seq(STRING)) /\ Len(words) <= 9 /\ words # <<>>
        /\ \A n \in DOMAIN words : Len(words[n]) <= 9
    BY RequestAssumption DEF Requests
  <2> QED BY <2>1, ShortWords
<1>2. Len(words) \in 1..9
  <2> DEFINE l == Len(words)
  <2>1. l # 0
    BY <1>1, EmptySeq, SeqEqual
  <2>2. l \in 0..9
    BY <1>1
  <2> HIDE DEF l
  <2>3. l \in 1..9
    BY <2>1, <2>2
  <2> QED BY <2>3 DEF l
<1>3. encodeRespArray(words) \in Seq(Char) /\ Len(encodeRespArray(words)) >= 4
  <2>1. array_to_resp(words) \in Seq(Char) /\ Len(array_to_resp(words)) >= 4
    BY <1>1, <1>2, ArrayIsWritten
  <2> QED BY <2>1 DEF encodeRespArray
<1>4. Len(encodeRespArray(words)) \in Nat
  BY <1>3, LenProperties
<1> QED
  BY <1>1, <1>2, <1>3, <1>4

-----------------------------------------------------------------------------
(* What the window makes of an answer *)

Blank(c) == c \in Whitespace

LEMMA TrimmedIs ==
  ASSUME NEW text \in Seq(Char), NEW m \in 1..Len(text), NEW n \in 1..Len(text),
         ~Blank(text[m]), ~Blank(text[n]),
         \A i \in 1..Len(text) : i < m \/ n < i => Blank(text[i])
  PROVE  Trimmed(text) = SubSeq(text, m, n)
<1> DEFINE kept == {i \in DOMAIN text : text[i] \notin Whitespace}
<1>1. Len(text) \in Nat /\ DOMAIN text = 1..Len(text)
  BY LenProperties
<1>2. /\ m \in kept /\ n \in kept
      /\ \A i \in kept : i \in Nat /\ m <= i /\ i <= n
  BY <1>1 DEF Blank
<1> HIDE DEF kept
<1>3. Min(kept) = m
  <2>1. \A x \in kept : (\A y \in kept : x =< y) => x = m
    BY <1>2
  <2> QED BY <1>2, <2>1, Zenon DEF Min
<1>4. Max(kept) = n
  <2>1. \A x \in kept : (\A y \in kept : x >= y) => x = n
    BY <1>2
  <2>2. \A y \in kept : n >= y
    BY <1>2
  <2> QED BY <1>2, <2>1, <2>2, Zenon DEF Max
<1>5. Trimmed(text) = IF kept = {} THEN <<>> ELSE SubSeq(text, Min(kept), Max(kept))
  BY Zenon DEF Trimmed, kept
<1> QED
  BY <1>2, <1>3, <1>4, <1>5

LEMMA TrimmedBlank ==
  ASSUME NEW text \in Seq(Char), \A i \in 1..Len(text) : Blank(text[i])
  PROVE  Trimmed(text) = <<>>
<1>1. DOMAIN text = 1..Len(text)
  BY LenProperties
<1>2. {i \in DOMAIN text : text[i] \notin Whitespace} = {}
  BY <1>1 DEF Blank
<1> QED
  BY <1>2 DEF Trimmed

LEMMA LineEnd ==
  /\ CRLF \in Seq(Char) /\ Len(CRLF) = 2 /\ CRLF[1] = "CR" /\ CRLF[2] = "LF"
  /\ Blank("CR") /\ Blank("LF")
BY DEF CRLF, Char, Blank, Whitespace

\* A text with a mark in front and the line end behind it.
LEMMA MarkIsDecoded ==
  ASSUME NEW mark \in Char, NEW t \in Seq(Char)
  PROVE  LET data == <<mark>> \o t \o CRLF
             body == Tail(data)
         IN  /\ data \in Seq(Char) /\ data # <<>> /\ data[1] = mark
             /\ body \in Seq(Char) /\ Len(body) = Len(t) + 2
             /\ \A i \in 1..Len(t) : body[i] = t[i]
             /\ body[Len(t) + 1] = "CR" /\ body[Len(t) + 2] = "LF"
<1> DEFINE l == CRLF
           m == <<mark>>
           body == t \o l
           data == m \o body
           w == Len(t)
<1>1. /\ l \in Seq(Char) /\ Len(l) = 2 /\ l[1] = "CR" /\ l[2] = "LF" /\ w \in Nat
      /\ m \in Seq(Char) /\ Len(m) = 1 /\ m[1] = mark
  BY LineEnd, LenProperties
<1> HIDE DEF l, m
<1>2. m \o t \o l = data
  <2>1. m \in Seq(Char) /\ t \in Seq(Char) /\ l \in Seq(Char)
    BY <1>1
  <2>2. (m \o t) \o l = m \o (t \o l)
    BY <2>1, ConcatAssociative
  <2> QED BY <2>2
<1>3. /\ body \in Seq(Char) /\ Len(body) = w + 2
      /\ \A i \in 1..w : body[i] = t[i]
      /\ body[w + 1] = "CR" /\ body[w + 2] = "LF"
  <2>1. /\ body \in Seq(Char) /\ Len(body) = Len(t) + Len(l)
        /\ \A i \in 1..Len(t) + Len(l) : body[i] = IF i <= Len(t) THEN t[i] ELSE l[i - Len(t)]
    BY <1>1, ConcatProperties
  <2> HIDE DEF body
  <2>2. /\ \A i \in 1..w : i \in 1..w + 2 /\ i <= w
        /\ w + 1 \in 1..w + 2 /\ w + 2 \in 1..w + 2 /\ ~(w + 1 <= w) /\ ~(w + 2 <= w)
        /\ (w + 1) - w = 1 /\ (w + 2) - w = 2
    BY <1>1
  <2> HIDE DEF w
  <2>3. \A i \in 1..w + 2 : body[i] = IF i <= w THEN t[i] ELSE l[i - w]
    BY <1>1, <2>1 DEF w
  <2>4. body[w + 1] = l[1] /\ body[w + 2] = l[2] /\ \A i \in 1..w : body[i] = t[i]
    BY <2>2, <2>3
  <2> QED BY <1>1, <2>1, <2>4 DEF w
<1> HIDE DEF body
<1>4. /\ data \in Seq(Char) /\ Len(data) = 1 + (w + 2)
      /\ \A i \in 1..1 + (w + 2) : data[i] = IF i <= 1 THEN m[i] ELSE body[i - 1]
  <2>1. /\ data \in Seq(Char) /\ Len(data) = Len(m) + Len(body)
        /\ \A i \in 1..Len(m) + Len(body) :
             data[i] = IF i <= Len(m) THEN m[i] ELSE body[i - Len(m)]
    <3>1. m \in Seq(Char) /\ body \in Seq(Char)
      BY <1>1, <1>3
    <3> HIDE DEF w
    <3> QED BY <3>1, ConcatProperties
  <2> HIDE DEF data, w
  <2> QED BY <1>1, <1>3, <2>1
<1> HIDE DEF data, w
<1>5. data[1] = mark
  BY <1>1, <1>4
<1>6. Tail(data) = body
  <2>1. data # <<>>
    BY <1>1, <1>4
  <2>2. Tail(data) \in Seq(Char) /\ Len(Tail(data)) = Len(data) - 1
        /\ \A i \in 1..Len(Tail(data)) : Tail(data)[i] = data[i + 1]
    BY <1>4, <2>1, HeadTailProperties
  <2>3. \A i \in 1..(w + 2) : data[i + 1] = body[i]
    BY <1>1, <1>4
  <2>4. Len(Tail(data)) = w + 2
    BY <1>1, <1>4, <2>2
  <2> QED BY <1>3, <2>2, <2>3, <2>4, SeqEqual
<1>7. data # <<>>
  BY <1>1, <1>4
<1> QED
  BY <1>2, <1>3, <1>4, <1>5, <1>6, <1>7 DEF data, l, m, w

LEMMA NeatIsTrimmed ==
  ASSUME NEW t \in Seq(Char), Neat(t), NEW body \in Seq(Char), Len(body) = Len(t) + 2,
         \A i \in 1..Len(t) : body[i] = t[i],
         body[Len(t) + 1] = "CR", body[Len(t) + 2] = "LF"
  PROVE  Trimmed(body) = t
<1> DEFINE w == Len(t)
<1>1. w \in Nat
  BY LenProperties
<1>3. /\ body \in Seq(Char) /\ Len(body) = w + 2
      /\ \A i \in 1..w : body[i] = t[i]
      /\ body[w + 1] = "CR" /\ body[w + 2] = "LF"
  OBVIOUS
<1> HIDE DEF w
<1>7. Trimmed(body) = t
  <2>1. CASE t = <<>>
    <3>1. w = 0
      BY <2>1 DEF w
    <3>2. \A i \in 1..Len(body) : Blank(body[i])
      BY <1>3, <3>1, LineEnd
    <3> QED BY <1>3, <2>1, <3>2, TrimmedBlank
  <2>2. CASE t # <<>>
    <3>1. w >= 1
      <4>1. <<>> \in Seq(Char) /\ Len(<<>>) = 0
        BY EmptySeq
      <4>2. w = 0 => t = <<>>
        BY <4>1, SeqEqual DEF w
      <4> QED BY <1>1, <2>2, <4>2
    <3>2. ~Blank(t[1]) /\ ~Blank(t[w])
      BY <2>2 DEF Neat, Blank, w
    <3>3. /\ 1 \in 1..Len(body) /\ w \in 1..Len(body)
          /\ body[1] = t[1] /\ body[w] = t[w]
      BY <1>1, <1>3, <3>1
    <3>4. \A i \in 1..Len(body) : i < 1 \/ w < i => Blank(body[i])
      <4>1. \A i \in 1..Len(body) : i < 1 \/ w < i => i = w + 1 \/ i = w + 2
        BY <1>1, <1>3
      <4> QED BY <1>3, <4>1, LineEnd
    <3>5. Trimmed(body) = SubSeq(body, 1, w)
      BY <1>3, <3>2, <3>3, <3>4, TrimmedIs
    <3>6. /\ SubSeq(body, 1, w) \in Seq(Char) /\ Len(SubSeq(body, 1, w)) = w
          /\ \A i \in 1..w : SubSeq(body, 1, w)[i] = t[i]
      <4>1. \A i \in 1..w : body[i] \in Char
        <5>1. \A i \in 1..w : i \in 1..Len(body)
          BY <1>1, <1>3
        <5> QED BY <1>3, <5>1, ElementOfSeq
      <4> DEFINE s == SubSeq(body, 1, w)
      <4>2. /\ s \in Seq(Char) /\ Len(s) = IF 1 <= w THEN w - 1 + 1 ELSE 0
            /\ \A i \in 1..w - 1 + 1 : s[i] = body[1 + i - 1]
        BY <1>1, <4>1, SubSeqProperties
      <4> HIDE DEF s
      <4>3. w - 1 + 1 = w /\ \A i \in 1..w : 1 + i - 1 = i
        BY <1>1
      <4>4. s \in Seq(Char) /\ Len(s) = w /\ \A i \in 1..w : s[i] = t[i]
        BY <1>3, <3>1, <4>2, <4>3
      <4> QED BY <4>4 DEF s
    <3>7. SubSeq(body, 1, w) = t
      BY <3>6, SeqEqual DEF w
    <3> QED BY <3>5, <3>7
  <2> QED BY <2>1, <2>2
<1> QED
  BY <1>7

\* An answer of one line: +, - and :.
LEMMA LineIsDecoded ==
  ASSUME NEW mark \in {"+", "-", ":"}, NEW t \in Seq(Char), Neat(t)
  PROVE  LET data == <<mark>> \o t \o CRLF
         IN  /\ data \in Seq(Char) /\ data # <<>>
             /\ decodeRespReply(data) = CASE mark = "+" -> <<"OK", t>>
                                          [] mark = "-" -> <<"ERROR", t>>
                                          [] mark = ":" -> <<"integer", t>>
<1> DEFINE data == <<mark>> \o t \o CRLF
<1>1. mark \in Char
  BY DEF Char
<1>2. data \in Seq(Char) /\ data # <<>> /\ data[1] = mark /\ Trimmed(Tail(data)) = t
  <2> DEFINE body == Tail(data)
  <2>1. /\ data \in Seq(Char) /\ data # <<>> /\ data[1] = mark
        /\ body \in Seq(Char) /\ Len(body) = Len(t) + 2
        /\ \A i \in 1..Len(t) : body[i] = t[i]
        /\ body[Len(t) + 1] = "CR" /\ body[Len(t) + 2] = "LF"
    BY <1>1, MarkIsDecoded
  <2> HIDE DEF body
  <2>2. Trimmed(body) = t
    BY <2>1, NeatIsTrimmed
  <2> QED BY <2>1, <2>2 DEF body
<1> HIDE DEF data
<1>3. CASE mark = "+"
  <2>1. decodeRespReply(data) = <<"OK", t>>
    BY <1>2, <1>3 DEF decodeRespReply
  <2> QED BY <1>2, <1>3, <2>1 DEF data
<1>4. CASE mark = "-"
  <2>1. decodeRespReply(data) = <<"ERROR", t>>
    BY <1>2, <1>4 DEF decodeRespReply
  <2> QED BY <1>2, <1>4, <2>1 DEF data
<1>5. CASE mark = ":"
  <2>1. decodeRespReply(data) = <<"integer", t>>
    BY <1>2, <1>5 DEF decodeRespReply
  <2> QED BY <1>2, <1>5, <2>1 DEF data
<1> QED
  BY <1>3, <1>4, <1>5

\* The digit of a length.
LEMMA DigitIsPlain ==
  ASSUME NEW n \in 0..9
  PROVE  LET d == to_string(n)[1] IN ~Blank(d) /\ d # "CR" /\ d # "-"
<1> DEFINE D == <<"1", "2", "3", "4", "5", "6", "7", "8", "9">>
<1>1. \A d \in 1..9 : D[d] # "CR" /\ D[d] # "LF" /\ D[d] # " " /\ D[d] # "-"
  <2>1. \A d \in 1..9 : D[d] # "CR"
    OBVIOUS
  <2>2. \A d \in 1..9 : D[d] # "LF"
    OBVIOUS
  <2>3. \A d \in 1..9 : D[d] # " "
    <3> DEFINE S == {"1", "2", "3", "4", "5", "6", "7", "8", "9"}
    <3>1. \A d \in 1..9 : D[d] \in S
      OBVIOUS
    <3>2. " " \notin S
      BY Zenon
    <3> HIDE DEF D, S
    <3> QED BY <3>1, <3>2
  <2>4. \A d \in 1..9 : D[d] # "-"
    OBVIOUS
  <2> HIDE DEF D
  <2> QED BY <2>1, <2>2, <2>3, <2>4
<1> HIDE DEF D
<1>2. Digits = D
  BY DEF Digits, D
<1>3. CASE n = 0
  <2>1. to_string(n)[1] = "0"
    BY <1>3 DEF to_string
  <2> QED BY <2>1 DEF Blank, Whitespace
<1>4. CASE n \in 1..9
  <2>1. to_string(n)[1] = D[n]
    <3>1. n # 0 /\ n > 0
      BY <1>4
    <3>2. to_string(n) = <<D[n]>>
      BY <1>2, <3>1 DEF to_string
    <3> QED BY <3>2
  <2> QED BY <1>1, <1>4, <2>1 DEF Blank, Whitespace
<1> QED
  BY <1>3, <1>4

\* A number of one digit, with a sign or without.
LEMMA NumberIsWritten ==
  ASSUME NEW n \in -9..9
  PROVE  to_string(n) \in Seq(Char) /\ to_string(n) # <<>> /\ Neat(to_string(n))
<1>1. CASE n \in 0..9
  <2> DEFINE d == to_string(n)[1]
  <2>1. to_string(n) = <<d>> /\ d \in Char /\ ~Blank(d)
    BY <1>1, OneDigit, DigitIsPlain
  <2> HIDE DEF d
  <2>2. <<d>> \in Seq(Char) /\ Len(<<d>>) = 1 /\ <<d>>[1] = d /\ <<d>> # <<>>
    BY <2>1
  <2> QED BY <2>1, <2>2 DEF Neat, Blank
<1>2. CASE n \in -9..-1
  <2> DEFINE d == to_string(-n)[1]
             t == <<"-", d>>
  <2>1. -n \in 0..9 /\ -n \in 1..9
    BY <1>2
  <2>2. d \in Char /\ ~Blank(d) /\ to_string(-n) = <<d>>
    BY <2>1, OneDigit, DigitIsPlain
  <2>3. to_string(n) = t
    <3>1. n < 0 /\ n # 0 /\ ~(n > 0) /\ -n > 0 /\ -n # 0
      BY <1>2
    <3>2. to_string(-n) = <<Digits[-n]>>
      BY <3>1 DEF to_string
    <3>3. d = Digits[-n]
      BY <3>2
    <3> HIDE DEF d
    <3>4. to_string(n) = <<"-", Digits[-n]>>
      BY <3>1 DEF to_string
    <3> QED BY <3>3, <3>4
  <2> HIDE DEF d
  <2>4. "-" \in Char /\ ~Blank("-")
    BY DEF Char, Blank, Whitespace
  <2>5. t \in Seq(Char) /\ Len(t) = 2 /\ t[1] = "-" /\ t[2] = d /\ t # <<>>
    BY <2>2, <2>4
  <2> QED BY <2>2, <2>3, <2>4, <2>5 DEF Neat, Blank
<1> QED
  BY <1>1, <1>2


LEMMA BulkIsTrimmed ==
  ASSUME NEW word \in Word, word = <<>> \/ ~Blank(word[Len(word)])
  PROVE  LET data == bulk_string_resp(word)
             w    == Len(word)
             k    == IF w = 0 THEN 1 ELSE 3 + w
             kept == Trimmed(Tail(data))
         IN  /\ data \in Seq(Char) /\ data # <<>> /\ data[1] = "$"
             /\ w \in 0..9 /\ word \in Seq(Char)
             /\ kept \in Seq(Char) /\ Len(kept) = k /\ kept[1] = to_string(w)[1]
             /\ w # 0 => /\ kept[2] = "CR" /\ kept[3] = "LF"
                         /\ \A j \in 1..w : kept[3 + j] = word[j]
<1> DEFINE data == bulk_string_resp(word)
           w == Len(word)
           k == IF w = 0 THEN 1 ELSE 3 + w
           body == Tail(data)
           d == to_string(w)[1]
<1>1. word \in Seq(Char) /\ w \in 0..9
  <2>1. word \in Seq(Char) /\ w <= 9
    BY DEF Word
  <2>2. w \in Nat
    BY <2>1, LenProperties
  <2> HIDE DEF w
  <2> QED BY <2>1, <2>2
<1>2. /\ data \in Seq(Char) /\ Len(data) = 6 + w
      /\ data[1] = "$" /\ data[2] = d /\ data[3] = "CR" /\ data[4] = "LF"
      /\ \A j \in 1..w : data[4 + j] = word[j]
      /\ data[5 + w] = "CR" /\ data[6 + w] = "LF"
  BY BulkIsWritten
<1>3. d \in Char /\ ~Blank(d)
  <2> HIDE DEF w
  <2> QED BY <1>1, OneDigit, DigitIsPlain
<1>4. w # 0 => ~Blank(word[w])
  BY EmptySeq
<1> HIDE DEF data, w, d
<1>5. data # <<>>
  BY <1>1, <1>2
<1>6. /\ body \in Seq(Char) /\ Len(body) = 5 + w
      /\ \A i \in 1..(5 + w) : body[i] = data[i + 1]
  <2>1. Tail(data) \in Seq(Char) /\ Len(Tail(data)) = Len(data) - 1
        /\ \A i \in 1..Len(Tail(data)) : Tail(data)[i] = data[i + 1]
    BY <1>2, <1>5, HeadTailProperties
  <2> HIDE DEF body
  <2>2. body \in Seq(Char) /\ Len(body) = Len(data) - 1
        /\ \A i \in 1..Len(body) : body[i] = data[i + 1]
    BY <2>1 DEF body
  <2>3. Len(data) - 1 = 5 + w
    BY <1>1, <1>2
  <2> QED BY <2>2, <2>3
<1> HIDE DEF body
<1>7. /\ body[1] = d /\ body[2] = "CR" /\ body[3] = "LF"
      /\ body[4 + w] = "CR" /\ body[5 + w] = "LF"
  <2>1. /\ 1 \in 1..(5 + w) /\ 2 \in 1..(5 + w) /\ 3 \in 1..(5 + w)
        /\ 4 + w \in 1..(5 + w) /\ 5 + w \in 1..(5 + w)
        /\ (4 + w) + 1 = 5 + w /\ (5 + w) + 1 = 6 + w
    BY <1>1
  <2> QED BY <1>2, <1>6, <2>1
<1>8. \A j \in 1..w : body[3 + j] = word[j]
  <2>1. \A j \in 1..w : 3 + j \in 1..(5 + w) /\ (3 + j) + 1 = 4 + j
    BY <1>1
  <2> QED BY <1>2, <1>6, <2>1
<1>9. Trimmed(body) = SubSeq(body, 1, k)
  <2>1. 1 \in 1..Len(body) /\ k \in 1..Len(body)
    BY <1>1, <1>6
  <2>2. ~Blank(body[1])
    BY <1>3, <1>7
  <2>3. ~Blank(body[k])
    <3>1. CASE w = 0
      BY <2>2, <3>1
    <3>2. CASE w # 0
      <4>1. w \in 1..w /\ k = 3 + w
        BY <1>1, <3>2
      <4> QED BY <1>4, <1>8, <3>2, <4>1
    <3> QED BY <3>1, <3>2
  <2>4. \A i \in 1..Len(body) : i < 1 \/ k < i => Blank(body[i])
    <3>1. CASE w = 0
      <4>1. \A i \in 1..Len(body) : i < 1 \/ k < i => i = 2 \/ i = 3 \/ i = 4 \/ i = 5
        BY <1>6, <3>1
      <4>2. body[4] = "CR" /\ body[5] = "LF"
        BY <1>7, <3>1
      <4> QED BY <1>7, <4>1, <4>2, LineEnd
    <3>2. CASE w # 0
      <4>1. \A i \in 1..Len(body) : i < 1 \/ k < i => i = 4 + w \/ i = 5 + w
        BY <1>1, <1>6, <3>2
      <4> QED BY <1>7, <4>1, LineEnd
    <3> QED BY <3>1, <3>2
  <2> HIDE DEF k
  <2> QED BY <1>6, <2>1, <2>2, <2>3, <2>4, TrimmedIs
<1> DEFINE kept == SubSeq(body, 1, k)
<1>10. kept \in Seq(Char) /\ Len(kept) = k /\ \A i \in 1..k : kept[i] = body[i]
  <2>1. k \in Nat /\ 1 <= k /\ \A i \in 1..k : i \in 1..Len(body)
    BY <1>1, <1>6
  <2> HIDE DEF k
  <2>2. \A i \in 1..k : body[i] \in Char
    BY <1>6, <2>1, ElementOfSeq
  <2>3. /\ kept \in Seq(Char) /\ Len(kept) = IF 1 <= k THEN k - 1 + 1 ELSE 0
        /\ \A i \in 1..k - 1 + 1 : kept[i] = body[1 + i - 1]
    BY <2>1, <2>2, SubSeqProperties
  <2> HIDE DEF kept
  <2>4. k - 1 + 1 = k /\ \A i \in 1..k : 1 + i - 1 = i
    BY <2>1
  <2> QED BY <2>1, <2>3, <2>4
<1> HIDE DEF kept
<1>11. kept[1] = d
  <2>1. 1 \in 1..k
    BY <1>1
  <2> QED BY <1>7, <1>10, <2>1
<1>12. ASSUME w # 0
       PROVE  kept[2] = "CR" /\ kept[3] = "LF" /\ \A j \in 1..w : kept[3 + j] = word[j]
  <2>1. 2 \in 1..k /\ 3 \in 1..k /\ \A j \in 1..w : 3 + j \in 1..k
    BY <1>1, <1>12
  <2> HIDE DEF k
  <2> QED BY <1>7, <1>8, <1>10, <2>1
<1> QED
  BY <1>1, <1>2, <1>5, <1>9, <1>10, <1>11, <1>12 DEF data, w, body, d, kept

\* The first line end of a text.
LEMMA FirstLineEnds ==
  ASSUME NEW text \in Seq(Char), Len(text) >= 3,
         text[1] # "CR", text[2] = "CR", text[3] = "LF"
  PROVE  AfterFirstLine(text) = SubSeq(text, 4, Len(text))
<1> DEFINE ends == {n \in DOMAIN text : EndsLine(text, n)}
<1>1. Len(text) \in Nat /\ DOMAIN text = 1..Len(text)
  BY LenProperties
<1>2. 2 \in ends
  <2>1. SubSeq(text, 2, 3) = CRLF
    <3>1. \A i \in 2..3 : text[i] \in Char
      <4>1. \A i \in 2..3 : i \in 1..Len(text)
        BY <1>1
      <4> QED BY <4>1, ElementOfSeq
    <3> DEFINE s == SubSeq(text, 2, 3)
    <3>2. /\ s \in Seq(Char) /\ Len(s) = IF 2 <= 3 THEN 3 - 2 + 1 ELSE 0
          /\ \A i \in 1..3 - 2 + 1 : s[i] = text[2 + i - 1]
      BY <3>1, SubSeqProperties
    <3> HIDE DEF s
    <3>3. s[1] = "CR" /\ s[2] = "LF" /\ Len(s) = 2
      BY <3>2
    <3>4. \A i \in 1..2 : s[i] = CRLF[i]
      BY <3>3, LineEnd
    <3> QED BY <3>2, <3>3, <3>4, LineEnd, SeqEqual DEF s
  <2>2. 2 \in DOMAIN text /\ 2 < Len(text) /\ 2 + 1 = 3
    BY <1>1
  <2> QED BY <2>1, <2>2 DEF EndsLine
<1>3. 1 \notin ends
  <2> SUFFICES ASSUME EndsLine(text, 1) PROVE FALSE
    OBVIOUS
  <2>1. SubSeq(text, 1, 2) = CRLF
    BY DEF EndsLine
  <2>2. \A i \in 1..2 : text[i] \in Char
    <3>1. \A i \in 1..2 : i \in 1..Len(text)
      BY <1>1
    <3> QED BY <3>1, ElementOfSeq
  <2> DEFINE s == SubSeq(text, 1, 2)
  <2>3. \A i \in 1..2 - 1 + 1 : s[i] = text[1 + i - 1]
    BY <2>2, SubSeqProperties
  <2> HIDE DEF s
  <2>4. s[1] = text[1]
    BY <2>3
  <2> QED BY <2>1, <2>4, LineEnd DEF s
<1>4. \A n \in ends : n \in Nat /\ 2 <= n
  <2>1. \A n \in ends : n \in 1..Len(text)
    BY <1>1
  <2> HIDE DEF ends
  <2> QED BY <1>1, <1>3, <2>1
<1> HIDE DEF ends
<1>5. Min(ends) = 2
  <2>1. \A x \in ends : (\A y \in ends : x =< y) => x = 2
    BY <1>2, <1>4
  <2>2. \A y \in ends : 2 =< y
    BY <1>4
  <2> QED BY <1>2, <2>1, <2>2, Zenon DEF Min
<1>6. AfterFirstLine(text) = Behind(text, Min(ends) + 1)
  BY <1>2, Zenon DEF AfterFirstLine, ends
<1>7. (2 + 1) + 1 = 4
  OBVIOUS
<1> QED
  BY <1>5, <1>6, <1>7 DEF Behind


LEMMA BulkIsDecoded ==
  ASSUME NEW word \in Word, word = <<>> \/ ~Blank(word[Len(word)])
  PROVE  LET data == bulk_string_resp(word)
         IN  /\ data \in Seq(Char) /\ data # <<>>
             /\ decodeRespReply(data) = <<"text", word>>
<1> DEFINE data == bulk_string_resp(word)
           w == Len(word)
           k == IF w = 0 THEN 1 ELSE 3 + w
           kept == Trimmed(Tail(data))
           d == to_string(w)[1]
<1>1. /\ data \in Seq(Char) /\ data # <<>> /\ data[1] = "$"
      /\ w \in 0..9 /\ word \in Seq(Char)
      /\ kept \in Seq(Char) /\ Len(kept) = k /\ kept[1] = d
      /\ w # 0 => /\ kept[2] = "CR" /\ kept[3] = "LF"
                  /\ \A j \in 1..w : kept[3 + j] = word[j]
  BY BulkIsTrimmed
<1>2. d # "CR" /\ d # "-"
  <2> HIDE DEF w
  <2> QED BY <1>1, DigitIsPlain
<1>2a. w = 0 => word = <<>>
  <2>1. <<>> \in Seq(Char) /\ Len(<<>>) = 0
    BY EmptySeq
  <2> QED BY <1>1, <2>1, SeqEqual
<1> HIDE DEF d, w
<1>3. decodeRespReply(data) =
        IF IsPrefix(<<"-", "1">>, kept) THEN <<"nil">> ELSE <<"text", AfterFirstLine(kept)>>
  <2> HIDE DEF data
  <2> QED BY <1>1 DEF decodeRespReply
<1> HIDE DEF kept, data
<1>4. ~IsPrefix(<<"-", "1">>, kept)
  <2> DEFINE n == <<"-", "1">>
  <2>1. Len(n) = 2 /\ n[1] = "-" /\ "-" \in Char /\ "1" \in Char /\ n \in Seq(Char)
    BY DEF Char
  <2> HIDE DEF n
  <2> SUFFICES ASSUME IsPrefix(n, kept) PROVE FALSE
    BY DEF n
  <2>2. 2 <= Len(kept) /\ SubSeq(n, 1, 2) = SubSeq(kept, 1, 2)
    BY <2>1 DEF IsPrefix
  <2>3. \A i \in 1..2 : n[i] \in Char /\ kept[i] \in Char
    <3>1. \A i \in 1..2 : i \in 1..Len(n) /\ i \in 1..Len(kept)
      BY <1>1, <2>1, <2>2
    <3> QED BY <1>1, <2>1, <3>1, ElementOfSeq
  <2>4. \A i \in 1..2 - 1 + 1 : SubSeq(kept, 1, 2)[i] = kept[1 + i - 1]
    BY <2>3, SubSeqProperties
  <2>5. \A i \in 1..2 - 1 + 1 : SubSeq(n, 1, 2)[i] = n[1 + i - 1]
    BY <2>3, SubSeqProperties
  <2> DEFINE a == SubSeq(n, 1, 2)
             b == SubSeq(kept, 1, 2)
  <2> HIDE DEF a, b
  <2>6. a[1] = n[1]
    BY <2>5 DEF a
  <2>7. b[1] = kept[1]
    BY <2>4 DEF b
  <2>8. a = b
    BY <2>2 DEF a, b
  <2> QED BY <1>1, <1>2, <2>1, <2>6, <2>7, <2>8
<1>5. CASE w = 0
  <2>1. Len(kept) = 1 /\ DOMAIN kept = 1..1
    BY <1>1, <1>5, LenProperties
  <2>2. {n \in DOMAIN kept : EndsLine(kept, n)} = {}
    BY <2>1 DEF EndsLine
  <2>3. AfterFirstLine(kept) = <<>>
    BY <2>2, Zenon DEF AfterFirstLine
  <2> QED BY <1>1, <1>2a, <1>3, <1>4, <1>5, <2>3 DEF data
<1>6. CASE w # 0
  <2>1. Len(kept) = 3 + w /\ Len(kept) >= 3 /\ kept[1] # "CR" /\ kept[2] = "CR" /\ kept[3] = "LF"
    BY <1>1, <1>2, <1>6
  <2>2. AfterFirstLine(kept) = SubSeq(kept, 4, 3 + w)
    BY <1>1, <2>1, FirstLineEnds
  <2>3. SubSeq(kept, 4, 3 + w) = word
    <3> DEFINE s == SubSeq(kept, 4, 3 + w)
               e == 3 + w
    <3>1. e \in Nat /\ 4 <= e /\ e - 4 + 1 = w /\ \A i \in 4..e : i \in 1..Len(kept)
      BY <1>1, <1>6, <2>1
    <3>2. \A i \in 1..w : 4 + i - 1 = 3 + i
      BY <1>1
    <3> HIDE DEF e
    <3>3. \A i \in 4..e : kept[i] \in Char
      BY <1>1, <3>1, ElementOfSeq
    <3>4. /\ SubSeq(kept, 4, e) \in Seq(Char)
          /\ Len(SubSeq(kept, 4, e)) = IF 4 <= e THEN e - 4 + 1 ELSE 0
          /\ \A i \in 1..e - 4 + 1 : SubSeq(kept, 4, e)[i] = kept[4 + i - 1]
      BY <3>1, <3>3, SubSeqProperties
    <3>5. s = SubSeq(kept, 4, e)
      BY DEF e
    <3> HIDE DEF s
    <3>6. s \in Seq(Char) /\ Len(s) = w /\ \A i \in 1..w : s[i] = word[i]
      BY <1>1, <1>6, <3>1, <3>2, <3>4, <3>5
    <3> QED BY <1>1, <3>6, SeqEqual DEF s, w
  <2> QED BY <1>1, <1>3, <1>4, <2>2, <2>3 DEF data
<1> QED
  BY <1>5, <1>6

LEMMA NilIsDecoded ==
  nil_resp \in Seq(Char) /\ nil_resp # <<>> /\ decodeRespReply(nil_resp) = <<"nil">>
<1> DEFINE t == <<"-", "1">>
           data == <<"$">> \o t \o CRLF
<1>1. /\ t \in Seq(Char) /\ Len(t) = 2 /\ t[1] = "-" /\ t[2] = "1" /\ "$" \in Char
  BY DEF Char
<1>2. ~Blank("-") /\ ~Blank("1")
  BY DEF Blank, Whitespace
<1>3. <<"$">> \o t = <<"$", "-", "1">>
  <2> DEFINE m == <<"$">>
             a == m \o t
             c == <<"$", "-", "1">>
  <2>1. /\ c \in Seq(Char) /\ Len(c) = 3 /\ c[1] = "$" /\ c[2] = "-" /\ c[3] = "1"
        /\ m \in Seq(Char) /\ Len(m) = 1 /\ m[1] = "$"
    BY <1>1 DEF Char
  <2> HIDE DEF m, c, t
  <2>2. /\ a \in Seq(Char) /\ Len(a) = Len(m) + Len(t)
        /\ \A i \in 1..Len(m) + Len(t) : a[i] = IF i <= Len(m) THEN m[i] ELSE t[i - Len(m)]
    BY <1>1, <2>1, ConcatProperties
  <2> HIDE DEF a
  <2>3. Len(a) = 3 /\ a[1] = m[1] /\ a[2] = t[1] /\ a[3] = t[2]
    BY <1>1, <2>1, <2>2
  <2>4. \A i \in 1..3 : a[i] = c[i]
    <3>1. \A i \in 1..3 : i = 1 \/ i = 2 \/ i = 3
      OBVIOUS
    <3> QED BY <1>1, <2>1, <2>3, <3>1
  <2>5. a = c
    BY <2>1, <2>2, <2>3, <2>4, SeqEqual
  <2> QED BY <2>5 DEF a, c, m
<1>4. nil_resp = data
  BY <1>3 DEF nil_resp
<1> HIDE DEF t
<1>5. Neat(t)
  BY <1>1, <1>2 DEF Neat, Blank
<1>6. data \in Seq(Char) /\ data # <<>> /\ data[1] = "$" /\ Trimmed(Tail(data)) = t
  <2>1. /\ data \in Seq(Char) /\ data # <<>> /\ data[1] = "$"
        /\ Tail(data) \in Seq(Char) /\ Len(Tail(data)) = Len(t) + 2
        /\ \A i \in 1..Len(t) : Tail(data)[i] = t[i]
        /\ Tail(data)[Len(t) + 1] = "CR" /\ Tail(data)[Len(t) + 2] = "LF"
    BY <1>1, MarkIsDecoded
  <2> HIDE DEF data
  <2> QED BY <1>1, <1>5, <2>1, NeatIsTrimmed
<1> HIDE DEF data
<1>7. IsPrefix(t, t)
  BY <1>1 DEF IsPrefix
<1>8. decodeRespReply(data) = <<"nil">>
  BY <1>6, <1>7 DEF decodeRespReply, t
<1> QED
  BY <1>4, <1>6, <1>8

LEMMA ArrayIsShown ==
  ASSUME NEW words \in Seq(Word), Len(words) \in 0..9
  PROVE  LET data == array_to_resp(words)
         IN  /\ data \in Seq(Char) /\ data # <<>>
             /\ decodeRespReply(data) = <<"raw", data>>
<1> DEFINE data == array_to_resp(words)
<1>1. data \in Seq(Char) /\ Len(data) >= 4 /\ data[1] = "*"
  BY ArrayIsWritten
<1> HIDE DEF data
<1>2. data # <<>>
  BY <1>1
<1>3. decodeRespReply(data) = <<"raw", data>>
  BY <1>1 DEF decodeRespReply
<1> QED
  BY <1>1, <1>2, <1>3 DEF data

LEMMA AnswerIsShown ==
  ASSUME NEW answer \in Answers
  PROVE  /\ Encode(answer) \in Seq(Char) /\ Encode(answer) # <<>>
         /\ decodeRespReply(Encode(answer)) = Meaning(answer)
<1> DEFINE what == answer[1]
           x == answer[2]
<1>0. Plain(answer) /\ \A w \in Seq(STRING) : w \in Seq(Char)
  BY AnswerAssumption DEF Char
<1>1. CASE what = "simple"
  <2>1. Encode(answer) = <<"+">> \o x \o CRLF /\ Meaning(answer) = <<"OK", x>>
    BY <1>1 DEF Encode, Meaning, text_to_resp
  <2>2. x \in Seq(Char) /\ Neat(x)
    BY <1>0, <1>1 DEF Plain
  <2>3. "+" \in {"+", "-", ":"}
    OBVIOUS
  <2> HIDE DEF x
  <2> QED BY <2>1, <2>2, <2>3, LineIsDecoded
<1>2. CASE what = "error"
  <2>1. Encode(answer) = <<"-">> \o x \o CRLF /\ Meaning(answer) = <<"ERROR", x>>
    BY <1>2 DEF Encode, Meaning, error_resp
  <2>2. x \in Seq(Char) /\ Neat(x)
    BY <1>0, <1>2 DEF Plain
  <2>3. "-" \in {"+", "-", ":"}
    OBVIOUS
  <2> HIDE DEF x
  <2> QED BY <2>1, <2>2, <2>3, LineIsDecoded
<1>3. CASE what = "int"
  <2>1. /\ Encode(answer) = <<":">> \o to_string(x) \o CRLF
        /\ Meaning(answer) = <<"integer", to_string(x)>>
    BY <1>3 DEF Encode, Meaning, longlong_resp
  <2>2. x \in -9..9
    BY <1>0, <1>3 DEF Plain
  <2> HIDE DEF x
  <2>3. to_string(x) \in Seq(Char) /\ Neat(to_string(x)) /\ ":" \in {"+", "-", ":"}
    BY <2>2, NumberIsWritten
  <2> QED BY <2>1, <2>3, LineIsDecoded
<1>4. CASE what = "bulk"
  <2>1. Encode(answer) = bulk_string_resp(x) /\ Meaning(answer) = <<"text", x>>
    BY <1>4 DEF Encode, Meaning
  <2>2. x \in Word /\ (x = <<>> \/ ~Blank(x[Len(x)]))
    BY <1>0, <1>4 DEF Plain, Word, Blank
  <2> HIDE DEF x
  <2> QED BY <2>1, <2>2, BulkIsDecoded
<1>5. CASE what = "nil"
  <2>1. Encode(answer) = nil_resp /\ Meaning(answer) = <<"nil">>
    BY <1>5 DEF Encode, Meaning
  <2> QED BY <2>1, NilIsDecoded
<1>6. CASE what = "array"
  <2>1. Encode(answer) = array_to_resp(x) /\ Meaning(answer) = <<"raw", Encode(answer)>>
    BY <1>6 DEF Encode, Meaning
  <2>2. /\ x \in Seq(Seq(STRING)) /\ Len(x) <= 9
        /\ \A n \in DOMAIN x : Len(x[n]) <= 9
    BY <1>0, <1>6 DEF Plain
  <2> HIDE DEF x
  <2>3. x \in Seq(Word) /\ Len(x) \in 0..9
    BY <2>2, ShortWords
  <2> QED BY <2>1, <2>3, ArrayIsShown
<1> QED
  BY <1>0, <1>1, <1>2, <1>3, <1>4, <1>5, <1>6 DEF Plain

\* The parser of the server on the text of one request.
LEMMA RequestComesThrough ==
  ASSUME NEW words \in Requests
  PROVE  /\ encodeRespArray(words) \in Seq(Char) /\ words # <<>>
         /\ resp_to_text(encodeRespArray(words)) = [strings |-> words, beyond |-> FALSE]
<1>1. /\ words \in Seq(Word) /\ Len(words) \in 1..9
      /\ encodeRespArray(words) \in Seq(Char) /\ words # <<>>
  BY RequestsAreTexts DEF Requests
<1> DEFINE text == array_to_resp(words)
<1>2. text \in Seq(Char) /\ <<>> \in Seq(Char)
  BY <1>1, EmptySeq DEF encodeRespArray
<1>3. resp_to_text(text \o <<>>) = [strings |-> words, beyond |-> FALSE]
  BY <1>1, <1>2, RequestIsRead
<1> HIDE DEF text
<1>4. text \o <<>> = text
  BY <1>2, ConcatEmptySeq
<1> QED
  BY <1>1, <1>3, <1>4 DEF text, encodeRespArray

-----------------------------------------------------------------------------
(* The inductive invariant *)

\* What the histories say of each other.
Served ==
  /\ typed \in Seq(Requests) /\ served \in Seq(Requests)
  /\ answered \in Seq(Answers) /\ Len(answered) = Len(served)
  /\ typed = served \/ \E words \in Requests : typed = Append(served, words)

Shown ==
  /\ shown \in Seq({Meaning(answer) : answer \in Answers})
  /\ Len(shown) <= Len(answered)
  /\ \A n \in DOMAIN shown : shown[n] = Meaning(answered[n])

\* Nothing is under way; while the connection is up, nothing is owed either.
Quiet ==
  /\ toServer = Nothing /\ toClient = Nothing
  /\ link = "up" => typed = served /\ Len(shown) = Len(answered)

\* The one request that has not been served is all there is under way.
Asked ==
  /\ \E words \in Requests : /\ typed = Append(served, words)
                             /\ toServer = One(encodeRespArray(words))
  /\ toClient = Nothing /\ Len(shown) = Len(answered)

\* The one answer that has not been shown is.
Answered ==
  /\ link = "up" /\ toServer = Nothing /\ typed = served
  /\ \E answer \in Answers : /\ answered[Len(answered)] = answer
                             /\ toClient = One(Encode(answer))
  /\ Len(answered) = Len(shown) + 1

TalkInv == patient /\ ~cut => Served /\ Shown /\ (Quiet \/ Asked \/ Answered)

-----------------------------------------------------------------------------
(* Streams *)

LEMMA WriteOne ==
  ASSUME NEW text \in Seq(Char)
  PROVE  Written(Nothing, text) = One(text)
<1>1. <<>> \o text = text
  BY ConcatEmptySeq
<1> QED
  BY <1>1 DEF Written, Nothing, One

\* What may be read of no write, of one, and what is left of that.
LEMMA ReadNothing ==
  ASSUME NEW room \in Int
  PROVE  Reads(Nothing, room) = {}
<1>1. Len(Nothing.text) = 0
  BY DEF Nothing
<1>2. \A a \in Int, b \in Int : Min({a, b}) <= a /\ Min({a, b}) \in {a, b}
  <2> TAKE a \in Int, b \in Int
  <2> DEFINE m == IF a <= b THEN a ELSE b
  <2>1. m \in {a, b} /\ \A y \in {a, b} : m =< y
    OBVIOUS
  <2>2. \A x \in {a, b} : (\A y \in {a, b} : x =< y) => x = m
    BY <2>1
  <2>3. Min({a, b}) = m
    BY <2>1, <2>2, Zenon DEF Min
  <2> QED BY <2>3
<1>3. Min({Len(Nothing.text), room}) <= 0 /\ Min({Len(Nothing.text), room}) \in Int
  <2>1. 0 \in Int
    OBVIOUS
  <2>2. Min({0, room}) \in {0, room} /\ Min({0, room}) <= 0
    BY <1>2, <2>1
  <2> QED BY <1>1, <2>2
<1> QED
  BY <1>3 DEF Reads

LEMMA ReadOne ==
  ASSUME NEW text \in Seq(Char), NEW n, n \in One(text).ends
  PROVE  Given(One(text), n) = text /\ Left(One(text), n) = Nothing
<1>1. n = Len(text) /\ Len(text) \in Nat
  BY LenProperties DEF One
<1>2. SubSeq(text, 1, Len(text)) = text
  BY SubSeqFull
<1>3. SubSeq(text, Len(text) + 1, Len(text)) = <<>>
  BY <1>1, SubSeqEmpty
<1>4. {e - n : e \in {m \in {n} : m > n}} = {}
  BY <1>1
<1> QED
  BY <1>1, <1>2, <1>3, <1>4 DEF Given, Left, Behind, One, Nothing

-----------------------------------------------------------------------------
(* The steps *)

LEMMA TalkStart ==
  ASSUME typed = <<>>, served = <<>>, answered = <<>>, shown = <<>>,
         toServer = Nothing, toClient = Nothing
  PROVE  Served /\ Shown /\ Quiet
BY EmptySeq DEF Served, Shown, Quiet

LEMMA ConnectTalks == ASSUME Connect PROVE TalkInv'
<1>1. /\ typed' = <<>> /\ served' = <<>> /\ answered' = <<>> /\ shown' = <<>>
      /\ toServer' = Nothing /\ toClient' = Nothing
  BY DEF Connect, Fresh
<1>2. Served' /\ Shown' /\ Quiet'
  BY <1>1, EmptySeq DEF Served, Shown, Quiet, Nothing
<1> QED
  BY <1>2 DEF TalkInv

\* The connection ends: what is under way may vanish, and nothing is owed.
LEMMA EndTalks ==
  ASSUME TalkInv, link' # "up", UNCHANGED <<patient, typed, served, answered, shown, cut>>,
         \/ toServer' = Nothing /\ toClient' = Nothing
         \/ toServer' = toServer /\ toClient' = Nothing
  PROVE  TalkInv'
<1> SUFFICES ASSUME patient, ~cut PROVE TalkInv'
  BY DEF TalkInv
<1>1. Served' /\ Shown'
  BY DEF TalkInv, Served, Shown
<1>2. CASE toServer' = Nothing
  BY <1>1, <1>2 DEF TalkInv, Quiet
<1>3. CASE toServer' = toServer /\ toServer # Nothing
  BY <1>1, <1>3 DEF TalkInv, Quiet, Asked, Answered
<1> QED
  BY <1>2, <1>3

LEMMA SendTalks ==
  ASSUME TalkInv, NEW line \in Lines, onSendClicked(line) PROVE TalkInv'
<1> DEFINE words == splitCommand(line)
<1>0. /\ link = "up" /\ words \in Requests /\ (patient => Len(shown) >= Len(typed))
      /\ toServer' = Written(toServer, encodeRespArray(words))
      /\ typed' = Append(typed, words)
      /\ UNCHANGED <<patient, link, toClient, served, answered, shown, cut>>
  BY DEF onSendClicked, Requests
<1> HIDE DEF words
<1> SUFFICES ASSUME patient, ~cut PROVE TalkInv'
  BY <1>0 DEF TalkInv
<1>1. Served /\ Shown /\ (Quiet \/ Asked \/ Answered)
  BY DEF TalkInv
<1>2. /\ Len(typed) \in Nat /\ Len(served) \in Nat /\ Len(shown) \in Nat
      /\ Len(answered) = Len(served) /\ typed \in Seq(Requests) /\ Len(shown) >= Len(typed)
  BY <1>0, <1>1, LenProperties DEF Served, Shown
<1>3. ~Asked
  <2> SUFFICES ASSUME Asked PROVE FALSE
    OBVIOUS
  <2>1. Len(typed) = Len(served) + 1 /\ Len(shown) = Len(answered)
    BY <1>1, AppendProperties DEF Asked, Served
  <2> QED BY <1>2, <2>1
<1>4. ~Answered
  <2> SUFFICES ASSUME Answered PROVE FALSE
    OBVIOUS
  <2>1. Len(typed) = Len(served) /\ Len(answered) = Len(shown) + 1
    BY DEF Answered
  <2> QED BY <1>2, <2>1
<1>5. toServer = Nothing /\ toClient = Nothing /\ typed = served /\ Len(shown) = Len(answered)
  BY <1>0, <1>1, <1>3, <1>4 DEF Quiet
<1>6. typed' = Append(served', words) /\ typed' \in Seq(Requests)
  BY <1>0, <1>2, <1>5, AppendProperties
<1>7. toServer' = One(encodeRespArray(words))
  BY <1>0, <1>5, WriteOne, RequestComesThrough
<1>8. Served'
  BY <1>0, <1>1, <1>6 DEF Served
<1>9. Shown'
  BY <1>0, <1>1 DEF Shown
<1>10. Asked'
  BY <1>0, <1>5, <1>6, <1>7 DEF Asked, Nothing
<1> QED
  BY <1>8, <1>9, <1>10 DEF TalkInv

LEMMA ShowTalks ==
  ASSUME TalkInv, onSocketReadyRead PROVE TalkInv'
<1>0. PICK n \in Reads(toClient, Len(toClient.text)) :
        /\ toClient' = Left(toClient, n)
        /\ cut' = (cut \/ n \notin toClient.ends)
        /\ shown' = Record(shown, decodeRespReply(Given(toClient, n)))
  BY DEF onSocketReadyRead
<1>0a. link = "up" /\ UNCHANGED <<patient, link, toServer, typed, served, answered>>
  BY DEF onSocketReadyRead
<1> SUFFICES ASSUME patient, ~cut' PROVE TalkInv'
  BY <1>0a DEF TalkInv
<1>1. ~cut /\ n \in toClient.ends
  BY <1>0
<1>2. Served /\ Shown /\ (Quiet \/ Asked \/ Answered)
  BY <1>1 DEF TalkInv
<1>3. toClient # Nothing
  <2>1. Nothing.ends = {}
    BY DEF Nothing
  <2> QED BY <1>1, <2>1
<1>4. Answered
  BY <1>2, <1>3 DEF Quiet, Asked
<1>5. PICK answer \in Answers : /\ answered[Len(answered)] = answer
                                /\ toClient = One(Encode(answer))
  BY <1>4 DEF Answered
<1>6. Encode(answer) \in Seq(Char) /\ decodeRespReply(Encode(answer)) = Meaning(answer)
  BY AnswerIsShown
<1>7. Given(toClient, n) = Encode(answer) /\ toClient' = Nothing
  BY <1>0, <1>1, <1>5, <1>6, ReadOne
<1>8. shown' = Append(shown, Meaning(answer))
  BY <1>0, <1>6, <1>7, Zenon DEF Record
<1> DEFINE S == {Meaning(a) : a \in Answers}
           m == Meaning(answer)
<1>9. shown \in Seq(S) /\ m \in S
  BY <1>2 DEF Shown
<1>9a. Len(shown) \in Nat /\ DOMAIN shown = 1..Len(shown)
  BY <1>9, LenProperties
<1> HIDE DEF S, m
<1>10. /\ shown' \in Seq(S) /\ Len(shown') = Len(shown) + 1 /\ shown'[Len(shown) + 1] = m
       /\ \A j \in 1..Len(shown) : shown'[j] = shown[j]
  BY <1>8, <1>9, AppendProperties DEF m
<1>11. DOMAIN shown' = 1..Len(shown) + 1
  BY <1>10, LenProperties
<1>12. Len(answered) = Len(shown) + 1
  BY <1>4 DEF Answered
<1>13. \A j \in DOMAIN shown' : shown'[j] = Meaning(answered[j])
  <2> SUFFICES ASSUME NEW j \in DOMAIN shown' PROVE shown'[j] = Meaning(answered[j])
    OBVIOUS
  <2>1. CASE j = Len(shown) + 1
    BY <1>5, <1>10, <1>12, <2>1 DEF m
  <2>2. CASE j # Len(shown) + 1
    <3>1. j \in 1..Len(shown)
      BY <1>9a, <1>11, <2>2
    <3> QED BY <1>2, <1>9a, <1>10, <3>1 DEF Shown
  <2> QED BY <2>1, <2>2
<1>14. Len(shown') = Len(answered') /\ Len(shown') <= Len(answered')
  BY <1>0a, <1>9a, <1>10, <1>12
<1>15. Shown'
  BY <1>0a, <1>10, <1>13, <1>14 DEF Shown, S
<1>16. Served' /\ Quiet'
  BY <1>0a, <1>2, <1>4, <1>7, <1>14 DEF Served, Quiet, Answered, Nothing
<1> QED
  BY <1>15, <1>16 DEF TalkInv

LEMMA ReceiveTalks ==
  ASSUME TalkInv, Receive PROVE TalkInv'
<1>0. link # "down" /\ UNCHANGED <<patient, typed, shown>>
  BY DEF Receive
<1>0a. PICK n \in Reads(toServer, BufferSize - 1) :
        /\ toServer' = Left(toServer, n)
        /\ cut' = (cut \/ n \notin toServer.ends)
        /\ LET parsed == resp_to_text(Given(toServer, n))
           IN  IF parsed.beyond THEN Stray ELSE request_router(parsed.strings)
  BY Zenon DEF Receive
<1> SUFFICES ASSUME patient, ~cut' PROVE TalkInv'
  BY <1>0 DEF TalkInv
<1>1. ~cut /\ n \in toServer.ends
  BY <1>0a
<1>2. Served /\ Shown /\ (Quiet \/ Asked \/ Answered)
  BY <1>1 DEF TalkInv
<1>3. toServer # Nothing
  <2>1. Nothing.ends = {}
    BY DEF Nothing
  <2> QED BY <1>1, <2>1
<1>4. Asked
  BY <1>2, <1>3 DEF Quiet, Answered
<1>5. PICK words \in Requests : /\ typed = Append(served, words)
                                /\ toServer = One(encodeRespArray(words))
  BY <1>4 DEF Asked
<1>6. /\ encodeRespArray(words) \in Seq(Char) /\ words # <<>>
      /\ resp_to_text(encodeRespArray(words)) = [strings |-> words, beyond |-> FALSE]
  BY RequestComesThrough
<1>7. Given(toServer, n) = encodeRespArray(words) /\ toServer' = Nothing
  BY <1>0a, <1>1, <1>5, <1>6, ReadOne
<1>8. request_router(words)
  <2> DEFINE parsed == resp_to_text(Given(toServer, n))
  <2>1. parsed = [strings |-> words, beyond |-> FALSE]
    BY <1>6, <1>7, Zenon
  <2> HIDE DEF parsed
  <2>2. ~parsed.beyond /\ parsed.strings = words
    BY <2>1
  <2>3. IF parsed.beyond THEN Stray ELSE request_router(parsed.strings)
    BY <1>0a DEF parsed
  <2> QED BY <2>2, <2>3, Zenon
<1>9. PICK answer \in Answers :
        /\ answered' = Append(answered, answer)
        /\ toClient' = IF link = "up" THEN Written(toClient, Encode(answer)) ELSE toClient
  BY <1>6, <1>8, Zenon DEF request_router, Reply, Record
<1>10. served' = Append(served, words) /\ link' = link
  BY <1>6, <1>8, Zenon DEF request_router, Record
<1>11. /\ typed' = served' /\ typed' \in Seq(Requests) /\ served' \in Seq(Requests)
       /\ answered' \in Seq(Answers) /\ Len(served') = Len(served) + 1
       /\ Len(answered') = Len(answered) + 1 /\ answered'[Len(answered) + 1] = answer
       /\ \A j \in 1..Len(answered) : answered'[j] = answered[j]
  BY <1>0, <1>2, <1>5, <1>9, <1>10, AppendProperties DEF Served
<1>12. Served'
  BY <1>2, <1>11 DEF Served
<1>13. /\ Len(shown) = Len(answered) /\ Len(answered) \in Nat /\ DOMAIN shown = 1..Len(answered)
  <2>1. Len(shown) = Len(answered)
    BY <1>4 DEF Asked
  <2> QED BY <1>2, <2>1, LenProperties DEF Shown, Served
<1>14. Shown'
  <2>1. Len(shown') <= Len(answered')
    BY <1>0, <1>11, <1>13
  <2>2. \A j \in DOMAIN shown' : shown'[j] = Meaning(answered'[j])
    BY <1>0, <1>2, <1>11, <1>13 DEF Shown
  <2> QED BY <1>0, <1>2, <2>1, <2>2 DEF Shown
<1>15. toClient = Nothing
  BY <1>4 DEF Asked
<1>16. CASE link = "up"
  <2>1. toClient' = One(Encode(answer))
    <3>1. Encode(answer) \in Seq(Char)
      BY AnswerIsShown
    <3> QED BY <1>9, <1>15, <1>16, <3>1, WriteOne
  <2>2. Answered'
    BY <1>0, <1>7, <1>10, <1>11, <1>13, <1>16, <2>1 DEF Answered, Nothing
  <2> QED BY <1>12, <1>14, <2>2 DEF TalkInv
<1>17. CASE link # "up"
  <2>1. Quiet'
    BY <1>7, <1>9, <1>10, <1>15, <1>17 DEF Quiet, Nothing
  <2> QED BY <1>12, <1>14, <2>1 DEF TalkInv
<1> QED
  BY <1>16, <1>17

LEMMA TalkStep ==
  ASSUME TalkInv, [TalkNext]_talkVars PROVE TalkInv'
<1>1. CASE Disconnect
  <2>1. /\ link' # "up" /\ toServer' = toServer /\ toClient' = Nothing
        /\ UNCHANGED <<patient, typed, served, answered, shown, cut>>
    BY <1>1 DEF Disconnect
  <2> QED BY <2>1, EndTalks
<1>2. CASE Close
  <2>1. /\ link' # "up" /\ toServer' = Nothing /\ toServer' = toServer /\ toClient' = toClient
        /\ link # "up" /\ UNCHANGED <<patient, typed, served, answered, shown, cut>>
    BY <1>2 DEF Close
  <2>2. CASE patient /\ ~cut
    <3>1. toClient = Nothing
      BY <2>1, <2>2 DEF TalkInv, Quiet, Asked, Answered
    <3> QED BY <2>1, <3>1, EndTalks
  <2>3. CASE ~(patient /\ ~cut)
    BY <2>1, <2>3 DEF TalkInv
  <2> QED BY <2>2, <2>3
<1>3. CASE Break
  <2>1. /\ link' # "up" /\ toServer' = Nothing /\ toClient' = Nothing
        /\ UNCHANGED <<patient, typed, served, answered, shown, cut>>
    BY <1>3 DEF Break
  <2> QED BY <2>1, EndTalks
<1>4. CASE UNCHANGED talkVars
  BY <1>4 DEF talkVars, TalkInv, Served, Shown, Quiet, Asked, Answered
<1> QED
  BY <1>1, <1>2, <1>3, <1>4, ConnectTalks, SendTalks, ShowTalks, ReceiveTalks DEF TalkNext

\* The invariant says what PatientTalk says: one request more is a prefix.
LEMMA TalkIsPatient == ASSUME TalkInv PROVE PatientTalk
<1> SUFFICES ASSUME patient, ~cut, Served, Shown PROVE IsPrefix(served, typed)
  BY DEF TalkInv, PatientTalk, Served, Shown
<1>1. CASE typed = served
  <2>1. Len(served) <= Len(served)
    BY LenProperties DEF Served
  <2> QED BY <1>1, <2>1 DEF IsPrefix
<1>2. ASSUME NEW words \in Requests, typed = Append(served, words)
      PROVE  IsPrefix(served, typed)
  <2>1. /\ served \in Seq(Requests) /\ Len(served) \in Nat /\ Len(typed) = Len(served) + 1
        /\ \A j \in 1..Len(served) : typed[j] = served[j]
    BY <1>2, AppendProperties, LenProperties DEF Served
  <2>2. \A j \in 1..Len(served) : served[j] \in Requests
    BY <2>1, ElementOfSeq
  <2>3. SubSeq(served, 1, Len(served)) = SubSeq(typed, 1, Len(served))
    BY <2>1, <2>2
  <2> QED BY <2>1, <2>3 DEF IsPrefix
<1> QED
  BY <1>1, <1>2 DEF Served

\* To a patient user the connection is as good as a call, however long it
\* lasts: request_router gets the words typed and onSocketReadyRead shows the
\* answers to them, although reads and writes need not match.
THEOREM PatientUsersAreServed == TalkSpec => []PatientTalk
<1>1. TalkInit => TalkInv
  BY TalkStart DEF TalkInit, TalkInv
<1>2. TalkInv /\ [TalkNext]_talkVars => TalkInv'
  BY TalkStep
<1>3. TalkInv => PatientTalk
  BY TalkIsPatient
<1> QED
  BY <1>1, <1>2, <1>3, PTL DEF TalkSpec

-----------------------------------------------------------------------------
(* The impatient user: what is under way is the requests behind the first   *)
(* p, and what was served are some of those.                                *)

\* The stream is made of the requests behind the first p; end says where each
\* of them ends in it.
Carries(stream, requests, p, end) ==
  /\ stream.text \in Seq(Char)
  /\ \A i \in p..Len(requests) : end[i] \in Nat
  /\ end[p] = 0 /\ end[Len(requests)] = Len(stream.text)
  /\ \A i, j \in p..Len(requests) : i < j => end[i] < end[j]
  /\ \A i \in (p + 1)..Len(requests) :
       LET text == encodeRespArray(requests[i])
       IN  /\ end[i] = end[i - 1] + Len(text)
           /\ \A j \in 1..Len(text) : stream.text[end[i - 1] + j] = text[j]
  /\ stream.ends = {end[i] : i \in (p + 1)..Len(requests)}

\* Some of the first p of those asked, in their order; at says which.
Chosen(some, asked, p, at) ==
  /\ at \in [1..Len(some) -> 1..p]
  /\ \A m, n \in 1..Len(some) : m < n => at[m] < at[n]
  /\ \A n \in 1..Len(some) : some[n] = asked[at[n]]

FlowInv ==
  ~cut =>
    /\ typed \in Seq(Requests) /\ served \in Seq(Requests)
    /\ \E p \in 0..Len(typed) :
         /\ \E at : Chosen(served, typed, p, at)
         /\ link # "down" => \E end : Carries(toServer, typed, p, end)

LEMMA NothingCarried ==
  /\ <<>> \in Seq(Requests)
  /\ \E p \in 0..Len(<<>>) : (\E at : Chosen(<<>>, <<>>, p, at))
                           /\ \E end : Carries(Nothing, <<>>, p, end)
<1>1. Len(<<>>) = 0 /\ <<>> \in Seq(Requests)
  BY EmptySeq
<1> DEFINE at == [n \in 1..0 |-> 1]
           end == [n \in 0..0 |-> 0]
<1>2. Chosen(<<>>, <<>>, 0, at)
  BY <1>1 DEF Chosen
<1>3. Carries(Nothing, <<>>, 0, end)
  <2>1. Nothing.text \in Seq(Char) /\ Len(Nothing.text) = 0 /\ Nothing.ends = {}
    BY EmptySeq DEF Nothing
  <2>2. \A i \in 0..0 : i = 0 /\ end[i] = 0
    OBVIOUS
  <2>3. (0 + 1)..0 = {} /\ 0 \in 0..0
    OBVIOUS
  <2> HIDE DEF end
  <2> QED BY <1>1, <2>1, <2>2, <2>3 DEF Carries
<1> QED
  BY <1>1, <1>2, <1>3

LEMMA SendFlows ==
  ASSUME FlowInv, NEW line \in Lines, onSendClicked(line) PROVE FlowInv'
<1> DEFINE words == splitCommand(line)
           text == encodeRespArray(words)
           N == Len(typed)
<1>0. /\ link = "up" /\ words \in Requests
      /\ toServer' = Written(toServer, text)
      /\ typed' = Append(typed, words)
      /\ UNCHANGED <<link, served, cut>>
  BY DEF onSendClicked, Requests
<1> SUFFICES ASSUME ~cut PROVE FlowInv'
  BY <1>0 DEF FlowInv
<1>1. typed \in Seq(Requests) /\ served \in Seq(Requests) /\ N \in Nat
  BY LenProperties DEF FlowInv
<1>2. PICK p \in 0..N : (\E at : Chosen(served, typed, p, at)) /\ (\E end : Carries(toServer, typed, p, end))
  BY <1>0 DEF FlowInv
<1>3. PICK at : Chosen(served, typed, p, at)
  BY <1>2
<1>4. PICK end : Carries(toServer, typed, p, end)
  BY <1>2
<1>5. text \in Seq(Char) /\ Len(text) \in Nat \ {0}
  BY <1>0, RequestsAreTexts
<1> HIDE DEF words, text
<1>6. /\ typed' \in Seq(Requests) /\ Len(typed') = N + 1 /\ typed'[N + 1] = words
      /\ \A i \in 1..N : typed'[i] = typed[i]
  BY <1>0, <1>1, AppendProperties
<1> HIDE DEF N
<1>7. Chosen(served', typed', p, at)
  <2>1. at \in [1..Len(served) -> 1..p] /\ \A n \in 1..Len(served) : served[n] = typed[at[n]]
    BY <1>3 DEF Chosen
  <2>2. \A n \in 1..Len(served) : at[n] \in 1..N
    BY <1>1, <1>2, <2>1
  <2>3. \A n \in 1..Len(served) : served[n] = typed'[at[n]]
    BY <1>6, <2>1, <2>2
  <2> QED BY <1>0, <1>3, <2>3 DEF Chosen
<1> DEFINE old == toServer.text
           all == old \o text
           last == Len(old) + Len(text)
           e == [i \in p..(N + 1) |-> IF i = N + 1 THEN last ELSE end[i]]
<1>8. /\ old \in Seq(Char) /\ Len(old) \in Nat
      /\ end[p] = 0 /\ end[N] = Len(old) /\ \A i \in p..N : end[i] \in Nat
      /\ \A i, j \in p..N : i < j => end[i] < end[j]
  BY <1>4, LenProperties DEF Carries, N
<1>8a. /\ toServer.ends = {end[i] : i \in (p + 1)..N}
       /\ \A i \in (p + 1)..N :
            /\ end[i] = end[i - 1] + Len(encodeRespArray(typed[i]))
            /\ \A j \in 1..Len(encodeRespArray(typed[i])) :
                 old[end[i - 1] + j] = encodeRespArray(typed[i])[j]
  BY <1>4, Zenon DEF Carries, N
<1> HIDE DEF old
<1>9. /\ all \in Seq(Char) /\ Len(all) = last
      /\ \A i \in 1..Len(old) : all[i] = old[i]
      /\ \A i \in 1..Len(text) : all[Len(old) + i] = text[i]
  <2>1. /\ all \in Seq(Char) /\ Len(all) = Len(old) + Len(text)
        /\ \A i \in 1..Len(old) + Len(text) :
             all[i] = IF i <= Len(old) THEN old[i] ELSE text[i - Len(old)]
    BY <1>5, <1>8, ConcatProperties
  <2> HIDE DEF all
  <2>2. \A i \in 1..Len(old) : i \in 1..Len(old) + Len(text) /\ i <= Len(old)
    BY <1>5, <1>8
  <2>3. \A i \in 1..Len(text) : /\ Len(old) + i \in 1..Len(old) + Len(text)
                                /\ ~(Len(old) + i <= Len(old)) /\ (Len(old) + i) - Len(old) = i
    BY <1>5, <1>8
  <2> QED BY <2>1, <2>2, <2>3
<1>10. toServer' = [text |-> all, ends |-> toServer.ends \cup {last}]
  BY <1>0, <1>9 DEF Written, old
<1> HIDE DEF all
<1>11. /\ \A i \in p..N : i \in p..(N + 1) /\ e[i] = end[i]
       /\ e[N + 1] = last /\ N + 1 \in p..(N + 1) /\ N \in p..N /\ p \in p..N
  BY <1>1, <1>2 DEF N
<1>12. last \in Nat /\ last > Len(old) /\ p \in Nat /\ N \in Nat /\ p <= N
  BY <1>1, <1>2, <1>5, <1>8 DEF N
<1> HIDE DEF e, last
<1>13. \A i \in p..(N + 1) : e[i] \in Nat /\ (i \in p..N \/ i = N + 1)
  BY <1>8, <1>11, <1>12
<1>14. \A i, j \in p..(N + 1) : i < j => e[i] < e[j]
  <2> SUFFICES ASSUME NEW i \in p..(N + 1), NEW j \in p..(N + 1), i < j PROVE e[i] < e[j]
    OBVIOUS
  <2>1. i \in p..N
    BY <1>12
  <2>2. CASE j \in p..N
    BY <1>8, <1>11, <2>1, <2>2
  <2>3. CASE j = N + 1
    <3>1. end[i] <= end[N]
      <4>1. CASE i = N
        BY <1>8, <1>11, <4>1
      <4>2. CASE i # N
        <5>1. i < N
          BY <1>12, <2>1, <4>2
        <5>2. end[i] < end[N] /\ end[i] \in Nat /\ end[N] \in Nat
          BY <1>8, <1>11, <2>1, <5>1
        <5> QED BY <5>2
      <4> QED BY <4>1, <4>2
    <3>2. e[i] = end[i] /\ e[j] = last /\ end[i] \in Nat /\ end[N] = Len(old)
      BY <1>8, <1>11, <2>1, <2>3
    <3> QED BY <1>8, <1>12, <3>1, <3>2
  <2> QED BY <1>13, <2>2, <2>3
<1>15. \A i \in (p + 1)..(N + 1) :
         /\ e[i] = e[i - 1] + Len(encodeRespArray(typed'[i]))
         /\ \A j \in 1..Len(encodeRespArray(typed'[i])) :
              all[e[i - 1] + j] = encodeRespArray(typed'[i])[j]
  <2> SUFFICES ASSUME NEW i \in (p + 1)..(N + 1)
               PROVE  /\ e[i] = e[i - 1] + Len(encodeRespArray(typed'[i]))
                      /\ \A j \in 1..Len(encodeRespArray(typed'[i])) :
                           all[e[i - 1] + j] = encodeRespArray(typed'[i])[j]
    OBVIOUS
  <2>1. CASE i = N + 1
    <3>1. i - 1 = N /\ e[i - 1] = Len(old) /\ e[i] = last /\ encodeRespArray(typed'[i]) = text
      BY <1>6, <1>8, <1>11, <1>12, <2>1 DEF text
    <3> QED BY <1>9, <3>1 DEF last
  <2>2. CASE i # N + 1
    <3>1. i \in (p + 1)..N /\ i \in p..N /\ i - 1 \in p..N /\ i \in 1..N /\ i - 1 < i
      BY <1>12, <2>2
    <3>2. e[i] = end[i] /\ e[i - 1] = end[i - 1] /\ typed'[i] = typed[i]
      BY <1>6, <1>11, <3>1
    <3> DEFINE t == encodeRespArray(typed[i])
               w == Len(t)
    <3>3. end[i] = end[i - 1] + w /\ \A j \in 1..w : old[end[i - 1] + j] = t[j]
      BY <1>8a, <3>1, Zenon
    <3>4. w \in Nat
      <4>1. typed[i] \in Requests
        BY <1>1, <3>1, ElementOfSeq DEF N
      <4> QED BY <4>1, RequestsAreTexts
    <3> HIDE DEF t, w
    <3>5. \A j \in 1..w : end[i - 1] + j \in 1..Len(old)
      <4>1. end[i] <= end[N] /\ end[i] \in Nat /\ end[i - 1] \in Nat /\ end[N] = Len(old)
        <5>1. CASE i = N
          BY <1>8, <3>1, <5>1
        <5>2. CASE i # N
          <6>1. i < N /\ N \in p..N
            BY <1>12, <3>1, <5>2
          <6>2. end[i] < end[N] /\ end[i] \in Nat /\ end[i - 1] \in Nat /\ end[N] \in Nat
            BY <1>8, <3>1, <6>1
          <6> QED BY <1>8, <6>2
        <5> QED BY <5>1, <5>2
      <4> QED BY <1>8, <3>3, <3>4, <4>1
    <3>6. \A j \in 1..w : all[end[i - 1] + j] = t[j]
      BY <1>9, <3>3, <3>5
    <3> QED BY <3>2, <3>3, <3>6 DEF t, w
  <2> QED BY <2>1, <2>2
<1>16. toServer.ends \cup {last} = {e[i] : i \in (p + 1)..(N + 1)}
  <2>1. \A i \in (p + 1)..N : i \in p..N /\ i \in (p + 1)..(N + 1)
    BY <1>12
  <2>2. N + 1 \in (p + 1)..(N + 1) /\ \A i \in (p + 1)..(N + 1) : i \in (p + 1)..N \/ i = N + 1
    BY <1>12
  <2> QED BY <1>8a, <1>11, <2>1, <2>2
<1>17. Carries(toServer', typed', p, e)
  <2>1. toServer'.text = all /\ toServer'.ends = toServer.ends \cup {last}
    BY <1>10
  <2>2. /\ e[p] = 0 /\ e[N + 1] = Len(all)
    BY <1>8, <1>9, <1>11
  <2> QED BY <1>6, <1>9, <1>13, <1>14, <1>15, <1>16, <2>1, <2>2 DEF Carries
<1>18. p \in 0..Len(typed')
  BY <1>6, <1>12
<1> QED
  BY <1>0, <1>1, <1>6, <1>7, <1>17, <1>18 DEF FlowInv

\* Of the end of a request in the stream, the others are before or behind it.
LEMMA EndsInOrder ==
  ASSUME NEW stream, NEW requests \in Seq(Requests), NEW p \in 0..Len(requests), NEW end,
         Carries(stream, requests, p, end), NEW q \in p..Len(requests), NEW i \in p..Len(requests)
  PROVE  /\ Len(requests) \in Nat /\ end[i] \in Nat /\ end[q] \in Nat
         /\ end[i] <= Len(stream.text)
         /\ i < q => end[i] < end[q]
         /\ i >= q => end[i] >= end[q]
<1> DEFINE N == Len(requests)
           old == stream.text
<1>1. /\ N \in Nat /\ p \in Nat /\ p <= N /\ Len(old) \in Nat /\ end[N] = Len(old)
      /\ \A k \in p..N : end[k] \in Nat
      /\ \A k, l \in p..N : k < l => end[k] < end[l]
  BY LenProperties DEF Carries
<1> HIDE DEF N, old
<1>2. q \in p..N /\ i \in p..N /\ N \in p..N
  BY <1>1 DEF N
<1>3. i <= N /\ (i = N \/ i < N) /\ (i = q \/ i < q \/ q < i)
  BY <1>1, <1>2
<1>4. end[i] \in Nat /\ end[q] \in Nat /\ end[N] \in Nat
  BY <1>1, <1>2
<1>5. end[i] <= Len(old)
  BY <1>1, <1>2, <1>3, <1>4
<1>6. i < q => end[i] < end[q]
  BY <1>1, <1>2
<1>7. i >= q => end[i] >= end[q]
  <2>1. q < i => end[q] < end[i]
    BY <1>1, <1>2
  <2> QED BY <1>1, <1>2, <1>3, <1>4, <2>1
<1> QED
  BY <1>1, <1>4, <1>5, <1>6, <1>7 DEF N, old

BeginsWith(text, start) == \E rest \in Seq(Char) : text = start \o rest

\* A read up to the end of a request begins with the first one.
LEMMA FirstIsGiven ==
  ASSUME NEW stream, NEW requests \in Seq(Requests), NEW p \in 0..Len(requests), NEW end,
         Carries(stream, requests, p, end), NEW q \in (p + 1)..Len(requests)
  PROVE  /\ requests[p + 1] \in Requests
         /\ BeginsWith(Given(stream, end[q]), encodeRespArray(requests[p + 1]))
<1> DEFINE N == Len(requests)
           old == stream.text
           first == encodeRespArray(requests[p + 1])
           w == Len(first)
           n == end[q]
           given == SubSeq(old, 1, n)
           rest == SubSeq(old, w + 1, n)
<1>1. N \in Nat /\ p \in Nat /\ old \in Seq(Char) /\ Len(old) \in Nat
  BY LenProperties DEF Carries
<1>2. p + 1 \in 1..N /\ p + 1 \in (p + 1)..N /\ p \in p..N /\ p + 1 \in p..N /\ q \in p..N
      /\ (p + 1) - 1 = p
  BY <1>1
<1>3. requests[p + 1] \in Requests
  BY <1>2, ElementOfSeq
<1>4. first \in Seq(Char) /\ w \in Nat
  BY <1>3, RequestsAreTexts
<1>5. end[p] = 0 /\ end[p + 1] = end[p] + w /\ \A j \in 1..w : old[end[p] + j] = first[j]
  BY <1>2 DEF Carries
<1>6. end[p + 1] = w /\ \A j \in 1..w : old[j] = first[j]
  <2> HIDE DEF w, first, old
  <2>1. \A j \in 1..w : 0 + j = j
    BY <1>4
  <2> QED BY <1>4, <1>5, <2>1
<1>7. n \in Nat /\ n <= Len(old) /\ w <= n
  <2>1. n \in Nat /\ n <= Len(old)
    BY <1>2, EndsInOrder
  <2>2. q >= p + 1
    BY <1>1
  <2>3. end[q] >= end[p + 1]
    BY <1>2, <2>2, EndsInOrder
  <2> HIDE DEF w, old
  <2> QED BY <1>4, <1>6, <2>1, <2>3
<1> HIDE DEF old, first, w, n
<1>8. \A i \in 1..n : old[i] \in Char
  <2>1. \A i \in 1..n : i \in 1..Len(old)
    BY <1>1, <1>7
  <2> QED BY <1>1, <2>1, ElementOfSeq
<1>9. given \in Seq(Char) /\ Len(given) = n /\ \A i \in 1..n : given[i] = old[i]
  <2>1. /\ given \in Seq(Char) /\ Len(given) = IF 1 <= n THEN n - 1 + 1 ELSE 0
        /\ \A i \in 1..n - 1 + 1 : given[i] = old[1 + i - 1]
    BY <1>7, <1>8, SubSeqProperties
  <2> HIDE DEF given
  <2>2. n - 1 + 1 = n /\ (n = 0 \/ 1 <= n) /\ \A i \in 1..n : 1 + i - 1 = i
    BY <1>7
  <2> QED BY <1>7, <2>1, <2>2
<1>10. rest \in Seq(Char) /\ Len(rest) = n - w /\ \A i \in 1..(n - w) : rest[i] = old[w + i]
  <2>0. \A i \in w + 1..n : old[i] \in Char
    BY <1>4, <1>8
  <2>1. /\ rest \in Seq(Char) /\ Len(rest) = IF w + 1 <= n THEN n - (w + 1) + 1 ELSE 0
        /\ \A i \in 1..n - (w + 1) + 1 : rest[i] = old[(w + 1) + i - 1]
    BY <1>4, <1>7, <2>0, SubSeqProperties
  <2> HIDE DEF rest
  <2>2. /\ n - (w + 1) + 1 = n - w /\ (IF w + 1 <= n THEN n - w ELSE 0) = n - w
        /\ \A i \in 1..(n - w) : (w + 1) + i - 1 = w + i
    BY <1>4, <1>7
  <2> QED BY <2>1, <2>2
<1> HIDE DEF given, rest
<1>11. first \o rest = given
  <2> DEFINE both == first \o rest
  <2>1. /\ both \in Seq(Char) /\ Len(both) = Len(first) + Len(rest)
        /\ \A i \in 1..Len(first) + Len(rest) :
             both[i] = IF i <= Len(first) THEN first[i] ELSE rest[i - Len(first)]
    BY <1>4, <1>10, ConcatProperties
  <2> HIDE DEF both
  <2>2. Len(first) = w /\ w + (n - w) = n
    BY <1>4, <1>7 DEF w
  <2>3. Len(both) = n
    BY <1>10, <2>1, <2>2
  <2>4. ASSUME NEW i \in 1..n PROVE both[i] = given[i]
    <3>1. both[i] = IF i <= w THEN first[i] ELSE rest[i - w]
      BY <1>10, <2>1, <2>2
    <3>2. CASE i <= w
      <4>1. i \in 1..w
        BY <1>4, <3>2
      <4> QED BY <1>6, <1>9, <3>1, <3>2, <4>1
    <3>3. CASE ~(i <= w)
      <4>1. i - w \in 1..(n - w) /\ w + (i - w) = i
        BY <1>4, <1>7, <3>3
      <4> QED BY <1>9, <1>10, <3>1, <3>3, <4>1
    <3> QED BY <3>2, <3>3
  <2>5. both = given
    BY <1>9, <2>1, <2>3, <2>4, SeqEqual
  <2> QED BY <2>5 DEF both
<1>12. Given(stream, n) = given
  BY DEF Given, given, old
<1> QED
  BY <1>3, <1>10, <1>11, <1>12 DEF first, n, BeginsWith

\* What is left behind such a read.
LEMMA LeftCarries ==
  ASSUME NEW stream, NEW requests \in Seq(Requests), NEW p \in 0..Len(requests), NEW end,
         Carries(stream, requests, p, end), NEW q \in (p + 1)..Len(requests)
  PROVE  \E e : Carries(Left(stream, end[q]), requests, q, e)
<1> DEFINE N == Len(requests)
           old == stream.text
           n == end[q]
           new == SubSeq(old, n + 1, Len(old))
           e == [i \in q..N |-> end[i] - n]
<1>1. N \in Nat /\ p \in Nat /\ q \in Nat /\ old \in Seq(Char) /\ Len(old) \in Nat
  BY LenProperties DEF Carries
<1>2. q \in p..N /\ \A i \in q..N : i \in p..N /\ i >= q
  BY <1>1
<1>3. /\ n \in Nat /\ n <= Len(old) /\ end[N] = Len(old)
      /\ \A i \in q..N : end[i] \in Nat /\ n <= end[i] /\ end[i] <= Len(old)
      /\ \A i, j \in q..N : i < j => end[i] < end[j]
  <2>1. n \in Nat /\ n <= Len(old)
    BY <1>2, EndsInOrder
  <2>2. \A i \in q..N : end[i] \in Nat /\ n <= end[i] /\ end[i] <= Len(old)
    <3> SUFFICES ASSUME NEW i \in q..N PROVE end[i] \in Nat /\ n <= end[i] /\ end[i] <= Len(old)
      OBVIOUS
    <3>1. end[i] \in Nat /\ end[i] >= end[q] /\ end[i] <= Len(stream.text)
      BY <1>2, EndsInOrder
    <3> QED BY <2>1, <3>1
  <2>3. end[N] = Len(old) /\ \A i, j \in p..N : i < j => end[i] < end[j]
    BY DEF Carries
  <2> QED BY <1>2, <2>1, <2>2, <2>3
<1>4. /\ stream.ends = {end[i] : i \in (p + 1)..N}
      /\ \A i \in (p + 1)..N :
            /\ end[i] = end[i - 1] + Len(encodeRespArray(requests[i]))
            /\ \A j \in 1..Len(encodeRespArray(requests[i])) :
                 old[end[i - 1] + j] = encodeRespArray(requests[i])[j]
  BY Zenon DEF Carries
<1>5. \A i \in (p + 1)..N : (end[i] > n) <=> i \in (q + 1)..N
  <2> SUFFICES ASSUME NEW i \in (p + 1)..N PROVE (end[i] > n) <=> i \in (q + 1)..N
    OBVIOUS
  <2>1. i \in p..N
    BY <1>1
  <2>2. end[q] \in Nat /\ end[i] \in Nat /\ (i < q => end[i] < end[q])
    BY <1>2, <2>1, EndsInOrder
  <2>3. q < i => end[q] < end[i]
    BY <1>2, <2>1, EndsInOrder
  <2> HIDE DEF N
  <2>4. (i < q \/ i = q \/ q < i) /\ (q < i <=> i \in (q + 1)..N)
    BY <1>1, <2>1
  <2> QED BY <2>2, <2>3, <2>4
<1> HIDE DEF old, n
<1>6. /\ new \in Seq(Char) /\ Len(new) = Len(old) - n
      /\ \A i \in 1..(Len(old) - n) : new[i] = old[n + i]
  <2>0. \A i \in n + 1..Len(old) : old[i] \in Char
    <3>1. \A i \in n + 1..Len(old) : i \in 1..Len(old)
      BY <1>3
    <3> QED BY <1>1, <3>1, ElementOfSeq
  <2>1. /\ new \in Seq(Char) /\ Len(new) = IF n + 1 <= Len(old) THEN Len(old) - (n + 1) + 1 ELSE 0
        /\ \A i \in 1..Len(old) - (n + 1) + 1 : new[i] = old[(n + 1) + i - 1]
    BY <1>1, <1>3, <2>0, SubSeqProperties
  <2> HIDE DEF new
  <2>2. /\ Len(old) - (n + 1) + 1 = Len(old) - n
        /\ (IF n + 1 <= Len(old) THEN Len(old) - n ELSE 0) = Len(old) - n
        /\ \A i \in 1..(Len(old) - n) : (n + 1) + i - 1 = n + i
    BY <1>1, <1>3
  <2> QED BY <2>1, <2>2
<1>7. \A i \in q..N : e[i] = end[i] - n
  OBVIOUS
<1>8. /\ Left(stream, n).text = new
      /\ Left(stream, n).ends = {m - n : m \in {k \in stream.ends : k > n}}
  BY DEF Left, Behind, old
<1> HIDE DEF new, e, N
<1>9. \A i \in q..N : e[i] \in Nat
  BY <1>3, <1>7
<1>10. e[q] = 0 /\ e[N] = Len(new)
  <2>1. q \in q..N /\ N \in q..N /\ end[q] - n = 0
    BY <1>1, <1>2, <1>3 DEF n
  <2> QED BY <1>3, <1>6, <1>7, <2>1
<1>11. \A i, j \in q..N : i < j => e[i] < e[j]
  BY <1>3, <1>7
<1>12. ASSUME NEW i \in (q + 1)..N
       PROVE  /\ e[i] = e[i - 1] + Len(encodeRespArray(requests[i]))
              /\ \A j \in 1..Len(encodeRespArray(requests[i])) :
                   new[e[i - 1] + j] = encodeRespArray(requests[i])[j]
  <2> DEFINE t == encodeRespArray(requests[i])
             w == Len(t)
  <2>1. i \in (p + 1)..N /\ i \in q..N /\ i - 1 \in q..N /\ i \in 1..N
    BY <1>1, <1>2
  <2>2. end[i] = end[i - 1] + w /\ \A j \in 1..w : old[end[i - 1] + j] = t[j]
    BY <1>4, <2>1, Zenon
  <2>3. w \in Nat
    <3>1. requests[i] \in Requests
      BY <2>1, ElementOfSeq DEF N
    <3> QED BY <3>1, RequestsAreTexts
  <2> HIDE DEF w, t
  <2>4. /\ end[i] \in Nat /\ end[i - 1] \in Nat /\ end[i] <= Len(old) /\ n <= end[i - 1]
        /\ e[i] = end[i] - n /\ e[i - 1] = end[i - 1] - n
    BY <1>3, <1>7, <2>1
  <2>5. e[i] = e[i - 1] + w
    BY <1>3, <2>2, <2>3, <2>4
  <2>6. \A j \in 1..w : /\ e[i - 1] + j \in 1..(Len(old) - n)
                        /\ n + (e[i - 1] + j) = end[i - 1] + j
    <3> DEFINE a == e[i - 1]
               b == end[i - 1]
               c == end[i]
               m == Len(old)
    <3>1. /\ a = b - n /\ c = b + w /\ c <= m /\ n <= b
          /\ b \in Nat /\ c \in Nat /\ w \in Nat /\ n \in Nat /\ m \in Nat
      BY <1>1, <1>3, <2>2, <2>3, <2>4
    <3> HIDE DEF a, b, c, m
    <3>2. \A j \in 1..w : a + j \in 1..(m - n) /\ n + (a + j) = b + j
      BY <3>1
    <3> QED BY <3>2 DEF a, b, m
  <2>7. \A j \in 1..w : new[e[i - 1] + j] = t[j]
    BY <1>6, <2>2, <2>6
  <2> QED BY <2>5, <2>7 DEF t, w
<1>13. {m - n : m \in {k \in stream.ends : k > n}} = {e[i] : i \in (q + 1)..N}
  <2>1. \A i \in (q + 1)..N : i \in (p + 1)..N /\ i \in q..N
    BY <1>1, <1>2
  <2>2. {k \in stream.ends : k > n} = {end[i] : i \in (q + 1)..N}
    BY <1>4, <1>5, <2>1
  <2> QED BY <1>7, <2>1, <2>2
<1>14. Carries(Left(stream, n), requests, q, e)
  BY <1>6, <1>8, <1>9, <1>10, <1>11, <1>12, <1>13 DEF Carries, N
<1> QED
  BY <1>14 DEF n

LEMMA ReceiveFlows ==
  ASSUME FlowInv, Receive PROVE FlowInv'
<1>0. link # "down" /\ UNCHANGED typed
  BY DEF Receive
<1>0a. PICK n \in Reads(toServer, BufferSize - 1) :
        /\ toServer' = Left(toServer, n)
        /\ cut' = (cut \/ n \notin toServer.ends)
        /\ LET parsed == resp_to_text(Given(toServer, n))
           IN  IF parsed.beyond THEN Stray ELSE request_router(parsed.strings)
  BY Zenon DEF Receive
<1> SUFFICES ASSUME ~cut' PROVE FlowInv'
  BY DEF FlowInv
<1>1. ~cut /\ n \in toServer.ends
  BY <1>0a
<1> DEFINE N == Len(typed)
<1>2. typed \in Seq(Requests) /\ served \in Seq(Requests) /\ N \in Nat
  BY <1>1, LenProperties DEF FlowInv
<1>3. PICK p \in 0..N : (\E at : Chosen(served, typed, p, at)) /\ (\E end : Carries(toServer, typed, p, end))
  BY <1>0, <1>1 DEF FlowInv
<1>4. PICK at : Chosen(served, typed, p, at)
  BY <1>3
<1>5. PICK end : Carries(toServer, typed, p, end)
  BY <1>3
<1>6. PICK q \in (p + 1)..N : n = end[q]
  BY <1>1, <1>5 DEF Carries
<1> DEFINE words == typed[p + 1]
<1>7. words \in Requests /\ BeginsWith(Given(toServer, n), encodeRespArray(words))
  <2>1. /\ typed[p + 1] \in Requests
        /\ BeginsWith(Given(toServer, end[q]), encodeRespArray(typed[p + 1]))
    BY <1>2, <1>5, FirstIsGiven
  <2> QED BY <1>6, <2>1
<1>8. \E e : Carries(toServer', typed', q, e)
  <2>1. \E e : Carries(Left(toServer, end[q]), typed, q, e)
    BY <1>2, <1>5, LeftCarries
  <2> QED BY <1>0, <1>0a, <1>6, <2>1
<1>9. p \in Nat /\ p + 1 \in 1..N /\ q \in Nat /\ p < q /\ q \in 0..N
  BY <1>2
<1> HIDE DEF words, N
<1>10. PICK rest \in Seq(Char) : Given(toServer, n) = encodeRespArray(words) \o rest
  BY <1>7 DEF BeginsWith
<1>11. resp_to_text(Given(toServer, n)) = [strings |-> words, beyond |-> FALSE] /\ words # <<>>
  <2>1. words \in Seq(Word) /\ Len(words) \in 1..9
    BY <1>7, RequestsAreTexts
  <2>2. resp_to_text(array_to_resp(words) \o rest) = [strings |-> words, beyond |-> FALSE]
    BY <2>1, RequestIsRead
  <2>3. words # <<>>
    BY <1>7 DEF Requests
  <2> QED BY <1>10, <2>2, <2>3 DEF encodeRespArray
<1>12. request_router(words)
  <2> DEFINE parsed == resp_to_text(Given(toServer, n))
  <2>1. parsed = [strings |-> words, beyond |-> FALSE]
    BY <1>11
  <2> HIDE DEF parsed
  <2>2. ~parsed.beyond /\ parsed.strings = words
    BY <2>1
  <2>3. IF parsed.beyond THEN Stray ELSE request_router(parsed.strings)
    BY <1>0a DEF parsed
  <2> QED BY <2>2, <2>3, Zenon
<1>13. served' = Append(served, words)
  BY <1>11, <1>12, Zenon DEF request_router, Record
<1> DEFINE M == Len(served)
           b == [k \in 1..(M + 1) |-> IF k = M + 1 THEN p + 1 ELSE at[k]]
<1>14. /\ M \in Nat /\ served' \in Seq(Requests) /\ Len(served') = M + 1
       /\ served'[M + 1] = words /\ \A k \in 1..M : served'[k] = served[k]
  BY <1>2, <1>7, <1>13, AppendProperties, LenProperties
<1>15. /\ at \in [1..M -> 1..p] /\ \A k, l \in 1..M : k < l => at[k] < at[l]
       /\ \A k \in 1..M : served[k] = typed[at[k]]
  BY <1>4 DEF Chosen
<1> HIDE DEF M
<1>16. /\ b[M + 1] = p + 1 /\ \A k \in 1..M : b[k] = at[k]
       /\ \A k \in 1..(M + 1) : k \in 1..M \/ k = M + 1
       /\ \A k \in 1..M : at[k] \in 1..p
  BY <1>14, <1>15
<1>17. b \in [1..(M + 1) -> 1..q]
  <2>1. \A k \in 1..(M + 1) : b[k] \in 1..q
    <3>1. p + 1 \in 1..q /\ \A i \in 1..p : i \in 1..q
      BY <1>9
    <3> HIDE DEF b
    <3> QED BY <1>16, <3>1
  <2> QED BY <2>1
<1> HIDE DEF b
<1>18. \A k, l \in 1..(M + 1) : k < l => b[k] < b[l]
  <2> SUFFICES ASSUME NEW k \in 1..(M + 1), NEW l \in 1..(M + 1), k < l PROVE b[k] < b[l]
    OBVIOUS
  <2>1. k \in 1..M
    BY <1>14
  <2>2. CASE l \in 1..M
    BY <1>15, <1>16, <2>1, <2>2
  <2>3. CASE l = M + 1
    <3>1. b[k] \in 1..p /\ b[l] = p + 1
      BY <1>16, <2>1, <2>3
    <3> QED BY <1>9, <3>1
  <2> QED BY <1>16, <2>2, <2>3
<1>19. \A k \in 1..(M + 1) : served'[k] = typed'[b[k]]
  BY <1>0, <1>14, <1>15, <1>16 DEF words
<1>20. Chosen(served', typed', q, b)
  BY <1>14, <1>17, <1>18, <1>19 DEF Chosen
<1> QED
  BY <1>0, <1>2, <1>8, <1>9, <1>14, <1>20 DEF FlowInv, N

LEMMA FlowStep ==
  ASSUME FlowInv, [TalkNext]_talkVars PROVE FlowInv'
<1>1. CASE Connect
  <2>1. typed' = <<>> /\ served' = <<>> /\ toServer' = Nothing
    BY <1>1 DEF Connect, Fresh
  <2>2. /\ <<>> \in Seq(Requests)
        /\ \E p \in 0..Len(typed') : (\E at : Chosen(served', typed', p, at))
                                    /\ \E end : Carries(toServer', typed', p, end)
    BY <2>1, NothingCarried
  <2> QED BY <2>1, <2>2 DEF FlowInv
<1>2. CASE Disconnect
  <2>1. link # "down" /\ UNCHANGED <<typed, served, toServer, cut>>
    BY <1>2 DEF Disconnect
  <2> QED BY <2>1 DEF FlowInv, Chosen
<1>3. CASE onSocketReadyRead
  <2>1. UNCHANGED <<typed, served, toServer, link>> /\ (cut => cut')
    BY <1>3 DEF onSocketReadyRead
  <2> QED BY <2>1 DEF FlowInv, Chosen
<1>4. CASE Close \/ Break
  <2>1. link' = "down" /\ UNCHANGED <<typed, served, cut>>
    BY <1>4 DEF Close, Break
  <2> QED BY <2>1 DEF FlowInv, Chosen
<1>5. CASE UNCHANGED talkVars
  BY <1>5 DEF talkVars, FlowInv, Chosen
<1> QED
  BY <1>1, <1>2, <1>3, <1>4, <1>5, SendFlows, ReceiveFlows DEF TalkNext

\* Whatever the user types and however reads join or part what is under way:
\* as long as none ends inside a request, only what was typed is served, in
\* the order typed and at most once.
THEOREM RequestsAreNeverInvented == TalkSpec => []NothingInvented
<1>1. TalkInit => FlowInv
  BY NothingCarried DEF TalkInit, FlowInv
<1>2. FlowInv /\ [TalkNext]_talkVars => FlowInv'
  BY FlowStep
<1>3. FlowInv => NothingInvented
  <2> SUFFICES ASSUME FlowInv, ~cut
               PROVE  \E at \in [DOMAIN served -> DOMAIN typed] :
                        /\ \A m, n \in DOMAIN served : m < n => at[m] < at[n]
                        /\ \A n \in DOMAIN served : served[n] = typed[at[n]]
    BY DEF NothingInvented
  <2>1. /\ typed \in Seq(Requests) /\ served \in Seq(Requests)
        /\ DOMAIN typed = 1..Len(typed) /\ DOMAIN served = 1..Len(served) /\ Len(typed) \in Nat
    BY LenProperties DEF FlowInv
  <2>2a. PICK p \in 0..Len(typed) : \E at : Chosen(served, typed, p, at)
    BY DEF FlowInv
  <2>2. PICK at : Chosen(served, typed, p, at)
    BY <2>2a
  <2>3. at \in [1..Len(served) -> 1..Len(typed)]
    <3>1. at \in [1..Len(served) -> 1..p] /\ \A i \in 1..p : i \in 1..Len(typed)
      BY <2>1, <2>2 DEF Chosen
    <3> QED BY <3>1
  <2> QED BY <2>1, <2>2, <2>3 DEF Chosen
<1> QED
  BY <1>1, <1>2, <1>3, PTL DEF TalkSpec
=============================================================================
