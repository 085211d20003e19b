------------------------- MODULE AofRecovery_proofs -------------------------
(***************************************************************************)
(* The proof that replaying the log restores the memory: RestoresMemory,   *)
(* for every set of commands whose lengths take one digit, every pattern   *)
(* of short writes, every character at which the process is killed and     *)
(* whatever the uninitialised variables of the replay hold.                *)
(*                                                                         *)
(*  1. What an extraction gives from a stream that goes on and from one    *)
(*     that has ended, and from these what one argument and one record     *)
(*     give: the words that were written, when the whole record lies in    *)
(*     the text; words that are cut or blank, when it does not.            *)
(*  2. Every turn of the replay goes on behind the place it was at, so     *)
(*     that what it takes from there is well defined.                      *)
(*  3. The records of the commands lie behind one another in the log; by   *)
(*     induction from the last to the first, the replay takes the whole    *)
(*     ones, in order, and at most one command more, which is cut          *)
(*     (LogIsParsed).                                                      *)
(*  4. Replaying whole records does what executing their commands did, and *)
(*     a cut one touches no key but its own (ReplayRestores).              *)
(*  5. The inductive invariant RecoveryInv: a file without a process is a  *)
(*     log that was cut, of which the history variables tell what it       *)
(*     holds.                                                              *)
(***************************************************************************)
EXTENDS AofRecovery, Resp_proofs, Aof_proofs

-----------------------------------------------------------------------------
(* Extractions *)

LEMMA LeastOf ==
  ASSUME NEW S \in SUBSET Nat, NEW n \in S
  PROVE  Min(S) \in S /\ \A m \in S : Min(S) <= m
<1>1. PICK l \in S : \A m \in S : ~(<<m, l>> \in OpToRel(<, Nat))
  BY NatLessThanWellFounded, WFMin, Zenon
<1>2. l \in Nat /\ \A m \in S : m \in Nat
  OBVIOUS
<1>3. \A m \in S : ~(m < l)
  BY <1>1, <1>2 DEF OpToRel
<1>4. \A m \in S : l <= m
  BY <1>2, <1>3
<1> QED
  BY <1>4, Zenon DEF Min

LEMMA SkipRange ==
  ASSUME NEW text, Len(text) \in Nat, NEW p \in 1..(Len(text) + 1)
  PROVE  /\ Skip(text, p) \in p..(Len(text) + 1)
         /\ p = Len(text) + 1 => Skip(text, p) = p
         /\ p <= Len(text) /\ text[p] \notin Whitespace => Skip(text, p) = p
<1> DEFINE S == {i \in p..Len(text) : text[i] \notin Whitespace} \cup {Len(text) + 1}
           l == Min(S)
<1>1. Skip(text, p) = l
  BY DEF Skip
<1>2. S \in SUBSET Nat /\ Len(text) + 1 \in S /\ \A i \in S : i \in p..(Len(text) + 1)
  OBVIOUS
<1>3. p <= Len(text) /\ text[p] \notin Whitespace => p \in S
  OBVIOUS
<1> HIDE DEF S
<1>4. l \in S /\ \A i \in S : l <= i
  BY <1>2, LeastOf
<1>5. l \in p..(Len(text) + 1)
  BY <1>2, <1>4
<1> HIDE DEF l
<1>6. p \in S => l = p
  BY <1>4, <1>5
<1>7. p = Len(text) + 1 => l = p
  BY <1>5
<1> QED
  BY <1>1, <1>3, <1>5, <1>6, <1>7

\* One character, or nothing from a stream that is not good or at its end.
LEMMA CharIsRead ==
  ASSUME NEW text, Len(text) \in Nat, NEW in, NEW junk
  PROVE  /\ in.good = FALSE \/ in.pos = Len(text) + 1 =>
              ExtractChar(text, in, junk) = [value |-> junk, pos |-> Len(text) + 1, good |-> FALSE]
         /\ /\ in.good = TRUE /\ in.pos \in 1..Len(text) /\ text[in.pos] \notin Whitespace
            => ExtractChar(text, in, junk) = [value |-> text[in.pos], pos |-> in.pos + 1, good |-> TRUE]
<1> DEFINE p == Skip(text, in.pos)
<1>1. ExtractChar(text, in, junk) =
        IF in.good /\ p <= Len(text)
        THEN [value |-> text[p], pos |-> p + 1, good |-> TRUE]
        ELSE [value |-> junk, pos |-> Len(text) + 1, good |-> FALSE]
  BY DEF ExtractChar
<1>2. in.pos = Len(text) + 1 => p = Len(text) + 1
  <2>1. Len(text) + 1 \in 1..(Len(text) + 1)
    OBVIOUS
  <2> QED BY <2>1, SkipRange
<1>3. in.pos \in 1..Len(text) /\ text[in.pos] \notin Whitespace => p = in.pos
  <2>1. \A q \in 1..Len(text) : q \in 1..(Len(text) + 1) /\ q <= Len(text)
    OBVIOUS
  <2> QED BY <2>1, SkipRange
<1> HIDE DEF p
<1>4. ASSUME in.good = FALSE \/ in.pos = Len(text) + 1
      PROVE  ExtractChar(text, in, junk) = [value |-> junk, pos |-> Len(text) + 1, good |-> FALSE]
  <2>1. ~(in.good /\ p <= Len(text))
    <3>1. CASE in.good = FALSE
      BY <3>1
    <3>2. CASE in.pos = Len(text) + 1
      <4>1. ~(p <= Len(text))
        BY <1>2, <3>2
      <4> QED BY <4>1, Zenon
    <3> QED BY <1>4, <3>1, <3>2
  <2> QED BY <1>1, <2>1, Zenon
<1>5. ASSUME in.good = TRUE, in.pos \in 1..Len(text), text[in.pos] \notin Whitespace
      PROVE  ExtractChar(text, in, junk) = [value |-> text[in.pos], pos |-> in.pos + 1, good |-> TRUE]
  <2>1. p = in.pos /\ p <= Len(text)
    BY <1>3, <1>5
  <2>2. in.good /\ p <= Len(text)
    BY <1>5, <2>1, Zenon
  <2> QED BY <1>1, <2>1, <2>2, Zenon
<1> QED
  BY <1>4, <1>5

LEMMA SpaceIsNoDigit == \A c \in Whitespace : ~IsDigit(c)
<1> DEFINE D == <<"1", "2", "3", "4", "5", "6", "7", "8", "9">>
<1>1. \A d \in 1..9 : D[d] # "CR"
  OBVIOUS
<1>2. \A d \in 1..9 : D[d] # "LF"
  OBVIOUS
<1>3. \A d \in 1..9 : D[d] # " "
  <2>1. \A b : b \notin {"1", "2", "3", "4", "5", "6", "7", "8", "9"} => \A d \in 1..9 : D[d] # b
    OBVIOUS
  <2>2. " " \notin {"1", "2", "3", "4", "5", "6", "7", "8", "9"}
    BY Zenon
  <2> HIDE DEF D
  <2> QED BY <2>1, <2>2, Zenon
<1>4. DOMAIN D = 1..9
  OBVIOUS
<1> HIDE DEF D
<1>5. ~IsDigit("CR") /\ ~IsDigit("LF") /\ ~IsDigit(" ")
  BY <1>1, <1>2, <1>3, <1>4 DEF IsDigit, Digits, D
<1> QED
  BY <1>5 DEF Whitespace

\* A number of one digit; the digit that ends the text leaves the stream there.
LEMMA IntIsRead ==
  ASSUME NEW text, Len(text) \in Nat, NEW in, NEW junk
  PROVE  /\ in.good = FALSE \/ in.pos = Len(text) + 1 =>
              ExtractInt(text, in, junk) = [value |-> junk, pos |-> Len(text) + 1, good |-> FALSE]
         /\ \A n \in 0..9 :
              in.good = TRUE /\ in.pos \in 1..Len(text) /\ text[in.pos] = to_string(n)[1]
              => ExtractInt(text, in, junk)
                   = [value |-> n, pos |-> in.pos + 1, good |-> in.pos < Len(text)]
<1> DEFINE p == Skip(text, in.pos)
<1>1. ExtractInt(text, in, junk) =
        IF ~in.good \/ p > Len(text)
        THEN [value |-> junk, pos |-> Len(text) + 1, good |-> FALSE]
        ELSE IF IsDigit(text[p])
        THEN [value |-> ValueOf(text[p]), pos |-> p + 1, good |-> p < Len(text)]
        ELSE [value |-> 0, pos |-> p, good |-> FALSE]
  BY Zenon DEF ExtractInt
<1>2. in.pos = Len(text) + 1 => p = Len(text) + 1
  <2>1. Len(text) + 1 \in 1..(Len(text) + 1)
    OBVIOUS
  <2> QED BY <2>1, SkipRange
<1>3. in.pos \in 1..Len(text) /\ text[in.pos] \notin Whitespace => p = in.pos
  <2>1. \A q \in 1..Len(text) : q \in 1..(Len(text) + 1) /\ q <= Len(text)
    OBVIOUS
  <2> QED BY <2>1, SkipRange
<1> HIDE DEF p
<1>4. ASSUME in.good = FALSE \/ in.pos = Len(text) + 1
      PROVE  ExtractInt(text, in, junk) = [value |-> junk, pos |-> Len(text) + 1, good |-> FALSE]
  <2>1. ~in.good \/ p > Len(text)
    <3>1. CASE in.good = FALSE
      BY <3>1
    <3>2. CASE in.pos = Len(text) + 1
      <4>1. p > Len(text)
        BY <1>2, <3>2
      <4> QED BY <4>1, Zenon
    <3> QED BY <1>4, <3>1, <3>2
  <2> QED BY <1>1, <2>1, Zenon
<1>5. ASSUME NEW n \in 0..9, in.good = TRUE, in.pos \in 1..Len(text), text[in.pos] = to_string(n)[1]
      PROVE  ExtractInt(text, in, junk)
               = [value |-> n, pos |-> in.pos + 1, good |-> in.pos < Len(text)]
  <2>1. IsDigit(text[in.pos]) /\ ValueOf(text[in.pos]) = n
    BY <1>5, OneDigit
  <2>2. text[in.pos] \notin Whitespace
    BY <2>1, SpaceIsNoDigit
  <2>3. p = in.pos /\ ~(p > Len(text))
    BY <1>3, <1>5, <2>2
  <2>4. ~(~in.good \/ p > Len(text))
    BY <1>5, <2>3, Zenon
  <2> QED BY <1>1, <2>1, <2>3, <2>4, Zenon
<1> QED
  BY <1>4, <1>5

-----------------------------------------------------------------------------
(* One argument *)

LEMMA OneDigitIsEnough == \A l \in Nat : l <= 9 => l \in 0..9
  OBVIOUS

LEMMA LastIsIn == \A l \in Nat : l # 0 => l \in 1..l
  OBVIOUS

\* What a string of n characters holds when h of them could be read: those, and
\* the spaces it was made of.
Blank   == " "
Padding == Char \cup {Blank}

LEMMA FunctionIsSeq ==
  ASSUME NEW S, NEW w \in Nat, NEW f \in [1..w -> S]
  PROVE  f \in Seq(S) /\ Len(f) = w
<1>1. f \in UNION {[1..n -> S] : n \in Nat} /\ f = [i \in 1..w |-> f[i]]
  OBVIOUS
<1>2. f \in Seq(S)
  BY <1>1, SeqDef
<1> QED
  BY <1>1, <1>2

Padded(text, x, h, n) == SubSeq(text, x, x + h - 1) \o [i \in 1..(n - h) |-> Blank]

IsPadded(v, text, x, h, n) ==
  /\ v \in Seq(Padding) /\ Len(v) = n
  /\ \A i \in 1..n : v[i] = IF i <= h THEN text[x + i - 1] ELSE Blank

LEMMA PaddedWith ==
  ASSUME NEW text \in Seq(Char), NEW x \in Int, NEW h \in Nat, NEW n \in Nat, h <= n,
         \A i \in 1..h : x + i - 1 \in 1..Len(text)
  PROVE  IsPadded(Padded(text, x, h, n), text, x, h, n)
<1> DEFINE s == SubSeq(text, x, x + h - 1)
           b == [i \in 1..(n - h) |-> Blank]
           v == s \o b
<1>p. Padded(text, x, h, n) = v
  BY DEF Padded
<1>1. s \in Seq(Padding) /\ Len(s) = h /\ \A i \in 1..h : s[i] = text[x + i - 1]
  <2> DEFINE l == x + h - 1
  <2>1. l \in Int /\ l - x + 1 = h /\ (IF x <= l THEN l - x + 1 ELSE 0) = h
    OBVIOUS
  <2>2. \A j \in x..l : text[j] \in Padding
    <3>1. \A j \in x..l : j \in 1..Len(text)
      <4>1. \A j \in x..l : j - x + 1 \in 1..h /\ x + (j - x + 1) - 1 = j
        OBVIOUS
      <4> QED BY <4>1
    <3> QED BY <3>1, ElementOfSeq DEF Padding
  <2> HIDE DEF l
  <2>3. /\ SubSeq(text, x, l) \in Seq(Padding)
        /\ Len(SubSeq(text, x, l)) = IF x <= l THEN l - x + 1 ELSE 0
        /\ \A i \in 1..l - x + 1 : SubSeq(text, x, l)[i] = text[x + i - 1]
    BY <2>1, <2>2, SubSeqProperties
  <2> QED BY <2>1, <2>3 DEF l
<1>2. b \in Seq(Padding) /\ Len(b) = n - h /\ \A i \in 1..(n - h) : b[i] = Blank
  <2>1. n - h \in Nat /\ \A i \in 1..(n - h) : b[i] = Blank
    OBVIOUS
  <2>2. Blank \in Padding
    BY DEF Padding
  <2>3. b \in [1..(n - h) -> Padding]
    BY <2>2
  <2> DEFINE m == n - h
  <2>4. m \in Nat /\ b \in [1..m -> Padding]
    BY <2>1, <2>3
  <2> HIDE DEF b, m
  <2>5. b \in Seq(Padding) /\ Len(b) = m
    BY <2>4, FunctionIsSeq
  <2> QED BY <2>1, <2>5 DEF m
<1> HIDE DEF s, b
<1>3. /\ v \in Seq(Padding) /\ Len(v) = Len(s) + Len(b)
      /\ \A i \in 1..Len(s) + Len(b) : v[i] = IF i <= Len(s) THEN s[i] ELSE b[i - Len(s)]
  BY <1>1, <1>2, ConcatProperties
<1> HIDE DEF v
<1>0. Len(s) + Len(b) = n /\ Len(s) = h /\ Len(b) = n - h
  <2>1. h + (n - h) = n
    OBVIOUS
  <2>2. Len(s) = h /\ Len(b) = n - h
    BY <1>1, <1>2
  <2> QED BY <2>1, <2>2, Zenon
<1>4. Len(v) = n
  BY <1>0, <1>3
<1>5. \A i \in 1..h : v[i] = text[x + i - 1]
  <2>1. \A i \in 1..h : i \in 1..Len(s) + Len(b) /\ i <= Len(s)
    BY <1>0
  <2> QED BY <1>1, <1>3, <2>1
<1>6. \A i \in (h + 1)..n : v[i] = Blank
  <2>1. \A i \in (h + 1)..n : i \in 1..Len(s) + Len(b) /\ ~(i <= Len(s)) /\ i - Len(s) \in 1..(n - h)
    BY <1>0
  <2> QED BY <1>2, <1>3, <2>1
<1>7. \A i \in 1..n : v[i] = IF i <= h THEN text[x + i - 1] ELSE Blank
  <2> TAKE i \in 1..n
  <2>1. i <= h => i \in 1..h
    OBVIOUS
  <2>2. ~(i <= h) => i \in (h + 1)..n
    OBVIOUS
  <2> QED BY <1>5, <1>6, <2>1, <2>2
<1> QED
  BY <1>p, <1>3, <1>4, <1>7 DEF IsPadded

LEMMA PaddedWithNothing ==
  ASSUME NEW text \in Seq(Char), NEW x \in Int, NEW n \in Nat
  PROVE  /\ Padded(text, x, 0, n) \in Seq(Padding) /\ Len(Padded(text, x, 0, n)) = n
         /\ \A i \in 1..n : Padded(text, x, 0, n)[i] = Blank
<1>1. ASSUME NEW h \in Nat, h <= n, \A i \in 1..h : x + i - 1 \in 1..Len(text),
             \A i \in 1..n : ~(i <= h)
      PROVE  /\ Padded(text, x, h, n) \in Seq(Padding) /\ Len(Padded(text, x, h, n)) = n
             /\ \A i \in 1..n : Padded(text, x, h, n)[i] = Blank
  <2>1. IsPadded(Padded(text, x, h, n), text, x, h, n)
    BY <1>1, PaddedWith, Zenon
  <2> QED BY <1>1, <2>1, Zenon DEF IsPadded
<1>2. 0 \in Nat /\ 0 <= n /\ (\A i \in 1..0 : x + i - 1 \in 1..Len(text)) /\ \A i \in 1..n : ~(i <= 0)
  OBVIOUS
<1> QED
  BY <1>1, <1>2, Zenon

\* A value that is the word, or a beginning of it with spaces for the rest.
CutWord(v, word) ==
  /\ v \in Seq(Padding)
  /\ v = word \/ v = <<>> \/ v[Len(v)] = Blank
  /\ \A i \in 1..Len(v) : v[i] = Blank \/ (i <= Len(word) /\ v[i] = word[i])

\* The word lies in the text from a on, as far as the text goes.
WordAt(text, word, a) ==
  /\ a \in Nat /\ a >= 1 /\ word \in Word
  /\ a <= Len(text) => text[a] = "$"
  /\ a + 1 <= Len(text) => text[a + 1] = to_string(Len(word))[1]
  /\ \A j \in 1..Len(word) : a + 3 + j <= Len(text) => text[a + 3 + j] = word[j]

Turned(args, pos, good) == [args |-> args, end |-> "none", pos |-> pos, good |-> good]

\* The stream has ended within the argument: the record is given up, the
\* process ends, or the argument is cut.
Lost(out, args, word) ==
  \/ out.end = "mismatch" /\ out.good = FALSE
  \/ out.end = "throws"
  \/ \E v, pos : CutWord(v, word) /\ out = Turned(Append(args, v), pos, FALSE)

LEMMA BlanksAreCut ==
  ASSUME NEW v \in Seq(Padding), \A i \in 1..Len(v) : v[i] = Blank, NEW word
  PROVE  CutWord(v, word)
<1>1. Len(v) \in Nat /\ (Len(v) = 0 => v = <<>>)
  <2>1. Len(v) = 0 => v = <<>>
    <3>1. <<>> \in Seq(Padding) /\ Len(<<>>) = 0
      BY EmptySeq
    <3> QED BY <3>1, SeqEqual
  <2> QED BY <2>1, LenProperties
<1>2. Len(v) # 0 => Len(v) \in 1..Len(v)
  BY <1>1, LastIsIn, Zenon
<1> QED
  BY <1>1, <1>2 DEF CutWord

\* What becomes of an argument whose bytes cannot be read.
LEMMA NoBytesAreRead ==
  ASSUME NEW text \in Seq(Char), NEW args, NEW a, NEW g, NEW junk, NEW word,
         ExtractChar(text, Turned(args, a, g), junk.dollarSign).value = "$",
         NEW n \in Int, NEW x \in Int,
         Ignore2(text, ExtractInt(text, ExtractChar(text, Turned(args, a, g), junk.dollarSign),
                                  junk.stringLength)) = [value |-> n, pos |-> x, good |-> FALSE],
         ExtractInt(text, ExtractChar(text, Turned(args, a, g), junk.dollarSign),
                    junk.stringLength).value = n
  PROVE  Lost(NextArgument(text, Turned(args, a, g), junk), args, word)
<1> DEFINE in == Turned(args, a, g)
           dollar == ExtractChar(text, in, junk.dollarSign)
           length == ExtractInt(text, dollar, junk.stringLength)
           s      == Ignore2(text, length)
           bytes  == Read(text, s, length.value)
           after  == Ignore2(text, bytes)
<1>1. NextArgument(text, in, junk) =
        IF dollar.value # "$"
        THEN [in EXCEPT !.pos = dollar.pos, !.good = dollar.good, !.end = "mismatch"]
        ELSE IF length.value < 0 THEN [in EXCEPT !.end = "throws"]
        ELSE [args |-> Append(in.args, bytes.value), end |-> "none",
              pos |-> after.pos, good |-> after.good]
  BY Zenon DEF NextArgument
<1>2. dollar.value = "$" /\ length.value = n /\ s = [value |-> n, pos |-> x, good |-> FALSE]
  OBVIOUS
<1> HIDE DEF dollar, length, s, after, bytes
<1>3. in.args = args
  BY DEF Turned
<1>4. CASE n < 0
  <2>1. NextArgument(text, in, junk) = [in EXCEPT !.end = "throws"]
    BY <1>1, <1>2, <1>4, Zenon
  <2>2. [in EXCEPT !.end = "throws"].end = "throws"
    BY DEF Turned
  <2> HIDE DEF in
  <2> QED BY <2>1, <2>2 DEF Lost, in
<1>5. CASE ~(n < 0)
  <2> DEFINE v == Padded(text, x, 0, n)
  <2>1. bytes = [value |-> v, pos |-> x + n, good |-> FALSE]
    <3>1. s.good = FALSE /\ s.pos = x
      BY <1>2
    <3>2. (IF s.good THEN Min({n, Len(text) + 1 - s.pos}) ELSE 0) = 0
      BY <3>1, Zenon
    <3>3. (0 = n /\ s.good) = FALSE
      BY <3>1
    <3>4. v = SubSeq(text, x, x + 0 - 1) \o [i \in 1..(n - 0) |-> " "]
      BY Zenon DEF Padded, Blank
    <3> HIDE DEF v
    <3> QED BY <1>2, <3>1, <3>2, <3>3, <3>4 DEF Read, bytes
  <2>2. v \in Seq(Padding) /\ Len(v) = n /\ \A i \in 1..n : v[i] = Blank
    <3>1. n \in Nat
      BY <1>5
    <3> QED BY <3>1, PaddedWithNothing
  <2> HIDE DEF v
  <2>3. CutWord(v, word)
    <3>2. \A i \in 1..Len(v) : v[i] = Blank
      BY <2>2, Zenon
    <3> QED BY <2>2, <3>2, BlanksAreCut
  <2>4. after.good = FALSE
    BY <2>1 DEF after, Ignore2
  <2>5. NextArgument(text, in, junk) = Turned(Append(args, v), after.pos, FALSE)
    <3>1. bytes.value = v
      BY <2>1
    <3>2. ~(dollar.value # "$") /\ ~(length.value < 0)
      BY <1>2, <1>5
    <3>3. NextArgument(text, in, junk) = [args |-> Append(in.args, bytes.value), end |-> "none",
              pos |-> after.pos, good |-> after.good]
      BY <1>1, <3>2, Zenon
    <3> QED BY <1>3, <2>4, <3>1, <3>3, Zenon DEF Turned
  <2> HIDE DEF in
  <2> QED BY <2>3, <2>5, Zenon DEF Lost, in
<1> QED
  BY <1>4, <1>5

LEMMA Ignored ==
  ASSUME NEW text, NEW in
  PROVE  Ignore2(text, in)
           = [value |-> in.value, pos |-> in.pos + 2, good |-> in.good /\ in.pos + 1 <= Len(text)]
  BY Zenon DEF Ignore2

LEMMA NothingIsGood ==
  ASSUME NEW text, NEW in, in.good = FALSE
  PROVE  Ignore2(text, in) = [value |-> in.value, pos |-> in.pos + 2, good |-> FALSE]
<1>1. (in.good /\ in.pos + 1 <= Len(text)) = FALSE
  OBVIOUS
<1> QED
  BY <1>1, Ignored, Zenon

JunkOK(junk) == junk.arraySize \in Int /\ junk.stringLength \in Int

\* The stream has ended before the argument.
LEMMA NothingIsLeft ==
  ASSUME NEW text \in Seq(Char), NEW args, NEW a, NEW g, NEW junk, JunkOK(junk), NEW word,
         g = FALSE \/ a = Len(text) + 1
  PROVE  Lost(NextArgument(text, Turned(args, a, g), junk), args, word)
<1> DEFINE in == Turned(args, a, g)
           L  == Len(text)
           dollar == ExtractChar(text, in, junk.dollarSign)
           length == ExtractInt(text, dollar, junk.stringLength)
<1>0. L \in Nat
  BY LenProperties
<1>1. in.good = g /\ in.pos = a
  BY DEF Turned
<1>2. dollar = [value |-> junk.dollarSign, pos |-> L + 1, good |-> FALSE]
  <2> HIDE DEF in
  <2> QED BY <1>0, <1>1, CharIsRead
<1>3. CASE junk.dollarSign # "$"
  <2>1. NextArgument(text, in, junk) = [in EXCEPT !.pos = L + 1, !.good = FALSE, !.end = "mismatch"]
    <3> DEFINE out == [in EXCEPT !.pos = dollar.pos, !.good = dollar.good, !.end = "mismatch"]
    <3>1. dollar.value # "$" /\ dollar.pos = L + 1 /\ dollar.good = FALSE
      BY <1>2, <1>3
    <3>2. NextArgument(text, in, junk) = out
      <4> HIDE DEF in, out
      <4>1. NextArgument(text, in, junk) =
              [in EXCEPT !.pos = dollar.pos, !.good = dollar.good, !.end = "mismatch"]
        <5> HIDE DEF dollar
        <5> QED BY <3>1, Zenon DEF NextArgument, dollar
      <4> QED BY <4>1 DEF out
    <3> HIDE DEF in, dollar
    <3> QED BY <3>1, <3>2
  <2> DEFINE out == [in EXCEPT !.pos = L + 1, !.good = FALSE, !.end = "mismatch"]
  <2>2. out.end = "mismatch" /\ out.good = FALSE
    BY DEF Turned
  <2> HIDE DEF in, out
  <2> QED BY <2>1, <2>2 DEF Lost, in, out
<1>4. CASE junk.dollarSign = "$"
  <2>1. dollar.value = "$" /\ dollar.good = FALSE
    BY <1>2, <1>4
  <2>2. length = [value |-> junk.stringLength, pos |-> L + 1, good |-> FALSE]
    <3> HIDE DEF dollar
    <3> QED BY <1>0, <2>1, IntIsRead
  <2>3. Ignore2(text, length) = [value |-> junk.stringLength, pos |-> L + 3, good |-> FALSE]
    <3>1. L + 1 \in Int /\ FALSE \in BOOLEAN /\ L + 1 + 2 = L + 3
      BY <1>0
    <3>2. length.good = FALSE /\ length.value = junk.stringLength /\ length.pos = L + 1
      BY <2>2
    <3> HIDE DEF length
    <3> QED BY <3>1, <3>2, NothingIsGood, Zenon
  <2>4. length.value = junk.stringLength /\ junk.stringLength \in Int /\ L + 3 \in Int
    BY <1>0, <2>2 DEF JunkOK
  <2> QED BY <2>1, <2>3, <2>4, NoBytesAreRead, Zenon
<1> QED
  BY <1>3, <1>4

\* The bytes of an argument, as many as the text has of them.
BytesOf(bytes, text, word, a) ==
  \E v : /\ CutWord(v, word)
         /\ bytes = [value |-> v, pos |-> a + 4 + Len(word),
                     good |-> (a + 3 + Len(word) <= Len(text))]
         /\ a + 3 + Len(word) <= Len(text) => v = word

LEMMA BytesAreRead ==
  ASSUME NEW text \in Seq(Char), NEW a \in Nat, a >= 1, NEW word, WordAt(text, word, a),
         a + 3 <= Len(text), NEW bytes,
         bytes = Read(text, [value |-> Len(word), pos |-> a + 4, good |-> TRUE], Len(word))
  PROVE  BytesOf(bytes, text, word, a)
<1> DEFINE w == Len(word)
           L == Len(text)
           h == Min({w, L + 1 - (a + 4)})
           v == Padded(text, a + 4, h, w)
           s == [value |-> w, pos |-> a + 4, good |-> TRUE]
<1>0. L \in Nat /\ w \in Nat /\ word \in Seq(Char) /\ a + 4 \in Int
  BY LenProperties DEF WordAt, Word
<1>1. h = IF w <= L + 1 - (a + 4) THEN w ELSE L + 1 - (a + 4)
  <2> DEFINE m == L + 1 - (a + 4)
  <2>1. m \in Int /\ w \in Int
    BY <1>0
  <2> HIDE DEF m, w
  <2>2. Min({w, m}) = IF w <= m THEN w ELSE m
    BY <2>1, MinOfTwo
  <2> QED BY <2>2 DEF m
<1>2. h \in Nat /\ h <= w /\ (h = w <=> a + 3 + w <= L)
  <2> HIDE DEF h, w, L
  <2> QED BY <1>0, <1>1 DEF L
<1>3. \A i \in 1..h : a + 4 + i - 1 \in 1..L
  <2> HIDE DEF h, w, L
  <2> QED BY <1>0, <1>1
<1>4. IsPadded(v, text, a + 4, h, w)
  <2> DEFINE x == a + 4
  <2>1. x \in Int /\ \A i \in 1..h : x + i - 1 \in 1..Len(text)
    BY <1>0, <1>3
  <2> HIDE DEF h, w, x
  <2>2. IsPadded(Padded(text, x, h, w), text, x, h, w)
    BY <1>0, <1>2, <2>1, PaddedWith, Zenon
  <2> QED BY <2>2 DEF x
<1>5. bytes = [value |-> v, pos |-> a + 4 + w, good |-> (h = w /\ TRUE)]
  <2>1. s.value = w /\ s.pos = a + 4 /\ s.good = TRUE
    OBVIOUS
  <2>2. bytes = Read(text, s, w)
    OBVIOUS
  <2> HIDE DEF s, w
  <2>3. (IF s.good THEN Min({w, Len(text) + 1 - s.pos}) ELSE 0) = h
    BY <2>1, Zenon
  <2>4. v = SubSeq(text, s.pos, s.pos + h - 1) \o [i \in 1..(w - h) |-> " "]
    BY <2>1, Zenon DEF Padded, Blank
  <2> HIDE DEF v, h
  <2> QED BY <2>1, <2>2, <2>3, <2>4, Zenon DEF Read
<1> HIDE DEF v, h, s
<1>6. v \in Seq(Padding) /\ Len(v) = w /\ \A i \in 1..w : v[i] = IF i <= h THEN text[a + 4 + i - 1] ELSE Blank
  BY <1>4 DEF IsPadded
<1>7. \A i \in 1..w : i <= h => v[i] = word[i]
  <2> TAKE i \in 1..w
  <2> HAVE i <= h
  <2>1. i \in 1..h
    BY <1>2
  <2>2. a + 4 + i - 1 <= L /\ a + 4 + i - 1 = a + 3 + i
    BY <1>0, <1>3, <2>1
  <2>3. text[a + 3 + i] = word[i]
    BY <2>2 DEF WordAt
  <2> QED BY <1>6, <2>2, <2>3
<1>8. h = w => v = word
  <2>1. word \in Seq(Padding)
    BY <1>0, ElementOfSeq DEF Padding
  <2>2. h = w => \A i \in 1..w : v[i] = word[i]
    BY <1>2, <1>7
  <2> QED BY <1>6, <2>1, <2>2, SeqEqual
<1>9. CutWord(v, word)
  <2>1. CASE h = w
    <3>1. v = word /\ \A i \in 1..Len(v) : i <= Len(word) /\ v[i] = word[i]
      BY <1>8, <2>1
    <3> QED BY <1>6, <3>1 DEF CutWord
  <2>2. CASE h # w
    <3>1. Len(v) \in 1..w /\ ~(Len(v) <= h)
      BY <1>0, <1>2, <1>6, <2>2
    <3>2. v[Len(v)] = Blank
      BY <1>6, <3>1
    <3>3. \A i \in 1..Len(v) : v[i] = Blank \/ (i <= Len(word) /\ v[i] = word[i])
      BY <1>0, <1>2, <1>6, <1>7
    <3> QED BY <1>6, <3>2, <3>3 DEF CutWord
  <2> QED BY <2>1, <2>2
<1>10. (h = w /\ TRUE) = (a + 3 + w <= L)
  <2>1. (h = w) = (a + 3 + w <= L)
    BY <1>2
  <2> QED BY <2>1, Zenon
<1> QED
  BY <1>2, <1>5, <1>8, <1>9, <1>10, Zenon DEF BytesOf

Taken(out, args, word, a) == out = Turned(Append(args, word), a + 6 + Len(word), TRUE)

\* An argument that is reached in a good stream is read as it was written, if
\* all of it is there with its line end; what comes behind is still good.
LEMMA ArgumentIsRead ==
  ASSUME NEW text \in Seq(Char), NEW args, NEW a \in Nat, a >= 1, a <= Len(text) + 1,
         NEW junk, JunkOK(junk), NEW word, WordAt(text, word, a)
  PROVE  /\ a + 5 + Len(word) <= Len(text) =>
              Taken(NextArgument(text, Turned(args, a, TRUE), junk), args, word, a)
         /\ ~(a + 5 + Len(word) <= Len(text)) =>
              Lost(NextArgument(text, Turned(args, a, TRUE), junk), args, word)
<1> DEFINE in == Turned(args, a, TRUE)
           L  == Len(text)
           w  == Len(word)
           dollar == ExtractChar(text, in, junk.dollarSign)
           length == ExtractInt(text, dollar, junk.stringLength)
           st     == Ignore2(text, length)
           bytes  == Read(text, st, length.value)
           after  == Ignore2(text, bytes)
<1>0. L \in Nat /\ w \in 0..9 /\ word \in Word
  <2>1. word \in Word
    BY DEF WordAt
  <2>2. Len(word) \in Nat /\ Len(word) <= 9
    BY <2>1, LenProperties DEF Word
  <2>3. Len(text) \in Nat
    BY LenProperties
  <2> QED BY <2>1, <2>2, <2>3, OneDigitIsEnough, Zenon
<1>1. in.good = TRUE /\ in.pos = a /\ in.args = args
  BY DEF Turned
<1>2. CASE a = L + 1
  <2>1. Lost(NextArgument(text, in, junk), args, word)
    <3> HIDE DEF in
    <3> QED BY <1>2, NothingIsLeft DEF in
  <2>2. ~(a + 5 + w <= L)
    BY <1>0, <1>2
  <2> QED BY <2>1, <2>2, Zenon
<1>3. CASE a # L + 1
  <2>0. a \in 1..L
    BY <1>0, <1>3
  <2>1. dollar = [value |-> "$", pos |-> a + 1, good |-> TRUE]
    <3>1. text[a] = "$"
      BY <2>0 DEF WordAt
    <3>2. "$" \notin Whitespace
      <4>1. "$" # " "
        BY Zenon
      <4> QED BY <4>1, Zenon DEF Whitespace
    <3> HIDE DEF in
    <3>3. in.good = TRUE /\ in.pos \in 1..L /\ text[in.pos] \notin Whitespace
      BY <1>1, <2>0, <3>1, <3>2, Zenon
    <3>4. dollar = [value |-> text[in.pos], pos |-> in.pos + 1, good |-> TRUE]
      BY <1>0, <3>3, CharIsRead, Zenon
    <3> HIDE DEF dollar
    <3> QED BY <1>1, <3>1, <3>4, Zenon
  <2>2. dollar.value = "$" /\ dollar.pos = a + 1 /\ dollar.good = TRUE
    <3> HIDE DEF dollar
    <3> QED BY <2>1, Zenon
  <2> HIDE DEF dollar
  <2>3. CASE a + 1 = L + 1
    <3>1. length = [value |-> junk.stringLength, pos |-> L + 1, good |-> FALSE]
      <4>1. dollar.pos = L + 1
        BY <2>2, <2>3, Zenon
      <4> QED BY <1>0, <4>1, IntIsRead, Zenon
    <3>2. length.good = FALSE /\ length.value = junk.stringLength /\ length.pos = L + 1
      BY <3>1
    <3>3. st = [value |-> junk.stringLength, pos |-> L + 1 + 2, good |-> FALSE]
      <4> HIDE DEF length
      <4> QED BY <3>2, NothingIsGood, Zenon
    <3>4. length.value = junk.stringLength /\ junk.stringLength \in Int /\ L + 1 + 2 \in Int
      BY <1>0, <3>1 DEF JunkOK
    <3>5. Lost(NextArgument(text, in, junk), args, word)
      BY <2>2, <3>3, <3>4, NoBytesAreRead, Zenon DEF dollar
    <3>6. ~(a + 5 + w <= L)
      BY <1>0, <2>3
    <3> QED BY <3>5, <3>6, Zenon
  <2>4. CASE a + 1 # L + 1
    <3>0. a + 1 \in 1..L /\ a + 1 \in Nat
      BY <2>0, <2>4
    <3>1. length = [value |-> w, pos |-> a + 1 + 1, good |-> a + 1 < L]
      <4>1. text[a + 1] = to_string(w)[1]
        BY <1>0, <3>0 DEF WordAt
      <4>2. dollar.good = TRUE /\ dollar.pos \in 1..L /\ text[dollar.pos] = to_string(w)[1]
        BY <2>2, <3>0, <4>1, Zenon
      <4>3. length = [value |-> w, pos |-> dollar.pos + 1, good |-> dollar.pos < L]
        BY <1>0, <4>2, IntIsRead, Zenon
      <4> HIDE DEF length
      <4> QED BY <2>2, <4>3, Zenon
    <3>2. st = [value |-> w, pos |-> a + 1 + 1 + 2, good |-> a + 1 < L /\ a + 1 + 1 + 1 <= L]
      <4>1. length.value = w /\ length.pos = a + 1 + 1 /\ length.good = (a + 1 < L)
        <5> HIDE DEF length, w
        <5> QED BY <3>1, Zenon
      <4> HIDE DEF length, w
      <4>2. st = [value |-> length.value, pos |-> length.pos + 2,
                  good |-> length.good /\ length.pos + 1 <= L]
        BY Ignored
      <4> QED BY <4>1, <4>2, Zenon
    <3>3. length.value = w
      BY <3>1
    <3> HIDE DEF length, st, w, L
    <3>4. a + 1 + 1 + 2 = a + 4 /\ a + 4 \in Int /\ w \in Int
      BY <1>0
    <3>5. CASE ~(a + 3 <= L)
      <4>1. (a + 1 < L /\ a + 1 + 1 + 1 <= L) = FALSE
        BY <1>0, <3>5
      <4>2. st = [value |-> w, pos |-> a + 4, good |-> FALSE]
        BY <3>2, <3>4, <4>1, Zenon
      <4>3. Lost(NextArgument(text, in, junk), args, word)
        BY <2>2, <3>3, <3>4, <4>2, NoBytesAreRead, Zenon DEF dollar, length, st
      <4>4. ~(a + 5 + w <= L)
        BY <1>0, <3>5
      <4> QED BY <4>3, <4>4, Zenon DEF w, L
    <3>6. CASE a + 3 <= L
      <4>1. (a + 1 < L /\ a + 1 + 1 + 1 <= L) = TRUE
        BY <1>0, <3>6
      <4>2. st = [value |-> w, pos |-> a + 4, good |-> TRUE]
        BY <3>2, <3>4, <4>1, Zenon
      <4>3. bytes = Read(text, [value |-> w, pos |-> a + 4, good |-> TRUE], w)
        BY <3>3, <4>2, Zenon
      <4> HIDE DEF bytes, in
      <4>4. PICK v : /\ CutWord(v, word)
                     /\ bytes = [value |-> v, pos |-> a + 4 + w, good |-> (a + 3 + w <= L)]
                     /\ a + 3 + w <= L => v = word
        <5>1. a + 3 <= Len(text)
          BY <3>6 DEF L
        <5>2. bytes = Read(text, [value |-> Len(word), pos |-> a + 4, good |-> TRUE], Len(word))
          BY <4>3, Zenon DEF w
        <5>3. BytesOf(bytes, text, word, a)
          <6>1. a \in Nat /\ a >= 1 /\ text \in Seq(Char) /\ WordAt(text, word, a)
            OBVIOUS
          <6> QED BY <5>1, <5>2, <6>1, BytesAreRead, Zenon
        <5> QED BY <5>3, Zenon DEF BytesOf, w, L
      <4>5. after = [value |-> v, pos |-> a + 4 + w + 2,
                     good |-> (a + 3 + w <= L) /\ a + 4 + w + 1 <= L]
        <5>1. bytes.value = v /\ bytes.pos = a + 4 + w /\ bytes.good = (a + 3 + w <= L)
          BY <4>4, Zenon
        <5>2. after = [value |-> bytes.value, pos |-> bytes.pos + 2,
                       good |-> bytes.good /\ bytes.pos + 1 <= L]
          BY Ignored DEF L
        <5> QED BY <5>1, <5>2, Zenon
      <4>6. a + 4 + w + 2 = a + 6 + w
        BY <1>0
      <4>7. ((a + 3 + w <= L) /\ a + 4 + w + 1 <= L) = (a + 5 + w <= L)
        BY <1>0
      <4>8. after.pos = a + 6 + w /\ after.good = (a + 5 + w <= L)
        <5>1. after = [value |-> v, pos |-> a + 6 + w, good |-> (a + 5 + w <= L)]
          BY <4>5, <4>6, <4>7, Zenon
        <5> HIDE DEF after
        <5> QED BY <5>1, Zenon
      <4>9. bytes.value = v /\ ~(length.value < 0) /\ ~(dollar.value # "$")
        BY <1>0, <2>2, <3>3, <4>4
      <4> HIDE DEF after
      <4>10. NextArgument(text, in, junk) = Turned(Append(args, v), a + 6 + w, (a + 5 + w <= L))
        <5>1. NextArgument(text, in, junk)
                = [args |-> Append(in.args, bytes.value), end |-> "none",
                   pos |-> after.pos, good |-> after.good]
          BY <4>9, Zenon DEF NextArgument, dollar, length, st, bytes, after
        <5> QED BY <1>1, <4>8, <4>9, <5>1, Zenon DEF Turned
      <4>11. CASE a + 5 + w <= L
        <5>1. (a + 5 + w <= L) = TRUE /\ a + 3 + w <= L
          BY <1>0, <4>11
        <5> QED BY <4>4, <4>10, <4>11, <5>1, Zenon DEF Taken, in, w, L
      <4>12. CASE ~(a + 5 + w <= L)
        <5>1. (a + 5 + w <= L) = FALSE
          BY <4>12
        <5>2. Lost(NextArgument(text, in, junk), args, word)
          BY <4>4, <4>10, <5>1, Zenon DEF Lost
        <5> QED BY <4>12, <5>2, Zenon DEF in, w, L
      <4> QED BY <4>11, <4>12, Zenon
    <3> QED BY <3>5, <3>6, Zenon
  <2> QED BY <2>3, <2>4, Zenon
<1> QED
  BY <1>2, <1>3, Zenon

-----------------------------------------------------------------------------
(* One record *)

TurnsOf(text, first, n, junk, turns) ==
  turns = [i \in 0..n |->
            IF i = 0
            THEN [args |-> <<>>, end |-> "none", pos |-> first.pos, good |-> first.good]
            ELSE IF turns[i - 1].end # "none" THEN turns[i - 1]
            ELSE NextArgument(text, turns[i - 1], junk)]

LEMMA TurnsExist ==
  ASSUME NEW text, NEW first, NEW junk
  PROVE  \A n \in Nat : \E turns : TurnsOf(text, first, n, junk, turns)
<1> DEFINE T == {n \in Nat : \E f : TurnsOf(text, first, n, junk, f)}
           Start == [args |-> <<>>, end |-> "none", pos |-> first.pos, good |-> first.good]
           Turn(f, i) == IF i = 0 THEN Start
                         ELSE IF f[i - 1].end # "none" THEN f[i - 1]
                         ELSE NextArgument(text, f[i - 1], junk)
<1>1. 0 \in T
  <2> DEFINE f == [i \in 0..0 |-> Start]
  <2>1. \A i \in 0..0 : i = 0
    OBVIOUS
  <2>2. f = [i \in 0..0 |-> f[i]] /\ \A i \in 0..0 : f[i] = Start
    OBVIOUS
  <2> HIDE DEF f, Start
  <2>3. \A i \in 0..0 : f[i] = Turn(f, i)
    BY <2>1, <2>2
  <2> HIDE DEF Turn
  <2>4. f = [i \in 0..0 |-> Turn(f, i)]
    BY <2>2, <2>3, Zenon
  <2>5. TurnsOf(text, first, 0, junk, f)
    BY <2>4, Zenon DEF TurnsOf, Turn, Start
  <2> QED BY <2>5
<1>2. ASSUME NEW n \in T PROVE n + 1 \in T
  <2>1. PICK g : TurnsOf(text, first, n, junk, g)
    OBVIOUS
  <2> DEFINE h == [i \in 0..(n + 1) |-> IF i = n + 1 THEN Turn(g, n + 1) ELSE g[i]]
  <2>2. n \in Nat /\ n + 1 \in Nat
    OBVIOUS
  <2> HIDE DEF Turn
  <2>3. \A i \in 0..n : g[i] = Turn(g, i)
    <3>1. g = [i \in 0..n |-> Turn(g, i)]
      BY <2>1, Zenon DEF TurnsOf, Turn
    <3> QED BY <3>1, Zenon
  <2>4. \A i \in 0..n : h[i] = g[i]
    BY <2>2
  <2>5. h[n + 1] = Turn(g, n + 1)
    BY <2>2
  <2>6. \A i \in 0..(n + 1) : i # 0 => i - 1 \in 0..n
    BY <2>2
  <2>7. h = [i \in 0..(n + 1) |-> h[i]]
    OBVIOUS
  <2> HIDE DEF h
  <2>8. \A i \in 0..(n + 1) : Turn(h, i) = Turn(g, i)
    <3> TAKE i \in 0..(n + 1)
    <3>1. i # 0 => h[i - 1] = g[i - 1]
      BY <2>4, <2>6
    <3> HIDE DEF Start
    <3> QED BY <3>1, Zenon DEF Turn
  <2>9. \A i \in 0..(n + 1) : h[i] = Turn(h, i)
    <3>1. \A i \in 0..(n + 1) : i \in 0..n \/ i = n + 1
      BY <2>2
    <3> QED BY <2>3, <2>4, <2>5, <2>8, <3>1
  <2>10. h = [i \in 0..(n + 1) |-> Turn(h, i)]
    BY <2>7, <2>9, Zenon
  <2>11. TurnsOf(text, first, n + 1, junk, h)
    BY <2>10, Zenon DEF TurnsOf, Turn
  <2> QED BY <2>2, <2>11
<1> HIDE DEF T
<1>3. T = Nat
  <2>1. T \in SUBSET Nat
    BY DEF T
  <2> QED BY <1>1, <1>2, <2>1, NatSetInduction
<1> QED
  BY <1>3 DEF T

\* The turns of the loop over the arguments, one after the other.
Looped(text, first, n, junk, turns) ==
  /\ turns[0] = Turned(<<>>, first.pos, first.good)
  /\ \A i \in 0..(n - 1) :
       turns[i + 1] = IF turns[i].end # "none" THEN turns[i]
                      ELSE NextArgument(text, turns[i], junk)

LoopGives(rec, text, first, n, junk) ==
  \E turns : Looped(text, first, n, junk, turns) /\ rec = turns[n]

LEMMA RecordUnfolds ==
  ASSUME NEW text, NEW pos, NEW junk, NEW size,
         size = ExtractInt(text, [pos |-> pos, good |-> TRUE], junk.arraySize),
         NEW n \in Nat, n = IF size.value > 0 THEN size.value ELSE 0
  PROVE  LoopGives(ParseRecord(text, pos, junk), text, Ignore2(text, size), n, junk)
<1> DEFINE first == Ignore2(text, size)
           f == CHOOSE turns : TurnsOf(text, first, n, junk, turns)
<1>1. ParseRecord(text, pos, junk) = f[n]
  BY Zenon DEF ParseRecord, TurnsOf
<1>2. \E turns : TurnsOf(text, first, n, junk, turns)
  BY TurnsExist
<1>3. TurnsOf(text, first, n, junk, f)
  BY <1>2
<1> HIDE DEF f, first
<1> DEFINE Turn(i) == IF i = 0
                      THEN [args |-> <<>>, end |-> "none", pos |-> first.pos, good |-> first.good]
                      ELSE IF f[i - 1].end # "none" THEN f[i - 1]
                      ELSE NextArgument(text, f[i - 1], junk)
<1>4. \A i \in 0..n : f[i] = Turn(i)
  <2> HIDE DEF Turn
  <2>1. f = [i \in 0..n |-> Turn(i)]
    BY <1>3, Zenon DEF TurnsOf, Turn
  <2> QED BY <2>1, Zenon
<1>5. f[0] = Turned(<<>>, first.pos, first.good)
  <2>1. 0 \in 0..n
    OBVIOUS
  <2> HIDE DEF Turn
  <2>2. f[0] = Turn(0)
    BY <1>4, <2>1, Zenon
  <2> QED BY <2>2, Zenon DEF Turn, Turned
<1>6. ASSUME NEW i \in 0..(n - 1)
      PROVE  f[i + 1] = IF f[i].end # "none" THEN f[i] ELSE NextArgument(text, f[i], junk)
  <2>1. i + 1 \in 0..n /\ i + 1 # 0 /\ (i + 1) - 1 = i
    OBVIOUS
  <2> HIDE DEF Turn
  <2>2. f[i + 1] = Turn(i + 1)
    BY <1>4, <2>1, Zenon
  <2> QED BY <2>1, <2>2, Zenon DEF Turn
<1>7. Looped(text, first, n, junk, f)
  BY <1>5, <1>6, Zenon DEF Looped
<1> QED
  BY <1>1, <1>7, Zenon DEF LoopGives, first

\* What a record gives of which a part is missing: nothing, or arguments each
\* of which is cut or blank, and a stream that has ended.
CutCommand(args, words) ==
  /\ args \in Seq(Seq(Padding))
  /\ \A j \in 1..Len(args) :
       (j <= Len(words) /\ CutWord(args[j], words[j])) \/ CutWord(args[j], <<>>)
CutRecord(rec, words) ==
  \/ rec.end = "mismatch" /\ rec.good = FALSE
  \/ rec.end = "throws"
  \/ \E args, pos : CutCommand(args, words) /\ rec = Turned(args, pos, FALSE)

LEMMA LostIsCut ==
  ASSUME NEW args, NEW words, CutCommand(args, words), NEW out, NEW word, Lost(out, args, word),
         (Len(args) + 1 <= Len(words) /\ word = words[Len(args) + 1]) \/ word = <<>>
  PROVE  CutRecord(out, words)
<1> SUFFICES ASSUME NEW v, NEW pos, CutWord(v, word), out = Turned(Append(args, v), pos, FALSE)
             PROVE  CutRecord(out, words)
  BY Zenon DEF Lost, CutRecord
<1> DEFINE more == Append(args, v)
<1>1. args \in Seq(Seq(Padding)) /\ v \in Seq(Padding)
  BY DEF CutCommand, CutWord
<1>2. /\ more \in Seq(Seq(Padding)) /\ Len(more) = Len(args) + 1 /\ Len(args) \in Nat
      /\ more[Len(args) + 1] = v /\ \A i \in 1..Len(args) : more[i] = args[i]
  BY <1>1, AppendProperties, LenProperties
<1> HIDE DEF more
<1>3. ASSUME NEW j \in 1..Len(more)
      PROVE  (j <= Len(words) /\ CutWord(more[j], words[j])) \/ CutWord(more[j], <<>>)
  <2>1. CASE j \in 1..Len(args)
    <3>1. more[j] = args[j]
      BY <1>2, <2>1
    <3> QED BY <2>1, <3>1, Zenon DEF CutCommand
  <2>2. CASE j \notin 1..Len(args)
    <3>1. j = Len(args) + 1
      BY <1>2, <2>2
    <3> QED BY <1>2, <3>1, Zenon
  <2> QED BY <2>1, <2>2
<1>4. CutCommand(more, words)
  BY <1>2, <1>3, Zenon DEF CutCommand
<1> QED
  BY <1>4, Zenon DEF CutRecord, more

\* Nothing comes back after that.
LEMMA CutStaysCut ==
  ASSUME NEW text \in Seq(Char), NEW junk, JunkOK(junk), NEW words, NEW rec, CutRecord(rec, words)
  PROVE  CutRecord(IF rec.end # "none" THEN rec ELSE NextArgument(text, rec, junk), words)
<1>1. CASE rec.end # "none"
  BY <1>1
<1>2. CASE rec.end = "none"
  <2>1. PICK args, pos : CutCommand(args, words) /\ rec = Turned(args, pos, FALSE)
    BY <1>2 DEF CutRecord
  <2>2. Lost(NextArgument(text, rec, junk), args, <<>>)
    BY <2>1, NothingIsLeft
  <2>3. CutRecord(NextArgument(text, rec, junk), words)
    BY <2>1, <2>2, LostIsCut, Zenon
  <2> QED BY <1>2, <2>3
<1> QED
  BY <1>1, <1>2

\* The record lies in the text from p on, as far as the text goes.
Lies(text, p, record) ==
  \A j \in 1..Len(record) : p + j - 1 <= Len(text) => text[p + j - 1] = record[j]

LEMMA WordLies ==
  ASSUME NEW text, Len(text) \in Nat, NEW p \in Nat, p >= 1, NEW record, Len(record) \in Nat,
         Lies(text, p, record), NEW word \in Word, NEW from \in Nat, from >= 1, NEW next,
         LaidAt(record, word, from, next)
  PROVE  WordAt(text, word, p - 1 + from) /\ next = from + 6 + Len(word)
<1> DEFINE a == p - 1 + from
           w == Len(word)
<1>1. w \in Nat /\ a \in Nat /\ a >= 1
  <2>1. w \in Nat
    BY LenProperties DEF Word
  <2> QED BY <2>1
<1>2. next = from + 6 + w /\ from + 6 + w <= Len(record) + 1
  BY DEF LaidAt
<1>3. from \in 1..Len(record) /\ from + 1 \in 1..Len(record)
      /\ \A j \in 1..w : from + 3 + j \in 1..Len(record)
  <2> HIDE DEF w, a
  <2> QED BY <1>1, <1>2
<1>4. /\ a <= Len(text) => text[a] = record[from]
      /\ a + 1 <= Len(text) => text[a + 1] = record[from + 1]
      /\ \A j \in 1..w : a + 3 + j <= Len(text) => text[a + 3 + j] = record[from + 3 + j]
  <2>1. p + from - 1 = a /\ p + (from + 1) - 1 = a + 1
    OBVIOUS
  <2>2. \A j \in 1..w : p + (from + 3 + j) - 1 = a + 3 + j
    OBVIOUS
  <2>3. \A j \in 1..Len(record) : p + j - 1 <= Len(text) => text[p + j - 1] = record[j]
    BY DEF Lies
  <2> HIDE DEF w, a
  <2> QED BY <1>3, <2>1, <2>2, <2>3, Zenon
<1>5. /\ record[from] = "$" /\ record[from + 1] = to_string(w)[1]
      /\ \A j \in 1..w : record[from + 3 + j] = word[j]
  BY DEF LaidAt
<1> HIDE DEF a
<1>6. WordAt(text, word, a)
  BY <1>1, <1>4, <1>5, Zenon DEF WordAt
<1> QED
  BY <1>2, <1>6 DEF a

\* A loop that starts in a stream that has ended.
LEMMA LoopFindsNothing ==
  ASSUME NEW text \in Seq(Char), NEW junk, JunkOK(junk), NEW first, first.good = FALSE,
         NEW n \in Nat, NEW turns, Looped(text, first, n, junk, turns), NEW words
  PROVE  CutRecord(turns[n], words)
<1> DEFINE T == {i \in Nat : i <= n => CutRecord(turns[i], words)}
<1>1. 0 \in T
  <2>1. turns[0] = Turned(<<>>, first.pos, FALSE)
    BY Zenon DEF Looped
  <2>2. CutCommand(<<>>, words)
    <3> DEFINE args == <<>>
    <3>1. args \in Seq(Seq(Padding)) /\ Len(args) = 0
      BY EmptySeq
    <3> HIDE DEF args
    <3>2. 1..Len(args) = {}
      BY <3>1
    <3>3. CutCommand(args, words)
      BY <3>1, <3>2, Zenon DEF CutCommand
    <3> QED BY <3>3 DEF args
  <2> QED BY <2>1, <2>2, Zenon DEF CutRecord
<1>2. ASSUME NEW i \in T PROVE i + 1 \in T
  <2> SUFFICES ASSUME i + 1 <= n PROVE CutRecord(turns[i + 1], words)
    OBVIOUS
  <2>1. i \in 0..(n - 1) /\ i <= n
    OBVIOUS
  <2>2. CutRecord(turns[i], words)
    BY <2>1
  <2>3. turns[i + 1] = IF turns[i].end # "none" THEN turns[i]
                       ELSE NextArgument(text, turns[i], junk)
    BY <2>1, Zenon DEF Looped
  <2>4. CutRecord(IF turns[i].end # "none" THEN turns[i]
                  ELSE NextArgument(text, turns[i], junk), words)
    BY <2>2, CutStaysCut
  <2> QED BY <2>3, <2>4, Zenon
<1> HIDE DEF T
<1>3. T = Nat
  <2>1. T \in SUBSET Nat
    BY DEF T
  <2> QED BY <1>1, <1>2, <2>1, NatSetInduction
<1> QED
  BY <1>3 DEF T

\* What the loop has after some of the arguments: those that are whole, as
\* they were written, or what is left of a record that is not.
ReadSoFar(text, words, i, next, turn) ==
  \/ /\ next <= Len(text) + 1
     /\ \E args : /\ turn = Turned(args, next, TRUE)
                  /\ args \in Seq(Seq(Padding)) /\ Len(args) = i
                  /\ \A j \in 1..i : args[j] = words[j]
  \/ ~(next <= Len(text) + 1) /\ CutRecord(turn, words)

LEMMA WordIsCutWord ==
  ASSUME NEW word \in Word
  PROVE  CutWord(word, word) /\ word \in Seq(Padding)
<1>1. word \in Seq(Char) /\ Len(word) \in Nat
  BY LenProperties DEF Word
<1>2. word \in Seq(Padding)
  BY <1>1, ElementOfSeq DEF Padding
<1> QED
  BY <1>1, <1>2 DEF CutWord

LEMMA TurnReads ==
  ASSUME NEW text \in Seq(Char), NEW junk, JunkOK(junk), NEW words \in Seq(Word),
         NEW i \in Nat, i + 1 \in 1..Len(words),
         NEW a \in Nat, a >= 1, WordAt(text, words[i + 1], a),
         NEW turn, ReadSoFar(text, words, i, a, turn)
  PROVE  ReadSoFar(text, words, i + 1, a + 6 + Len(words[i + 1]),
                   IF turn.end # "none" THEN turn ELSE NextArgument(text, turn, junk))
<1> DEFINE word == words[i + 1]
           next == a + 6 + Len(word)
           out  == IF turn.end # "none" THEN turn ELSE NextArgument(text, turn, junk)
<1>0. word \in Word /\ Len(text) \in Nat /\ Len(word) \in Nat /\ Len(words) \in Nat
  <2>1. word \in Word
    BY ElementOfSeq
  <2> QED BY <2>1, LenProperties DEF Word
<1> HIDE DEF word
<1>1. CASE ~(a <= Len(text) + 1)
  <2>1. CutRecord(turn, words)
    BY <1>1, Zenon DEF ReadSoFar
  <2>2. CutRecord(out, words)
    BY <2>1, CutStaysCut
  <2>3. ~(next <= Len(text) + 1)
    BY <1>0, <1>1
  <2> HIDE DEF out, next
  <2>4. ReadSoFar(text, words, i + 1, next, out)
    BY <2>2, <2>3, Zenon DEF ReadSoFar
  <2> QED BY <2>4 DEF next, word, out
<1>2. CASE a <= Len(text) + 1
  <2>1. PICK args : /\ turn = Turned(args, a, TRUE)
                    /\ args \in Seq(Seq(Padding)) /\ Len(args) = i
                    /\ \A j \in 1..i : args[j] = words[j]
    BY <1>2, Zenon DEF ReadSoFar
  <2>2. turn.end = "none"
    BY <2>1 DEF Turned
  <2>3. out = NextArgument(text, Turned(args, a, TRUE), junk)
    BY <2>1, <2>2, Zenon
  <2> HIDE DEF out
  <2>4. WordAt(text, word, a)
    BY DEF word
  <2>5. a + 5 + Len(word) <= Len(text) <=> next <= Len(text) + 1
    BY <1>0
  <2>6. CASE a + 5 + Len(word) <= Len(text)
    <3> DEFINE more == Append(args, word)
    <3>1. out = Turned(more, next, TRUE)
      <4>1. Taken(NextArgument(text, Turned(args, a, TRUE), junk), args, word, a)
        BY <1>2, <2>4, <2>6, ArgumentIsRead
      <4> QED BY <2>3, <4>1, Zenon DEF Taken
    <3>2. more \in Seq(Seq(Padding)) /\ Len(more) = i + 1
          /\ more[i + 1] = word /\ \A j \in 1..i : more[j] = args[j]
      <4>1. word \in Seq(Padding)
        BY <1>0, WordIsCutWord
      <4> QED BY <2>1, <4>1, AppendProperties
    <3> HIDE DEF more
    <3>3. \A j \in 1..(i + 1) : more[j] = words[j]
      <4> TAKE j \in 1..(i + 1)
      <4>1. CASE j \in 1..i
        BY <2>1, <3>2, <4>1, Zenon
      <4>2. CASE j \notin 1..i
        <5>1. j = i + 1
          BY <4>2
        <5> QED BY <3>2, <5>1, Zenon DEF word
      <4> QED BY <4>1, <4>2
    <3>4. next <= Len(text) + 1
      BY <2>5, <2>6
    <3> HIDE DEF next
    <3>5. ReadSoFar(text, words, i + 1, next, out)
      BY <3>1, <3>2, <3>3, <3>4, Zenon DEF ReadSoFar
    <3> QED BY <3>5 DEF next, word, out
  <2>7. CASE ~(a + 5 + Len(word) <= Len(text))
    <3>1. Lost(out, args, word)
      BY <1>2, <2>3, <2>4, <2>7, ArgumentIsRead, Zenon
    <3>2. CutCommand(args, words)
      <4>1. ASSUME NEW j \in 1..Len(args)
            PROVE  j <= Len(words) /\ CutWord(args[j], words[j])
        <5>1. j \in 1..Len(words) /\ args[j] = words[j]
          BY <1>0, <2>1
        <5>2. words[j] \in Word
          BY <5>1, ElementOfSeq
        <5> QED BY <1>0, <5>1, <5>2, WordIsCutWord
      <4> QED BY <2>1, <4>1, Zenon DEF CutCommand
    <3>3. Len(args) + 1 <= Len(words) /\ word = words[Len(args) + 1]
      BY <1>0, <2>1 DEF word
    <3>4. CutRecord(out, words)
      BY <3>1, <3>2, <3>3, LostIsCut, Zenon
    <3>5. ~(next <= Len(text) + 1)
      BY <2>5, <2>7
    <3> HIDE DEF next
    <3>6. ReadSoFar(text, words, i + 1, next, out)
      BY <3>4, <3>5, Zenon DEF ReadSoFar
    <3> QED BY <3>6 DEF next, word, out
  <2> QED BY <2>6, <2>7
<1> QED
  BY <1>1, <1>2

\* A record: where all of it is there, its arguments are read as they were
\* written and the stream is behind it.
LEMMA RecordIsRead ==
  ASSUME NEW text \in Seq(Char), NEW p \in Nat, p >= 1, p <= Len(text),
         NEW junk, JunkOK(junk), NEW words \in Seq(Word), Len(words) \in 1..9,
         Lies(text, p, array_to_resp(words))
  PROVE  /\ p + Len(array_to_resp(words)) <= Len(text) + 1 =>
              ParseRecord(text, p + 1, junk)
                = Turned(words, p + Len(array_to_resp(words)), TRUE)
         /\ ~(p + Len(array_to_resp(words)) <= Len(text) + 1) =>
              CutRecord(ParseRecord(text, p + 1, junk), words)
<1> DEFINE R == array_to_resp(words)
           L == Len(words)
           N == Len(text)
           rec  == ParseRecord(text, p + 1, junk)
           in   == [pos |-> p + 1, good |-> TRUE]
           size == ExtractInt(text, in, junk.arraySize)
           first == Ignore2(text, size)
<1>0. N \in Nat /\ L \in 1..9
  BY LenProperties
<1>1. R \in Seq(Char) /\ Len(R) >= 4 /\ Len(R) \in Nat
  <2>1. <<>> \in Seq(Char)
    BY EmptySeq
  <2>2. array_to_resp(words) \in Seq(Char) /\ Len(array_to_resp(words)) >= 4
    BY <2>1, ArrayIsLaid
  <2> QED BY <2>2, LenProperties
<1>2. PICK at : Laid(R, words, L, at) /\ at[L + 1] = Len(R) + 1
  <2>1. <<>> \in Seq(Char)
    BY EmptySeq
  <2>2. \E at : Laid(R \o <<>>, words, L, at) /\ at[L + 1] = Len(R) + 1
    BY <2>1, ArrayIsLaid
  <2>3. R \o <<>> = R
    BY <1>1, ConcatEmptySeq
  <2> QED BY <2>2, <2>3, Zenon
<1>3. in.pos = p + 1 /\ in.good = TRUE
  OBVIOUS
<1>4. Lies(text, p, R)
  OBVIOUS
<1> HIDE DEF R, in
<1>5. CASE p = N
  <2>1. size = [value |-> junk.arraySize, pos |-> N + 1, good |-> FALSE]
    <3>1. in.pos = N + 1
      BY <1>3, <1>5
    <3> QED BY <1>0, <3>1, IntIsRead, Zenon
  <2>2. size.value \in Int /\ size.good = FALSE
    BY <2>1 DEF JunkOK
  <2> HIDE DEF size
  <2>3. first.good = FALSE
    <3>1. first = [value |-> size.value, pos |-> size.pos + 2, good |-> FALSE]
      BY <2>2, NothingIsGood, Zenon
    <3> HIDE DEF first
    <3> QED BY <3>1
  <2> DEFINE n == IF size.value > 0 THEN size.value ELSE 0
  <2>4. n \in Nat
    BY <2>2
  <2>5. LoopGives(rec, text, first, n, junk)
    <3> HIDE DEF n
    <3>1. n = IF size.value > 0 THEN size.value ELSE 0
      BY DEF n
    <3>2. size = ExtractInt(text, [pos |-> p + 1, good |-> TRUE], junk.arraySize)
      BY DEF size, in
    <3> QED BY <2>4, <3>1, <3>2, RecordUnfolds, Zenon
  <2> HIDE DEF n, first, rec
  <2>6. CutRecord(rec, words)
    BY <2>3, <2>4, <2>5, LoopFindsNothing DEF LoopGives
  <2>7. ~(p + Len(R) <= N + 1)
    BY <1>0, <1>1, <1>5
  <2> QED BY <2>6, <2>7, Zenon DEF rec, R
<1>6. CASE p # N
  <2>0. p + 1 \in 1..N /\ p + 1 \in Nat
    BY <1>0, <1>6
  <2>1. size = [value |-> L, pos |-> p + 2, good |-> p + 1 < N]
    <3>1. text[p + 1] = to_string(L)[1]
      <4>1. R[2] = to_string(L)[1]
        BY <1>2 DEF Laid
      <4>2. 2 \in 1..Len(R) /\ p + 2 - 1 = p + 1 /\ p + 1 <= N
        BY <1>1, <2>0
      <4>3. text[p + 1] = R[2]
        BY <1>4, <4>2, Zenon DEF Lies
      <4> QED BY <4>1, <4>3, Zenon
    <3>2. in.good = TRUE /\ in.pos \in 1..N /\ text[in.pos] = to_string(L)[1]
      BY <1>3, <2>0, <3>1, Zenon
    <3>3. L \in 0..9
      BY <1>0
    <3>4. size = [value |-> L, pos |-> in.pos + 1, good |-> in.pos < N]
      BY <1>0, <3>2, <3>3, IntIsRead, Zenon
    <3>5. p + 1 + 1 = p + 2
      OBVIOUS
    <3> HIDE DEF size
    <3> QED BY <1>3, <3>4, <3>5, Zenon
  <2>2. size.value = L /\ size.pos = p + 2 /\ size.good = (p + 1 < N)
    <3> HIDE DEF size
    <3> QED BY <2>1, Zenon
  <2> HIDE DEF size
  <2>3. first.pos = p + 4 /\ first.good = (p + 4 <= N + 1)
    <3>1. first = [value |-> size.value, pos |-> size.pos + 2,
                   good |-> size.good /\ size.pos + 1 <= N]
      BY Ignored, Zenon
    <3> HIDE DEF first
    <3>2. first.pos = p + 2 + 2 /\ first.good = (p + 1 < N /\ p + 2 + 1 <= N)
      BY <2>2, <3>1, Zenon
    <3>3. p + 2 + 2 = p + 4 /\ (p + 1 < N /\ p + 2 + 1 <= N) = (p + 4 <= N + 1)
      <4>1. p + 2 + 2 = p + 4
        OBVIOUS
      <4>2. (p + 1 < N /\ p + 2 + 1 <= N) = (p + 4 <= N + 1)
        BY <1>0
      <4> QED BY <4>1, <4>2, Zenon
    <3> QED BY <3>2, <3>3, Zenon
  <2>4. PICK turns : Looped(text, first, L, junk, turns) /\ rec = turns[L]
    <3>1. L \in Nat /\ L = IF size.value > 0 THEN size.value ELSE 0
      BY <1>0, <2>2
    <3>2. size = ExtractInt(text, [pos |-> p + 1, good |-> TRUE], junk.arraySize)
      BY DEF size, in
    <3>3. LoopGives(rec, text, first, L, junk)
      BY <3>1, <3>2, RecordUnfolds, Zenon
    <3> QED BY <3>3, Zenon DEF LoopGives
  <2> HIDE DEF rec, first, L
  <2> DEFINE a(i) == p - 1 + at[i + 1]
             T == {i \in Nat : i <= L => ReadSoFar(text, words, i, a(i), turns[i])}
  <2>5. /\ at[1] = 5 /\ \A i \in 1..(L + 1) : at[i] \in Nat /\ at[i] >= 4 + i
        /\ \A i \in 1..L : LaidAt(R, words[i], at[i], at[i + 1])
    BY <1>2 DEF Laid
  <2>6. 0 \in T
    <3>1. a(0) = p + 4
      BY <2>5
    <3>2. turns[0] = Turned(<<>>, p + 4, (p + 4 <= N + 1))
      BY <2>3, <2>4, Zenon DEF Looped
    <3> DEFINE none == <<>>
    <3>3. none \in Seq(Seq(Padding)) /\ Len(none) = 0 /\ 1..0 = {}
      BY EmptySeq
    <3> HIDE DEF none
    <3>4. CASE p + 4 <= N + 1
      <4>1. (p + 4 <= N + 1) = TRUE
        BY <3>4
      <4>2. turns[0] = Turned(none, p + 4, TRUE)
        BY <3>2, <4>1, Zenon DEF none
      <4>3. ReadSoFar(text, words, 0, p + 4, turns[0])
        BY <3>3, <3>4, <4>2, Zenon DEF ReadSoFar
      <4> QED BY <3>1, <4>3
    <3>5. CASE ~(p + 4 <= N + 1)
      <4>1. (p + 4 <= N + 1) = FALSE
        BY <3>5
      <4>2. turns[0] = Turned(none, p + 4, FALSE)
        BY <3>2, <4>1, Zenon DEF none
      <4>3. 1..Len(none) = {}
        BY <3>3, Zenon
      <4>4. CutCommand(none, words)
        BY <3>3, <4>3, Zenon DEF CutCommand
      <4>5. ReadSoFar(text, words, 0, p + 4, turns[0])
        BY <3>5, <4>2, <4>4, Zenon DEF ReadSoFar, CutRecord
      <4> QED BY <3>1, <4>5
    <3> QED BY <3>4, <3>5
  <2>7. ASSUME NEW i \in T PROVE i + 1 \in T
    <3> SUFFICES ASSUME i + 1 <= L PROVE ReadSoFar(text, words, i + 1, a(i + 1), turns[i + 1])
      OBVIOUS
    <3>1. i \in Nat /\ i \in 0..(L - 1) /\ i + 1 \in 1..L /\ i + 1 \in 1..(L + 1)
          /\ i + 1 + 1 \in 1..(L + 1) /\ i <= L
      BY <1>0 DEF L
    <3>2. ReadSoFar(text, words, i, a(i), turns[i])
      BY <3>1
    <3> DEFINE from == at[i + 1]
               word == words[i + 1]
    <3>3. from \in Nat /\ from >= 4 + (i + 1) /\ LaidAt(R, word, from, at[(i + 1) + 1])
      BY <2>5, <3>1
    <3>4. word \in Word /\ i + 1 \in 1..Len(words)
      <4>1. i + 1 \in 1..Len(words)
        BY <3>1 DEF L
      <4> QED BY <4>1, ElementOfSeq
    <3>5. WordAt(text, word, p - 1 + from) /\ at[(i + 1) + 1] = from + 6 + Len(word)
      <4> HIDE DEF word, from
      <4>1. from >= 1
        BY <3>1, <3>3
      <4> QED BY <1>0, <1>1, <1>4, <3>3, <3>4, <4>1, WordLies
    <3>6. a(i) = p - 1 + from /\ a(i) \in Nat /\ a(i) >= 1
      BY <3>1, <3>3
    <3>7. a(i + 1) = a(i) + 6 + Len(word)
      <4>1. Len(word) \in Nat
        BY <3>4, LenProperties DEF Word
      <4> HIDE DEF word
      <4> QED BY <3>3, <3>5, <4>1
    <3>8. turns[i + 1] = IF turns[i].end # "none" THEN turns[i]
                         ELSE NextArgument(text, turns[i], junk)
      BY <2>4, <3>1, Zenon DEF Looped
    <3>9. ReadSoFar(text, words, i + 1, a(i) + 6 + Len(words[i + 1]),
                    IF turns[i].end # "none" THEN turns[i] ELSE NextArgument(text, turns[i], junk))
      <4>1. WordAt(text, words[i + 1], a(i))
        BY <3>5, <3>6
      <4> HIDE DEF a
      <4> QED BY <3>1, <3>2, <3>4, <3>6, <4>1, TurnReads
    <3> QED BY <3>7, <3>8, <3>9
  <2> HIDE DEF T
  <2>8. T = Nat
    <3>1. T \in SUBSET Nat
      BY DEF T
    <3> QED BY <2>6, <2>7, <3>1, NatSetInduction
  <2>9. ReadSoFar(text, words, L, p + Len(R), rec)
    <3>1. L \in Nat /\ L <= L
      BY <1>0 DEF L
    <3>2. ReadSoFar(text, words, L, a(L), turns[L])
      BY <2>8, <3>1 DEF T
    <3>3. a(L) = p + Len(R)
      BY <1>1, <1>2 DEF L
    <3> QED BY <2>4, <3>2, <3>3
  <2>10. CASE ~(p + Len(R) <= N + 1)
    <3>1. CutRecord(rec, words)
      BY <2>9, <2>10, Zenon DEF ReadSoFar
    <3> QED BY <2>10, <3>1, Zenon DEF rec, R
  <2>11. CASE p + Len(R) <= N + 1
    <3>1. PICK args : /\ rec = Turned(args, p + Len(R), TRUE)
                      /\ args \in Seq(Seq(Padding)) /\ Len(args) = L
                      /\ \A j \in 1..L : args[j] = words[j]
      BY <2>9, <2>11, Zenon DEF ReadSoFar
    <3>2. words \in Seq(Seq(Padding)) /\ Len(words) = L
      <4>1. \A j \in 1..Len(words) : words[j] \in Seq(Padding)
        BY ElementOfSeq, WordIsCutWord
      <4> QED BY <4>1, ElementOfSeq DEF L
    <3>3. args = words
      BY <3>1, <3>2, SeqEqual
    <3> QED BY <2>11, <3>1, <3>3, Zenon DEF rec, R
  <2> QED BY <2>10, <2>11
<1> QED
  BY <1>5, <1>6

-----------------------------------------------------------------------------
(* Whatever the text, a good stream is somewhere behind the '*' *)

Onward(text, p, in) == in.good => in.pos \in (p + 1)..(Len(text) + 1)

LEMMA DigitIsInt == \A c : IsDigit(c) => ValueOf(c) \in Int
<1> TAKE c
<1> HAVE IsDigit(c)
<1>1. CASE c = "0"
  <2>1. ValueOf(c) = 0
    BY <1>1, Zenon DEF ValueOf
  <2> QED BY <2>1
<1>2. CASE c # "0"
  <2>1. DOMAIN Digits = 1..9
    BY DEF Digits
  <2>2. \E d \in 1..9 : Digits[d] = c
    BY <1>2, <2>1, Zenon DEF IsDigit
  <2>3. ValueOf(c) = CHOOSE d \in 1..9 : Digits[d] = c
    BY <1>2, <2>1, Zenon DEF ValueOf
  <2>4. ValueOf(c) \in 1..9
    BY <2>2, <2>3, Zenon
  <2> QED BY <2>4
<1> QED BY <1>1, <1>2

LEMMA SkipOnward ==
  ASSUME NEW text, Len(text) \in Nat, NEW p \in Nat, NEW x \in (p + 1)..(Len(text) + 1)
  PROVE  Skip(text, x) \in (p + 1)..(Len(text) + 1)
<1>1. x \in 1..(Len(text) + 1)
  OBVIOUS
<1>2. Skip(text, x) \in x..(Len(text) + 1)
  BY <1>1, SkipRange
<1> QED
  BY <1>2

LEMMA CharOnward ==
  ASSUME NEW text, Len(text) \in Nat, NEW p \in Nat, NEW in, Onward(text, p, in), NEW junk
  PROVE  Onward(text, p, ExtractChar(text, in, junk))
<1> DEFINE q == Skip(text, in.pos)
           out == ExtractChar(text, in, junk)
<1>1. out = IF in.good /\ q <= Len(text)
            THEN [value |-> text[q], pos |-> q + 1, good |-> TRUE]
            ELSE [value |-> junk, pos |-> Len(text) + 1, good |-> FALSE]
  BY Zenon DEF ExtractChar
<1>2. in.good => q \in (p + 1)..(Len(text) + 1)
  BY SkipOnward DEF Onward
<1> HIDE DEF q, out
<1>3. CASE in.good /\ q <= Len(text)
  <2>1. out = [value |-> text[q], pos |-> q + 1, good |-> TRUE]
    BY <1>1, <1>3, Zenon
  <2>2. out.pos = q + 1
    BY <2>1
  <2>3. q + 1 \in (p + 1)..(Len(text) + 1)
    BY <1>2, <1>3
  <2> QED BY <2>2, <2>3, Zenon DEF Onward, out
<1>4. CASE ~(in.good /\ q <= Len(text))
  <2>1. out = [value |-> junk, pos |-> Len(text) + 1, good |-> FALSE]
    BY <1>1, <1>4, Zenon
  <2>2. ~out.good
    BY <2>1
  <2> QED BY <2>2, Zenon DEF Onward, out
<1> QED
  BY <1>3, <1>4, Zenon

LEMMA IntOnward ==
  ASSUME NEW text, Len(text) \in Nat, NEW p \in Nat, NEW in, Onward(text, p, in),
         NEW junk \in Int
  PROVE  Onward(text, p, ExtractInt(text, in, junk)) /\ ExtractInt(text, in, junk).value \in Int
<1> DEFINE q == Skip(text, in.pos)
           out == ExtractInt(text, in, junk)
<1>1. out = IF ~in.good \/ q > Len(text)
            THEN [value |-> junk, pos |-> Len(text) + 1, good |-> FALSE]
            ELSE IF IsDigit(text[q])
            THEN [value |-> ValueOf(text[q]), pos |-> q + 1, good |-> q < Len(text)]
            ELSE [value |-> 0, pos |-> q, good |-> FALSE]
  BY Zenon DEF ExtractInt
<1>2. in.good => q \in (p + 1)..(Len(text) + 1)
  BY SkipOnward DEF Onward
<1> HIDE DEF q, out
<1>3. CASE ~in.good \/ q > Len(text)
  <2>1. out = [value |-> junk, pos |-> Len(text) + 1, good |-> FALSE]
    BY <1>1, <1>3, Zenon
  <2>2. ~out.good /\ out.value \in Int
    BY <2>1
  <2> QED BY <2>2, Zenon DEF Onward, out
<1>4. CASE ~(~in.good \/ q > Len(text)) /\ IsDigit(text[q])
  <2>1. out = [value |-> ValueOf(text[q]), pos |-> q + 1, good |-> q < Len(text)]
    BY <1>1, <1>4, Zenon
  <2>2. out.value \in Int /\ out.pos = q + 1
    <3>1. out.value = ValueOf(text[q]) /\ out.pos = q + 1
      BY <2>1, Zenon
    <3> QED BY <1>4, <3>1, DigitIsInt, Zenon
  <2>3. q + 1 \in (p + 1)..(Len(text) + 1)
    <3>1. ~(q > Len(text)) /\ q \in (p + 1)..(Len(text) + 1)
      BY <1>2, <1>4, Zenon
    <3> QED BY <3>1
  <2> QED BY <2>2, <2>3, Zenon DEF Onward, out
<1>5. CASE ~(~in.good \/ q > Len(text)) /\ ~IsDigit(text[q])
  <2>1. out = [value |-> 0, pos |-> q, good |-> FALSE]
    BY <1>1, <1>5, Zenon
  <2>2. ~out.good /\ out.value \in Int
    BY <2>1
  <2> QED BY <2>2, Zenon DEF Onward, out
<1> QED
  BY <1>3, <1>4, <1>5, Zenon

LEMMA IgnoreOnward ==
  ASSUME NEW text, Len(text) \in Nat, NEW p \in Nat, NEW in, Onward(text, p, in)
  PROVE  Onward(text, p, Ignore2(text, in))
<1> DEFINE out == Ignore2(text, in)
<1>1. out = [value |-> in.value, pos |-> in.pos + 2, good |-> in.good /\ in.pos + 1 <= Len(text)]
  BY Ignored
<1> HIDE DEF out
<1>2. out.pos = in.pos + 2 /\ (out.good = (in.good /\ in.pos + 1 <= Len(text)))
  BY <1>1, Zenon
<1>3. ASSUME out.good PROVE out.pos \in (p + 1)..(Len(text) + 1)
  <2>1. in.good /\ in.pos + 1 <= Len(text)
    BY <1>2, <1>3, Zenon
  <2>2. in.pos \in (p + 1)..(Len(text) + 1)
    BY <2>1, Zenon DEF Onward
  <2>3. in.pos + 2 \in (p + 1)..(Len(text) + 1)
    BY <2>1, <2>2
  <2> QED BY <1>2, <2>3, Zenon
<1> QED
  BY <1>3, Zenon DEF Onward, out

LEMMA ReadOnward ==
  ASSUME NEW text, Len(text) \in Nat, NEW p \in Nat, NEW in, Onward(text, p, in), NEW n \in Nat
  PROVE  Onward(text, p, Read(text, in, n))
<1> DEFINE h == IF in.good THEN Min({n, Len(text) + 1 - in.pos}) ELSE 0
           v == SubSeq(text, in.pos, in.pos + h - 1) \o [i \in 1..(n - h) |-> " "]
           out == Read(text, in, n)
<1>1. out = [value |-> v, pos |-> in.pos + n, good |-> (h = n /\ in.good)]
  BY Zenon DEF Read
<1>2. ASSUME in.good, h = n PROVE in.pos + n \in (p + 1)..(Len(text) + 1)
  <2>1. in.pos \in (p + 1)..(Len(text) + 1)
    BY <1>2, Zenon DEF Onward
  <2> DEFINE m == Len(text) + 1 - in.pos
  <2>2. h = Min({n, m})
    BY <1>2, Zenon
  <2>3. m \in Int
    BY <2>1
  <2> HIDE DEF m, h
  <2>4. Min({n, m}) = IF n <= m THEN n ELSE m
    BY <2>3, MinOfTwo
  <2>5. n <= m
    BY <1>2, <2>2, <2>3, <2>4
  <2>6. n <= Len(text) + 1 - in.pos
    BY <2>5 DEF m
  <2> QED BY <2>1, <2>6
<1> HIDE DEF h, v, out
<1>3. out.pos = in.pos + n /\ (out.good = (h = n /\ in.good))
  BY <1>1, Zenon
<1> QED
  BY <1>2, <1>3, Zenon DEF Onward, out

Running(turn) == turn.end = "none" => \E args, pos, good : turn = Turned(args, pos, good)

LEMMA ArgumentOnward ==
  ASSUME NEW text, Len(text) \in Nat, NEW p \in Nat, NEW in, Onward(text, p, in),
         in.end = "none", Running(in), NEW junk, JunkOK(junk)
  PROVE  Onward(text, p, NextArgument(text, in, junk)) /\ Running(NextArgument(text, in, junk))
<1> DEFINE dollar == ExtractChar(text, in, junk.dollarSign)
           length == ExtractInt(text, dollar, junk.stringLength)
           bytes  == Read(text, Ignore2(text, length), length.value)
           after  == Ignore2(text, bytes)
           out    == NextArgument(text, in, junk)
           lost   == [in EXCEPT !.pos = dollar.pos, !.good = dollar.good, !.end = "mismatch"]
           thrown == [in EXCEPT !.end = "throws"]
           taken  == [args |-> Append(in.args, bytes.value), end |-> "none",
                      pos |-> after.pos, good |-> after.good]
<1>1. out = IF dollar.value # "$" THEN lost ELSE IF length.value < 0 THEN thrown ELSE taken
  BY Zenon DEF NextArgument
<1>2. PICK args, pos, good : in = Turned(args, pos, good)
  BY Zenon DEF Running
<1>3. Onward(text, p, dollar)
  BY CharOnward
<1>4. Onward(text, p, length) /\ length.value \in Int
  <2> HIDE DEF dollar
  <2> QED BY <1>3, IntOnward DEF JunkOK
<1>5. length.value \in Nat => Onward(text, p, after)
  <2> HIDE DEF dollar, length
  <2> SUFFICES ASSUME length.value \in Nat PROVE Onward(text, p, after)
    OBVIOUS
  <2> DEFINE st == Ignore2(text, length)
             n  == length.value
  <2>1. Onward(text, p, st)
    BY <1>4, IgnoreOnward
  <2> HIDE DEF st
  <2>2. Onward(text, p, bytes)
    <3>1. n \in Nat /\ bytes = Read(text, st, n)
      BY DEF st
    <3> HIDE DEF n, bytes
    <3> QED BY <2>1, <3>1, ReadOnward
  <2> HIDE DEF bytes
  <2> QED BY <2>2, IgnoreOnward
<1> DEFINE mark == dollar.pos
           fine == dollar.good
<1>6. lost.end = "mismatch" /\ lost.pos = dollar.pos /\ lost.good = dollar.good
  <2> HIDE DEF dollar
  <2> QED BY <1>2 DEF Turned
<1>7. thrown.end = "throws" /\ thrown.pos = in.pos /\ thrown.good = in.good
  BY <1>2 DEF Turned
<1>8. taken = Turned(Append(in.args, bytes.value), after.pos, after.good)
  BY Zenon DEF Turned
<1>9. taken.pos = after.pos /\ taken.good = after.good
  <2> HIDE DEF bytes, after
  <2> QED BY Zenon
<1> HIDE DEF dollar, length, bytes, after, out, lost, thrown, taken
<1>10. CASE dollar.value # "$"
  <2>1. out = lost
    BY <1>1, <1>10, Zenon
  <2>2. Onward(text, p, out)
    BY <1>3, <1>6, <2>1, Zenon DEF Onward
  <2>3. Running(out)
    <3>1. "mismatch" # "none"
      OBVIOUS
    <3> QED BY <1>6, <2>1, <3>1, Zenon DEF Running
  <2> QED BY <2>2, <2>3, Zenon DEF out
<1>11. CASE ~(dollar.value # "$") /\ length.value < 0
  <2>1. out = thrown
    BY <1>1, <1>11, Zenon
  <2>2. Onward(text, p, out)
    BY <1>7, <2>1, Zenon DEF Onward
  <2>3. Running(out)
    <3>1. "throws" # "none"
      OBVIOUS
    <3> QED BY <1>7, <2>1, <3>1, Zenon DEF Running
  <2> QED BY <2>2, <2>3, Zenon DEF out
<1>12. CASE ~(dollar.value # "$") /\ ~(length.value < 0)
  <2>1. out = taken
    BY <1>1, <1>12, Zenon
  <2>2. Onward(text, p, out)
    <3>1. length.value \in Nat
      BY <1>4, <1>12
    <3> QED BY <1>5, <1>9, <2>1, <3>1, Zenon DEF Onward
  <2>3. Running(out)
    BY <1>8, <2>1, Zenon DEF Running
  <2> QED BY <2>2, <2>3, Zenon DEF out
<1> QED
  BY <1>10, <1>11, <1>12, Zenon

LEMMA RecordOnward ==
  ASSUME NEW text, Len(text) \in Nat, NEW p \in 1..Len(text), NEW junk, JunkOK(junk)
  PROVE  Onward(text, p, ParseRecord(text, p + 1, junk))
<1> DEFINE in    == [pos |-> p + 1, good |-> TRUE]
           size  == ExtractInt(text, in, junk.arraySize)
           first == Ignore2(text, size)
           n     == IF size.value > 0 THEN size.value ELSE 0
           rec   == ParseRecord(text, p + 1, junk)
<1>0. p \in Nat
  OBVIOUS
<1>1. Onward(text, p, in)
  BY DEF Onward
<1>2. Onward(text, p, size) /\ size.value \in Int
  <2> HIDE DEF in
  <2> QED BY <1>0, <1>1, IntOnward DEF JunkOK
<1>3. Onward(text, p, first)
  <2> HIDE DEF size
  <2> QED BY <1>0, <1>2, IgnoreOnward
<1>4. size = ExtractInt(text, [pos |-> p + 1, good |-> TRUE], junk.arraySize)
  OBVIOUS
<1>5. n \in Nat /\ n = IF size.value > 0 THEN size.value ELSE 0
  <2> HIDE DEF size
  <2> QED BY <1>2
<1> HIDE DEF size, n
<1>6. LoopGives(rec, text, first, n, junk)
  BY <1>4, <1>5, RecordUnfolds, Zenon
<1> HIDE DEF first, rec
<1>7. PICK turns : Looped(text, first, n, junk, turns) /\ rec = turns[n]
  BY <1>6, Zenon DEF LoopGives
<1> DEFINE T == {i \in Nat : i <= n => Onward(text, p, turns[i]) /\ Running(turns[i])}
<1>8. 0 \in T
  <2>1. turns[0] = Turned(<<>>, first.pos, first.good)
    BY <1>7, Zenon DEF Looped
  <2>2. turns[0].pos = first.pos /\ turns[0].good = first.good
    BY <2>1 DEF Turned
  <2>3. Onward(text, p, turns[0])
    BY <1>3, <2>2, Zenon DEF Onward
  <2>4. Running(turns[0])
    BY <2>1, Zenon DEF Running
  <2> QED BY <2>3, <2>4
<1>9. ASSUME NEW i \in T PROVE i + 1 \in T
  <2> SUFFICES ASSUME i + 1 <= n PROVE Onward(text, p, turns[i + 1]) /\ Running(turns[i + 1])
    OBVIOUS
  <2>1. i \in 0..(n - 1) /\ i <= n
    BY <1>5
  <2>2. Onward(text, p, turns[i]) /\ Running(turns[i])
    BY <2>1
  <2>3. turns[i + 1] = IF turns[i].end # "none" THEN turns[i]
                       ELSE NextArgument(text, turns[i], junk)
    BY <1>7, <2>1, Zenon DEF Looped
  <2>4. CASE turns[i].end # "none"
    BY <2>2, <2>3, <2>4, Zenon
  <2>5. CASE turns[i].end = "none"
    <3> DEFINE turn == turns[i]
    <3>1. Onward(text, p, turn) /\ Running(turn) /\ turn.end = "none"
      BY <2>2, <2>5
    <3> HIDE DEF turn
    <3>2. Onward(text, p, NextArgument(text, turn, junk)) /\ Running(NextArgument(text, turn, junk))
      BY <1>0, <3>1, ArgumentOnward
    <3> QED BY <2>3, <2>5, <3>2, Zenon DEF turn
  <2> QED BY <2>4, <2>5
<1> HIDE DEF T
<1>10. T = Nat
  <2>1. T \in SUBSET Nat
    BY DEF T
  <2> QED BY <1>8, <1>9, <2>1, NatSetInduction
<1>11. Onward(text, p, turns[n])
  <2>1. n <= n
    BY <1>5
  <2> QED BY <1>5, <1>10, <2>1 DEF T
<1> QED
  BY <1>7, <1>11, Zenon DEF rec

-----------------------------------------------------------------------------
(* The records of a text *)

\* What replayLog takes from position p on, given what it takes from the
\* positions behind.
Rest(text, junk, p) ==
  LET rec == ParseRecord(text, p + 1, junk) IN IF rec.good THEN rec.pos ELSE Len(text) + 1
With(rec, rest) ==
  CASE rec.end = "throws"   -> [cmds |-> <<>>, throws |-> TRUE]
    [] rec.end = "mismatch" -> rest
    [] rec.end = "none" -> [cmds |-> <<rec.args>> \o rest.cmds, throws |-> rest.throws]
From(text, junk, from, p) ==
  IF p = Len(text) + 1 THEN [cmds |-> <<>>, throws |-> FALSE]
  ELSE IF text[p] # "*" THEN from[p + 1]
  ELSE With(ParseRecord(text, p + 1, junk), from[Rest(text, junk, p)])

FromOn(text, junk, k, from) ==
  from = [p \in k..(Len(text) + 1) |-> From(text, junk, from, p)]

\* One position never asks for another in front of it.
LEMMA FromLooksAhead ==
  ASSUME NEW text, Len(text) \in Nat, NEW junk, JunkOK(junk), NEW p \in 1..(Len(text) + 1),
         NEW f, NEW g, \A q \in (p + 1)..(Len(text) + 1) : f[q] = g[q]
  PROVE  From(text, junk, f, p) = From(text, junk, g, p)
<1>1. CASE p = Len(text) + 1
  BY <1>1, Zenon DEF From
<1>2. CASE p # Len(text) + 1
  <2>1. p \in 1..Len(text) /\ p + 1 \in (p + 1)..(Len(text) + 1)
    BY <1>2
  <2>2. f[p + 1] = g[p + 1]
    BY <2>1
  <2> DEFINE r == Rest(text, junk, p)
             rec == ParseRecord(text, p + 1, junk)
  <2>3. r \in (p + 1)..(Len(text) + 1)
    <3>1. Onward(text, p, rec)
      BY <2>1, RecordOnward
    <3>2. Len(text) + 1 \in (p + 1)..(Len(text) + 1)
      BY <2>1
    <3>3. r = IF rec.good THEN rec.pos ELSE Len(text) + 1
      BY Zenon DEF Rest
    <3> HIDE DEF r, rec
    <3> QED BY <3>1, <3>2, <3>3, Zenon DEF Onward
  <2>4. f[r] = g[r]
    BY <2>3
  <2> HIDE DEF r
  <2> QED BY <1>2, <2>2, <2>4, Zenon DEF From, r
<1> QED BY <1>1, <1>2

LEMMA FromExists ==
  ASSUME NEW text, Len(text) \in Nat, NEW junk, JunkOK(junk)
  PROVE  \E from : FromOn(text, junk, 1, from)
<1> DEFINE N == Len(text) + 1
           T == {d \in Nat : d < N => \E f : FromOn(text, junk, N - d, f)}
<1>0. N \in Nat /\ N >= 1
  OBVIOUS
<1>1. 0 \in T
  <2> DEFINE e == [cmds |-> <<>>, throws |-> FALSE]
             f == [p \in N..N |-> e]
  <2>1. \A p \in N..N : p = N
    BY <1>0
  <2>2. N - 0 = N
    BY <1>0
  <2>3. \A p \in N..N : From(text, junk, f, p) = e
    <3> HIDE DEF f
    <3> QED BY <2>1, Zenon DEF From
  <2>4. f = [p \in N..N |-> From(text, junk, f, p)]
    <3>1. f = [p \in N..N |-> f[p]] /\ \A p \in N..N : f[p] = e
      OBVIOUS
    <3> HIDE DEF f, e, N
    <3> QED BY <2>3, <3>1, Zenon
  <2>5. FromOn(text, junk, N, f)
    <3> HIDE DEF f
    <3> QED BY <2>4, Zenon DEF FromOn
  <2> HIDE DEF f
  <2> QED BY <2>2, <2>5, Zenon
<1>2. ASSUME NEW d \in T PROVE d + 1 \in T
  <2> SUFFICES ASSUME d + 1 < N PROVE \E f : FromOn(text, junk, N - (d + 1), f)
    OBVIOUS
  <2> HIDE DEF N
  <2>1. d \in Nat /\ d < N
    BY <1>0
  <2> DEFINE k == N - (d + 1)
  <2>2. k \in Nat /\ k >= 1 /\ N - d = k + 1 /\ k \in 1..N /\ k < N
    BY <1>0, <2>1
  <2> HIDE DEF k
  <2>3. PICK g : FromOn(text, junk, k + 1, g)
    BY <2>1, <2>2
  <2> DEFINE h == [p \in k..N |-> IF p = k THEN From(text, junk, g, k) ELSE g[p]]
  <2>4. \A p \in k..N : p = k \/ p \in (k + 1)..N
    BY <1>0, <2>2
  <2>5. \A p \in (k + 1)..N : p \in k..N /\ p # k
    BY <1>0, <2>2
  <2>6. k \in k..N
    BY <1>0, <2>2
  <2>7. h = [p \in k..N |-> h[p]] /\ h[k] = From(text, junk, g, k)
        /\ \A p \in (k + 1)..N : h[p] = g[p]
    BY <2>5, <2>6
  <2> HIDE DEF h
  <2>8. \A p \in (k + 1)..N : g[p] = From(text, junk, g, p)
    BY <2>3, Zenon DEF FromOn, N
  <2>9. \A p \in k..N : From(text, junk, h, p) = From(text, junk, g, p)
    <3> TAKE p \in k..N
    <3>1. p \in 1..(Len(text) + 1) /\ \A q \in (p + 1)..(Len(text) + 1) : q \in (k + 1)..N
      BY <1>0, <2>2 DEF N
    <3>2. \A q \in (p + 1)..(Len(text) + 1) : h[q] = g[q]
      BY <2>7, <3>1, Zenon
    <3> QED BY <3>1, <3>2, FromLooksAhead
  <2>10. \A p \in k..N : h[p] = From(text, junk, h, p)
    BY <2>4, <2>7, <2>8, <2>9, Zenon
  <2>11. h = [p \in k..N |-> From(text, junk, h, p)]
    BY <2>7, <2>10, Zenon
  <2>12. FromOn(text, junk, k, h)
    BY <2>11, Zenon DEF FromOn, N
  <2> QED BY <2>12 DEF k
<1> HIDE DEF T
<1>3. T = Nat
  <2>1. T \in SUBSET Nat
    BY DEF T
  <2> QED BY <1>1, <1>2, <2>1, NatSetInduction
<1>4. N - 1 \in T /\ N - 1 < N /\ N - (N - 1) = 1
  BY <1>0, <1>3
<1> HIDE DEF N
<1> QED
  BY <1>4, Zenon DEF T

ParsedBy(text, junk, from) ==
  /\ \A p \in 1..(Len(text) + 1) : from[p] = From(text, junk, from, p)
  /\ Parse(text, junk) = from[1]

LEMMA ParseUnfolds ==
  ASSUME NEW text, Len(text) \in Nat, NEW junk, JunkOK(junk)
  PROVE  \E from : ParsedBy(text, junk, from)
<1> DEFINE f == CHOOSE from : FromOn(text, junk, 1, from)
<1>1. Parse(text, junk) = f[1]
  BY Zenon DEF Parse, FromOn, From, With, Rest
<1>2. FromOn(text, junk, 1, f)
  BY FromExists
<1> HIDE DEF f
<1>3. \A p \in 1..(Len(text) + 1) : f[p] = From(text, junk, f, p)
  BY <1>2, Zenon DEF FromOn
<1> QED
  BY <1>1, <1>3, Zenon DEF ParsedBy

-----------------------------------------------------------------------------
(* The log of a process *)

\* What the first n of some commands are in the log.
Written(cs, n) == FlattenSeq([i \in 1..n |-> serializeToRESP(cs[i])])

\* The strings a command is written as.
WordsOf(c) == [i \in DOMAIN c |-> Bytes[c[i]]]

LEMMA CommandIsWritten ==
  ASSUME NEW c \in Commands
  PROVE  /\ Len(c) \in 1..9 /\ Len(WordsOf(c)) = Len(c) /\ WordsOf(c) \in Seq(Word)
         /\ \A i \in 1..Len(c) : WordsOf(c)[i] = Bytes[c[i]]
         /\ serializeToRESP(c) = array_to_resp(WordsOf(c))
         /\ serializeToRESP(c) = Serialize(c)
         /\ serializeToRESP(c) \in Seq(Char) /\ Len(serializeToRESP(c)) >= 4
         /\ Len(serializeToRESP(c)) \in Nat
         /\ serializeToRESP(c)[1] = "*"
<1>1. /\ Serialize(c) = serializeToRESP(c) /\ c \in Seq(DOMAIN Bytes) /\ Len(c) \in 1..9
      /\ \A i \in 1..Len(c) : Bytes[c[i]] \in Seq(STRING) /\ Len(Bytes[c[i]]) <= 9
  BY RecoveryAssumption
<1>2. DOMAIN c = 1..Len(c)
  BY <1>1, LenProperties
<1> DEFINE n == Len(c)
           f == [i \in 1..n |-> Bytes[c[i]]]
<1>3. WordsOf(c) = f
  BY <1>2, Zenon DEF WordsOf
<1>4. \A i \in 1..n : Bytes[c[i]] \in Word
  <2> TAKE i \in 1..n
  <2>1. Bytes[c[i]] \in Seq(STRING) /\ Len(Bytes[c[i]]) <= 9
    BY <1>1
  <2>2. Bytes[c[i]] \in Seq(Char)
    <3> DEFINE b == Bytes[c[i]]
    <3>1. b \in Seq(STRING)
      BY <2>1
    <3> HIDE DEF b
    <3>2. \A j \in 1..Len(b) : b[j] \in Char
      BY <3>1, ElementOfSeq DEF Char
    <3> QED BY <3>1, <3>2 DEF b
  <2> QED BY <2>1, <2>2 DEF Word
<1>5. n \in Nat /\ f \in [1..n -> Word] /\ \A i \in 1..n : f[i] = Bytes[c[i]]
  BY <1>1, <1>4
<1>6. f \in Seq(Word) /\ Len(f) = n
  <2> HIDE DEF n, f
  <2> QED BY <1>5, FunctionIsSeq
<1>7. serializeToRESP(c) = array_to_resp(WordsOf(c))
  BY Zenon DEF serializeToRESP, WordsOf
<1> HIDE DEF f
<1>8. Len(WordsOf(c)) \in 0..9 /\ WordsOf(c) \in Seq(Word)
  <2>1. \A l \in 1..9 : l \in 0..9
    OBVIOUS
  <2> QED BY <1>1, <1>3, <1>6, <2>1, Zenon
<1>9. /\ array_to_resp(WordsOf(c)) \in Seq(Char) /\ Len(array_to_resp(WordsOf(c))) >= 4
      /\ array_to_resp(WordsOf(c))[1] = "*"
  BY <1>8, ArrayIsWritten
<1> QED
  BY <1>1, <1>3, <1>5, <1>6, <1>7, <1>8, <1>9, LenProperties

LEMMA NothingWritten == ASSUME NEW cs PROVE Written(cs, 0) = <<>>
<1> DEFINE s == [i \in 1..0 |-> serializeToRESP(cs[i])]
<1>1. Len(s) = 0
  OBVIOUS
<1>2. s = <<>>
  OBVIOUS
<1>3. FlattenSeq(s) = s
  <2> HIDE DEF s
  <2> QED BY <1>1, Zenon DEF FlattenSeq
<1> QED
  BY <1>2, <1>3 DEF Written

LEMMA OneMoreWritten ==
  ASSUME NEW cs, NEW n \in Nat, serializeToRESP(cs[n + 1]) \in Seq(Char)
  PROVE  Written(cs, n + 1) = Written(cs, n) \o serializeToRESP(cs[n + 1])
<1> DEFINE s == [i \in 1..n |-> serializeToRESP(cs[i])]
           t == [i \in 1..(n + 1) |-> serializeToRESP(cs[i])]
           r == serializeToRESP(cs[n + 1])
<1>1. /\ Len(s) = n /\ Len(t) = n + 1 /\ n + 1 # 0 /\ n + 1 \in Nat
      /\ t[n + 1] = r /\ \A i \in 1..n : s[i] = t[i]
  OBVIOUS
<1>2. Written(cs, n) = FlattenSeq(s) /\ Written(cs, n + 1) = FlattenSeq(t)
  BY DEF Written
<1>s. r \in Seq(Char)
  OBVIOUS
<1> HIDE DEF s, t, r
<1>3. PICK g : Joined(t, n + 1, g) /\ FlattenSeq(t) = g[n + 1]
  BY <1>1, FlattenUnfolds
<1>4. \A i \in 1..(n + 1) : g[i] = IF i = 1 THEN t[i] ELSE g[i - 1] \o t[i]
  BY <1>3, Zenon DEF Joined
<1>5. CASE n = 0
  <2>1. Written(cs, n) = <<>>
    BY <1>5, NothingWritten
  <2>2. g[n + 1] = r
    BY <1>1, <1>4, <1>5
  <2>3. <<>> \o r = r
    BY <1>s, ConcatEmptySeq
  <2> QED BY <1>2, <1>3, <2>1, <2>2, <2>3 DEF r
<1>6. CASE n # 0
  <2>1. PICK f : Joined(s, n, f) /\ FlattenSeq(s) = f[n]
    BY <1>1, <1>6, FlattenUnfolds
  <2>2. \A i \in 1..n : f[i] = IF i = 1 THEN s[i] ELSE f[i - 1] \o s[i]
    BY <2>1, Zenon DEF Joined
  <2> DEFINE T == {i \in Nat : i + 1 <= n => f[i + 1] = g[i + 1]}
  <2>3. 0 \in T
    <3>1. 1 \in 1..n /\ 1 \in 1..(n + 1)
      BY <1>6
    <3>2. f[1] = s[1] /\ g[1] = t[1] /\ s[1] = t[1]
      BY <1>1, <1>4, <2>2, <3>1
    <3> QED BY <3>2
  <2>4. ASSUME NEW i \in T PROVE i + 1 \in T
    <3> SUFFICES ASSUME i + 1 + 1 <= n PROVE f[i + 1 + 1] = g[i + 1 + 1]
      OBVIOUS
    <3> DEFINE j == i + 1 + 1
    <3>1. i \in Nat /\ j \in 1..n /\ j \in 1..(n + 1) /\ j # 1 /\ j - 1 = i + 1 /\ i + 1 <= n
      OBVIOUS
    <3>2. f[i + 1] = g[i + 1]
      BY <3>1
    <3> HIDE DEF j
    <3>3. f[j] = f[i + 1] \o s[j] /\ g[j] = g[i + 1] \o t[j] /\ s[j] = t[j]
      BY <1>1, <1>4, <2>2, <3>1
    <3> QED BY <3>2, <3>3 DEF j
  <2> HIDE DEF T
  <2>5. T = Nat
    <3>1. T \in SUBSET Nat
      BY DEF T
    <3> QED BY <2>3, <2>4, <3>1, NatSetInduction
  <2>6. f[n] = g[n]
    <3>1. n - 1 \in T /\ n - 1 + 1 = n
      BY <1>6, <2>5
    <3>2. f[n - 1 + 1] = g[n - 1 + 1]
      <4>1. n - 1 + 1 <= n
        OBVIOUS
      <4> QED BY <3>1, <4>1 DEF T
    <3> QED BY <3>1, <3>2
  <2>7. g[n + 1] = g[n] \o r
    <3>1. n + 1 \in 1..(n + 1) /\ n + 1 # 1 /\ (n + 1) - 1 = n
      BY <1>6
    <3> QED BY <1>1, <1>4, <3>1, Zenon
  <2> QED BY <1>2, <1>3, <2>1, <2>6, <2>7 DEF r
<1> QED
  BY <1>5, <1>6

\* Where the records lie in the log of the commands cs.
RecordsLie(cs, n) ==
  /\ Written(cs, 0) = <<>>
  /\ \A i \in 0..n :
       Written(cs, i) \in Seq(Char) /\ Len(Written(cs, i)) \in Nat
       /\ Len(Written(cs, i)) <= Len(Written(cs, n))
  /\ \A i \in 0..(n - 1) :
       /\ Len(Written(cs, i + 1)) = Len(Written(cs, i)) + Len(serializeToRESP(cs[i + 1]))
       /\ Lies(Written(cs, n), Len(Written(cs, i)) + 1, serializeToRESP(cs[i + 1]))

\* More text behind it does not move a record.
LEMMA LiesStays ==
  ASSUME NEW text \in Seq(Char), NEW more \in Seq(Char), NEW p \in Nat, p >= 1,
         NEW record, Len(record) \in Nat, p + Len(record) <= Len(text) + 1, Lies(text, p, record)
  PROVE  Lies(text \o more, p, record)
<1> DEFINE all == text \o more
<1>1. /\ Len(text) \in Nat /\ Len(more) \in Nat
      /\ \A k \in 1..Len(text) + Len(more) : all[k] = IF k <= Len(text) THEN text[k] ELSE more[k - Len(text)]
  BY ConcatProperties, LenProperties
<1> HIDE DEF all
<1>2. ASSUME NEW j \in 1..Len(record)
      PROVE  all[p + j - 1] = record[j]
  <2>1. p + j - 1 <= Len(text) /\ p + j - 1 \in 1..Len(text) + Len(more)
    BY <1>1
  <2>2. all[p + j - 1] = text[p + j - 1]
    BY <1>1, <2>1, Zenon
  <2> QED BY <2>1, <2>2, Zenon DEF Lies
<1> QED
  BY <1>2, Zenon DEF Lies, all

LEMMA LogIsLaid ==
  ASSUME NEW cs \in Seq(Commands)
  PROVE  \A n \in 0..Len(cs) : RecordsLie(cs, n)
<1> DEFINE T == {n \in Nat : n <= Len(cs) => RecordsLie(cs, n)}
<1>0. Len(cs) \in Nat
  BY LenProperties
<1>1. 0 \in T
  <2>1. Written(cs, 0) = <<>>
    BY NothingWritten
  <2>2. Written(cs, 0) \in Seq(Char) /\ Len(Written(cs, 0)) = 0
    BY <2>1, EmptySeq
  <2>3. (\A i \in 0..0 : i = 0) /\ 0..(0 - 1) = {}
    OBVIOUS
  <2>4. 0 <= 0 /\ 0 \in Nat
    OBVIOUS
  <2>5. RecordsLie(cs, 0)
    BY <2>1, <2>2, <2>3, <2>4, Zenon DEF RecordsLie
  <2> QED BY <2>5
<1>2. ASSUME NEW n \in T PROVE n + 1 \in T
  <2> SUFFICES ASSUME n + 1 <= Len(cs) PROVE RecordsLie(cs, n + 1)
    OBVIOUS
  <2>1. n \in Nat /\ n <= Len(cs) /\ n + 1 \in 1..Len(cs) /\ n \in 0..n
    BY <1>0
  <2>2. RecordsLie(cs, n)
    BY <2>1
  <2> HIDE DEF T
  <2> DEFINE r == serializeToRESP(cs[n + 1])
             W == Written(cs, n)
             V == Written(cs, n + 1)
  <2>3. r \in Seq(Char) /\ Len(r) \in Nat /\ Len(r) >= 4
    <3>1. cs[n + 1] \in Commands
      BY <2>1, ElementOfSeq
    <3> QED BY <3>1, CommandIsWritten
  <2>4. W \in Seq(Char) /\ Len(W) \in Nat
    BY <2>1, <2>2, Zenon DEF RecordsLie
  <2>5. V = W \o r
    BY <2>1, <2>3, OneMoreWritten
  <2> HIDE DEF r, W, V
  <2>6. /\ V \in Seq(Char) /\ Len(V) = Len(W) + Len(r)
        /\ \A k \in 1..Len(W) + Len(r) : V[k] = IF k <= Len(W) THEN W[k] ELSE r[k - Len(W)]
    BY <2>3, <2>4, <2>5, ConcatProperties
  <2>7. Len(V) \in Nat /\ Len(W) <= Len(V)
    BY <2>3, <2>4, <2>6
  <2>8. ASSUME NEW i \in 0..(n + 1)
        PROVE  /\ Written(cs, i) \in Seq(Char) /\ Len(Written(cs, i)) \in Nat
               /\ Len(Written(cs, i)) <= Len(V)
    <3>1. CASE i = n + 1
      <4>1. Len(V) <= Len(V)
        BY <2>7
      <4> QED BY <2>6, <2>7, <3>1, <4>1, Zenon DEF V
    <3>2. CASE i # n + 1
      <4>1. i \in 0..n
        BY <2>1, <3>2
      <4> DEFINE u == Written(cs, i)
      <4>2. u \in Seq(Char) /\ Len(u) \in Nat /\ Len(u) <= Len(W)
        BY <2>2, <4>1, Zenon DEF RecordsLie, W
      <4> HIDE DEF u
      <4>3. Len(u) <= Len(V)
        BY <2>4, <2>7, <4>2
      <4> QED BY <4>2, <4>3 DEF u
    <3> QED BY <3>1, <3>2
  <2>9. ASSUME NEW i \in 0..n
        PROVE  /\ Len(Written(cs, i + 1)) = Len(Written(cs, i)) + Len(serializeToRESP(cs[i + 1]))
               /\ Lies(V, Len(Written(cs, i)) + 1, serializeToRESP(cs[i + 1]))
    <3>1. CASE i = n
      <4>1. Lies(V, Len(W) + 1, r)
        <5>1. ASSUME NEW j \in 1..Len(r) PROVE V[Len(W) + 1 + j - 1] = r[j]
          <6>1. Len(W) + 1 + j - 1 = Len(W) + j /\ Len(W) + j \in 1..Len(W) + Len(r)
                /\ ~(Len(W) + j <= Len(W)) /\ (Len(W) + j) - Len(W) = j
            BY <2>3, <2>4
          <6>2. V[Len(W) + j] = r[(Len(W) + j) - Len(W)]
            BY <2>6, <6>1, Zenon
          <6> QED BY <6>1, <6>2, Zenon
        <5> QED BY <5>1, Zenon DEF Lies
      <4> QED BY <2>6, <3>1, <4>1, Zenon DEF W, V, r
    <3>2. CASE i # n
      <4>1. i \in 0..(n - 1)
        BY <2>1, <3>2
      <4> DEFINE u == Written(cs, i)
                 x == serializeToRESP(cs[i + 1])
                 p == Len(u) + 1
      <4>2. /\ Len(Written(cs, i + 1)) = Len(u) + Len(x)
            /\ Lies(W, Len(u) + 1, x)
        BY <2>2, <4>1, Zenon DEF RecordsLie, W
      <4>3. Len(u) \in Nat /\ i + 1 \in 0..n /\ i + 1 \in 1..Len(cs)
        <5>1. i \in 0..n /\ i + 1 \in 0..n /\ i + 1 \in 1..Len(cs)
          BY <1>0, <2>1, <4>1
        <5> QED BY <2>2, <5>1, Zenon DEF RecordsLie
      <4>4. Len(Written(cs, i + 1)) <= Len(W)
        BY <2>2, <4>3, Zenon DEF RecordsLie, W
      <4>5. Len(x) \in Nat
        <5>1. cs[i + 1] \in Commands
          BY <4>3, ElementOfSeq
        <5> QED BY <5>1, CommandIsWritten
      <4> HIDE DEF u, x
      <4>6. p \in Nat /\ p >= 1 /\ p + Len(x) <= Len(W) + 1
        BY <2>4, <4>2, <4>3, <4>4, <4>5
      <4>7. Lies(W \o r, p, x)
        <5>1. Lies(W, p, x)
          BY <4>2
        <5> HIDE DEF p
        <5> QED BY <2>3, <2>4, <4>5, <4>6, <5>1, LiesStays
      <4> QED BY <2>5, <4>2, <4>7, Zenon DEF u, x
    <3> QED BY <3>1, <3>2
  <2>10. (n + 1) - 1 = n
    BY <2>1
  <2>11. Written(cs, 0) = <<>>
    BY NothingWritten
  <2> QED BY <2>8, <2>9, <2>10, <2>11, Zenon DEF RecordsLie, V
<1> HIDE DEF T
<1>3. T = Nat
  <2>1. T \in SUBSET Nat
    BY DEF T
  <2> QED BY <1>1, <1>2, <2>1, NatSetInduction
<1> QED
  BY <1>0, <1>3 DEF T

Arguments == Seq(Seq(Padding))

\* The file text holds the first w of the commands cs and a part of the next.
CutLog(text, cs, w) ==
  /\ cs \in Seq(Commands) /\ text \in Seq(Char) /\ w \in 0..Len(cs)
  /\ Len(text) <= Len(Written(cs, Len(cs)))
  /\ \A k \in 1..Len(text) : text[k] = Written(cs, Len(cs))[k]
  /\ Len(Written(cs, w)) <= Len(text)
  /\ w < Len(cs) => Len(text) < Len(Written(cs, w + 1))

CutTail(args, text, cs, w) ==
  /\ Len(Written(cs, w)) < Len(text) /\ w + 1 \in 1..Len(cs)
  /\ CutCommand(args, WordsOf(cs[w + 1]))

\* What replayLog takes from behind the first i records.
Parsed(out, text, cs, w, i) ==
  \E cmds, throws :
    /\ out = [cmds |-> cmds, throws |-> throws] /\ cmds \in Seq(Arguments)
    /\ \/ throws = TRUE
       \/ /\ throws = FALSE
          /\ Len(cmds) = w - i \/ (Len(cmds) = (w - i) + 1 /\ CutTail(cmds[(w - i) + 1], text, cs, w))
          /\ \A j \in 1..(w - i) : cmds[j] = WordsOf(cs[i + j])

\* The record behind the first i, if the file goes on there.
LEMMA RecordLies ==
  ASSUME NEW text, NEW cs, NEW w, CutLog(text, cs, w), NEW i \in Nat, i + 1 \in 1..Len(cs),
         Len(Written(cs, i)) < Len(text)
  PROVE  LET p == Len(Written(cs, i)) + 1
             r == array_to_resp(WordsOf(cs[i + 1]))
         IN  /\ p \in Nat /\ p >= 1 /\ p <= Len(text) /\ text[p] = "*"
             /\ Lies(text, p, r) /\ Len(r) \in Nat /\ Len(Written(cs, i + 1)) + 1 = p + Len(r)
             /\ WordsOf(cs[i + 1]) \in Seq(Word) /\ Len(WordsOf(cs[i + 1])) \in 1..9
<1> DEFINE n == Len(cs)
           all == Written(cs, n)
           u == Len(Written(cs, i))
           p == u + 1
           r == array_to_resp(WordsOf(cs[i + 1]))
           s == serializeToRESP(cs[i + 1])
<1>1. cs \in Seq(Commands) /\ n \in Nat /\ Len(text) \in Nat
  BY LenProperties DEF CutLog
<1>2. RecordsLie(cs, n)
  <2>1. n \in 0..n
    BY <1>1
  <2> QED BY <1>1, <2>1, LogIsLaid
<1>3. i \in 0..(n - 1) /\ i \in 0..n
  BY <1>1
<1>4. cs[i + 1] \in Commands
  BY <1>1, ElementOfSeq
<1>5. /\ s = r /\ Len(s) \in Nat /\ Len(s) >= 4 /\ s[1] = "*"
      /\ Len(WordsOf(cs[i + 1])) \in 1..9 /\ WordsOf(cs[i + 1]) \in Seq(Word)
  BY <1>4, CommandIsWritten
<1>6. u \in Nat /\ Len(Written(cs, i + 1)) = u + Len(s) /\ Lies(all, u + 1, s)
  BY <1>2, <1>3, Zenon DEF RecordsLie
<1> HIDE DEF s, u, all
<1>7. Len(Written(cs, i + 1)) + 1 = p + Len(r) /\ p \in Nat /\ p >= 1
  BY <1>5, <1>6
<1>8. p <= Len(text)
  BY <1>1, <1>6 DEF u
<1>9. ASSUME NEW j \in 1..Len(s), p + j - 1 <= Len(text) PROVE text[p + j - 1] = s[j]
  <2>1. p + j - 1 \in 1..Len(text)
    BY <1>1, <1>5, <1>7, <1>9
  <2>2. Len(text) <= Len(all) /\ text[p + j - 1] = all[p + j - 1]
    BY <2>1, Zenon DEF CutLog, all
  <2>3. all \in Seq(Char) /\ Len(all) \in Nat
    <3>1. n \in 0..n
      BY <1>1
    <3> QED BY <1>2, <3>1, Zenon DEF RecordsLie, all
  <2>4. p + j - 1 <= Len(all)
    BY <1>1, <2>1, <2>2, <2>3
  <2>5. all[p + j - 1] = s[j]
    BY <1>6, <2>4, Zenon DEF Lies
  <2> QED BY <2>2, <2>5
<1>10. Lies(text, p, s)
  BY <1>9, Zenon DEF Lies
<1>11. text[p] = "*"
  <2>1. 1 \in 1..Len(s) /\ p + 1 - 1 = p
    BY <1>5, <1>7
  <2>2. text[p + 1 - 1] = s[1]
    BY <1>8, <1>9, <2>1, Zenon
  <2> QED BY <1>5, <2>1, <2>2, Zenon
<1> HIDE DEF r, p
<1> QED
  BY <1>5, <1>7, <1>8, <1>10, <1>11, Zenon DEF p, u, r

LastParsed(out, words) ==
  \E cmds, throws :
    /\ out = [cmds |-> cmds, throws |-> throws] /\ cmds \in Seq(Arguments)
    /\ \/ throws = TRUE
       \/ throws = FALSE /\ (Len(cmds) = 0 \/ (Len(cmds) = 1 /\ CutCommand(cmds[1], words)))

\* The stream has ended within a record: at most one command more.
LEMMA LastIsParsed ==
  ASSUME NEW rec, NEW words, CutRecord(rec, words), NEW junk, NEW rest,
         rest = [cmds |-> <<>>, throws |-> FALSE]
  PROVE  LastParsed(With(rec, rest), words)
<1> DEFINE none == <<>>
<1>0. none \in Seq(Arguments) /\ Len(none) = 0
  BY EmptySeq
<1> HIDE DEF none
<1>1. CASE rec.end = "throws"
  <2>1. With(rec, rest) = [cmds |-> none, throws |-> TRUE]
    BY <1>1, Zenon DEF With, none
  <2> QED BY <1>0, <2>1, Zenon DEF LastParsed
<1>2. CASE rec.end = "mismatch"
  <2>1. With(rec, rest) = [cmds |-> none, throws |-> FALSE]
    <3>1. "mismatch" # "throws"
      OBVIOUS
    <3>2. With(rec, rest) = rest
      BY <1>2, <3>1, Zenon DEF With
    <3> QED BY <3>2, Zenon DEF none
  <2> QED BY <1>0, <2>1, Zenon DEF LastParsed
<1>3. CASE \E args, pos : CutCommand(args, words) /\ rec = Turned(args, pos, FALSE)
  <2>1. PICK args, pos : CutCommand(args, words) /\ rec = Turned(args, pos, FALSE)
    BY <1>3
  <2>2. rec.end = "none" /\ rec.args = args /\ args \in Arguments
    BY <2>1 DEF Turned, CutCommand, Arguments
  <2> DEFINE cmds == <<rec.args>> \o none
  <2>3. cmds \in Seq(Arguments) /\ Len(cmds) = 1 /\ cmds[1] = args
    <3> DEFINE one == <<rec.args>>
    <3>1. one \in Seq(Arguments) /\ Len(one) = 1 /\ one[1] = args
      BY <2>2
    <3> HIDE DEF one
    <3>2. one \o none = one
      BY <3>1, ConcatEmptySeq DEF none
    <3> QED BY <3>1, <3>2 DEF one
  <2>4. With(rec, rest) = [cmds |-> cmds, throws |-> FALSE]
    <3>1. "none" # "throws" /\ "none" # "mismatch"
      OBVIOUS
    <3>2. With(rec, rest) = [cmds |-> <<rec.args>> \o rest.cmds, throws |-> rest.throws]
      BY <2>2, <3>1, Zenon DEF With
    <3>3. rest.cmds = none /\ rest.throws = FALSE
      BY DEF none
    <3> QED BY <3>2, <3>3, Zenon
  <2> HIDE DEF cmds
  <2>5. CutCommand(cmds[1], words)
    BY <2>1, <2>3, Zenon
  <2> QED BY <2>3, <2>4, <2>5, Zenon DEF LastParsed
<1> QED
  BY <1>1, <1>2, <1>3, Zenon DEF CutRecord

LEMMA OneMoreParsed ==
  ASSUME NEW text, NEW cs, NEW w \in Nat, NEW i \in Nat, i + 1 <= w,
         NEW rest, Parsed(rest, text, cs, w, i + 1), WordsOf(cs[i + 1]) \in Arguments,
         NEW out, out = [cmds |-> <<WordsOf(cs[i + 1])>> \o rest.cmds, throws |-> rest.throws]
  PROVE  Parsed(out, text, cs, w, i)
<1> DEFINE words == WordsOf(cs[i + 1])
           one   == <<words>>
           d     == w - i
<1>1. PICK cmds, throws :
        /\ rest = [cmds |-> cmds, throws |-> throws] /\ cmds \in Seq(Arguments)
        /\ \/ throws = TRUE
           \/ /\ throws = FALSE
              /\ Len(cmds) = w - (i + 1)
                 \/ (Len(cmds) = (w - (i + 1)) + 1 /\ CutTail(cmds[(w - (i + 1)) + 1], text, cs, w))
              /\ \A j \in 1..(w - (i + 1)) : cmds[j] = WordsOf(cs[(i + 1) + j])
  BY Zenon DEF Parsed
<1>2. d \in Nat /\ d >= 1 /\ w - (i + 1) = d - 1 /\ (d - 1) + 1 = d
  OBVIOUS
<1> DEFINE more == one \o cmds
<1>3. one \in Seq(Arguments) /\ Len(one) = 1 /\ one[1] = words
  OBVIOUS
<1> HIDE DEF one, words
<1>4. /\ more \in Seq(Arguments) /\ Len(more) = 1 + Len(cmds) /\ Len(cmds) \in Nat
      /\ \A k \in 1..1 + Len(cmds) : more[k] = IF k <= 1 THEN one[k] ELSE cmds[k - 1]
  <2>1. /\ more \in Seq(Arguments) /\ Len(more) = Len(one) + Len(cmds)
        /\ \A k \in 1..Len(one) + Len(cmds) : more[k] = IF k <= Len(one) THEN one[k] ELSE cmds[k - Len(one)]
    BY <1>1, <1>3, ConcatProperties
  <2>2. Len(cmds) \in Nat
    BY <1>1, LenProperties
  <2> HIDE DEF more
  <2> QED BY <1>3, <2>1, <2>2, Zenon
<1>5. out = [cmds |-> more, throws |-> throws]
  <2>1. rest.cmds = cmds /\ rest.throws = throws
    BY <1>1
  <2> QED BY <2>1, Zenon DEF one, words
<1> HIDE DEF more, d
<1>6. CASE throws = TRUE
  BY <1>4, <1>5, <1>6, Zenon DEF Parsed
<1>7. CASE throws # TRUE
  <2>1. /\ throws = FALSE
        /\ Len(cmds) = d - 1 \/ (Len(cmds) = d /\ CutTail(cmds[d], text, cs, w))
        /\ \A j \in 1..(d - 1) : cmds[j] = WordsOf(cs[(i + 1) + j])
    BY <1>1, <1>2, <1>7, Zenon
  <2>2. Len(more) = d \/ (Len(more) = d + 1 /\ CutTail(more[d + 1], text, cs, w))
    <3>1. CASE Len(cmds) = d - 1
      BY <1>2, <1>4, <3>1
    <3>2. CASE Len(cmds) = d /\ CutTail(cmds[d], text, cs, w)
      <4>1. Len(more) = d + 1 /\ d + 1 \in 1..1 + Len(cmds) /\ ~(d + 1 <= 1) /\ (d + 1) - 1 = d
        BY <1>2, <1>4, <3>2
      <4>2. more[d + 1] = cmds[d]
        BY <1>4, <4>1, Zenon
      <4> QED BY <3>2, <4>1, <4>2
    <3> QED BY <2>1, <3>1, <3>2
  <2>3. \A j \in 1..d : more[j] = WordsOf(cs[i + j])
    <3> TAKE j \in 1..d
    <3>1. j \in 1..1 + Len(cmds)
      BY <1>2, <1>4, <2>1
    <3>2. CASE j = 1
      <4>1. more[1] = one[1]
        <5>1. 1 <= 1
          OBVIOUS
        <5> QED BY <1>4, <3>1, <3>2, <5>1, Zenon
      <4> QED BY <1>3, <3>2, <4>1, Zenon DEF words
    <3>3. CASE j # 1
      <4>1. ~(j <= 1) /\ j - 1 \in 1..(d - 1) /\ (i + 1) + (j - 1) = i + j
        BY <1>2, <3>3
      <4>2. more[j] = cmds[j - 1]
        BY <1>4, <3>1, <4>1, Zenon
      <4> QED BY <2>1, <4>1, <4>2, Zenon
    <3> QED BY <3>2, <3>3
  <2> QED BY <1>4, <1>5, <2>1, <2>2, <2>3, Zenon DEF Parsed, d
<1> QED
  BY <1>6, <1>7

LEMMA WordsAreArguments == ASSUME NEW words \in Seq(Word) PROVE words \in Arguments
<1>1. \A j \in 1..Len(words) : words[j] \in Seq(Padding)
  BY ElementOfSeq, WordIsCutWord
<1> QED
  BY <1>1, ElementOfSeq DEF Arguments

\* From a log that was cut, replayLog takes the whole records and at most one
\* command more, whose arguments are cut or blank.
LEMMA LogIsParsed ==
  ASSUME NEW text, NEW cs, NEW w, CutLog(text, cs, w), NEW junk, JunkOK(junk)
  PROVE  Parsed(Parse(text, junk), text, cs, w, 0)
<1> DEFINE n == Len(cs)
           N == Len(text)
           u(i) == Len(Written(cs, i))
<1>1. /\ cs \in Seq(Commands) /\ n \in Nat /\ N \in Nat /\ w \in Nat /\ w <= n
      /\ text \in Seq(Char)
  BY LenProperties DEF CutLog
<1>2. RecordsLie(cs, w)
  <2>1. w \in 0..n
    BY <1>1
  <2> QED BY <1>1, <2>1, LogIsLaid
<1>3. u(w) <= N /\ u(0) = 0 /\ u(w) \in Nat
  <2>1. w \in 0..w
    BY <1>1
  <2>2. u(w) \in Nat
    BY <1>2, <2>1, Zenon DEF RecordsLie
  <2>3. Len(<<>>) = 0
    OBVIOUS
  <2> QED BY <1>2, <2>2, <2>3, Zenon DEF CutLog, RecordsLie
<1>4. PICK from : ParsedBy(text, junk, from)
  BY <1>1, ParseUnfolds
<1>5. \A p \in 1..(N + 1) : from[p] = From(text, junk, from, p)
  BY <1>4, Zenon DEF ParsedBy
<1>6. from[N + 1] = [cmds |-> <<>>, throws |-> FALSE]
  <2>1. N + 1 \in 1..(N + 1)
    BY <1>1
  <2> QED BY <1>5, <2>1, Zenon DEF From
<1> DEFINE T == {d \in Nat : d <= w => Parsed(from[u(w - d) + 1], text, cs, w, w - d)}
<1> HIDE DEF u, N, n
<1>7. Parsed(from[u(w) + 1], text, cs, w, w)
  <2>0. w - w = 0 /\ 1..0 = {}
    BY <1>1
  <2>1. CASE u(w) = N
    <3> DEFINE none == <<>>
    <3>1. none \in Seq(Arguments) /\ Len(none) = 0
      BY EmptySeq
    <3>2. from[u(w) + 1] = [cmds |-> none, throws |-> FALSE]
      BY <1>6, <2>1, Zenon
    <3> HIDE DEF none
    <3>3. \A j \in 1..(w - w) : none[j] = WordsOf(cs[w + j])
      BY <2>0, Zenon
    <3> QED BY <2>0, <3>1, <3>2, <3>3, Zenon DEF Parsed
  <2>2. CASE u(w) # N
    <3>1. u(w) < N
      BY <1>1, <1>3, <2>2
    <3>2. w + 1 \in 1..n
      <4>1. CASE w = n
        <5>1. N <= u(w)
          BY <4>1, Zenon DEF CutLog, N, u, n
        <5> QED BY <1>1, <1>3, <3>1, <5>1
      <4>2. CASE w # n
        BY <1>1, <4>2
      <4> QED BY <4>1, <4>2
    <3> DEFINE p == u(w) + 1
               words == WordsOf(cs[w + 1])
               r == array_to_resp(words)
               rec == ParseRecord(text, p + 1, junk)
    <3>3. /\ p \in Nat /\ p >= 1 /\ p <= N /\ text[p] = "*"
          /\ Lies(text, p, r) /\ Len(r) \in Nat /\ u(w + 1) + 1 = p + Len(r)
          /\ words \in Seq(Word) /\ Len(words) \in 1..9
      <4>1. Len(Written(cs, w)) < Len(text) /\ w + 1 \in 1..Len(cs)
        BY <3>1, <3>2 DEF u, N, n
      <4> QED BY <1>1, <4>1, RecordLies DEF u, N
    <3>4. ~(p + Len(r) <= N + 1)
      <4>1. N < u(w + 1)
        <5>1. w < n
          BY <1>1, <3>2
        <5> QED BY <5>1, Zenon DEF CutLog, N, u, n
      <4> DEFINE x == u(w + 1)
      <4>2. x + 1 = p + Len(r) /\ N < x
        BY <3>3, <4>1
      <4> HIDE DEF x, r, p
      <4>3. p + Len(r) \in Nat
        BY <3>3
      <4>4. x \in Nat
        <5>1. RecordsLie(cs, n) /\ w + 1 \in 0..n
          <6>1. n \in 0..n /\ w + 1 \in 0..n
            BY <1>1, <3>2
          <6> QED BY <1>1, <6>1, LogIsLaid DEF n
        <5> QED BY <5>1, Zenon DEF RecordsLie, x, u
      <4> QED BY <1>1, <4>2, <4>3, <4>4
    <3> HIDE DEF words, p
    <3>5. CutRecord(rec, words)
      BY <1>1, <3>3, <3>4, RecordIsRead DEF N
    <3>6. rec.good = FALSE \/ rec.end = "throws"
      <4>1. \A args, pos : Turned(args, pos, FALSE).good = FALSE
        BY DEF Turned
      <4> HIDE DEF rec
      <4> QED BY <3>5, <4>1, Zenon DEF CutRecord
    <3> HIDE DEF rec
    <3>7. from[p] = With(rec, from[Rest(text, junk, p)])
      <4>1. p \in 1..(N + 1) /\ p # N + 1
        BY <1>1, <3>3
      <4> QED BY <1>5, <3>3, <4>1, Zenon DEF From, N, rec
    <3>8. \E out : out = [cmds |-> <<>>, throws |-> FALSE] /\ from[p] = With(rec, out)
      <4>1. CASE rec.good = FALSE
        <5>1. Rest(text, junk, p) = N + 1
          BY <4>1, Zenon DEF Rest, rec, N
        <5> QED BY <1>6, <3>7, <5>1, Zenon
      <4>2. CASE rec.end = "throws"
        <5>1. \A out : With(rec, out) = [cmds |-> <<>>, throws |-> TRUE]
          BY <4>2, Zenon DEF With
        <5> DEFINE e == [cmds |-> <<>>, throws |-> FALSE]
        <5>2. With(rec, e) = from[p]
          <6> HIDE DEF e
          <6> QED BY <3>7, <5>1, Zenon
        <5>3. e = [cmds |-> <<>>, throws |-> FALSE]
          OBVIOUS
        <5> HIDE DEF e
        <5> QED BY <5>2, <5>3
      <4> QED BY <3>6, <4>1, <4>2
    <3>9. PICK cmds, throws :
            /\ from[p] = [cmds |-> cmds, throws |-> throws] /\ cmds \in Seq(Arguments)
            /\ \/ throws = TRUE
               \/ throws = FALSE /\ (Len(cmds) = 0 \/ (Len(cmds) = 1 /\ CutCommand(cmds[1], words)))
      <4>1. PICK out : out = [cmds |-> <<>>, throws |-> FALSE] /\ from[p] = With(rec, out)
        BY <3>8
      <4>2. LastParsed(With(rec, out), words)
        BY <3>5, <4>1, LastIsParsed
      <4> QED BY <4>1, <4>2, Zenon DEF LastParsed
    <3>10. (w - w) + 1 = 1
      BY <2>0
    <3>11. Len(cmds) = 1 /\ CutCommand(cmds[1], words) => CutTail(cmds[1], text, cs, w)
      BY <3>1, <3>2, Zenon DEF CutTail, words, u, N, n
    <3>12. \A j \in 1..(w - w) : cmds[j] = WordsOf(cs[w + j])
      BY <2>0, Zenon
    <3>13. Parsed(from[p], text, cs, w, w)
      BY <2>0, <3>9, <3>10, <3>11, <3>12, Zenon DEF Parsed
    <3> QED BY <3>13 DEF p
  <2> QED BY <2>1, <2>2
<1>8. 0 \in T
  <2>1. w - 0 = w
    BY <1>1
  <2> QED BY <1>7, <2>1
<1>9. ASSUME NEW d \in T PROVE d + 1 \in T
  <2> SUFFICES ASSUME d + 1 <= w PROVE Parsed(from[u(w - (d + 1)) + 1], text, cs, w, w - (d + 1))
    OBVIOUS
  <2> DEFINE i == w - (d + 1)
  <2>1. i \in Nat /\ w - d = i + 1 /\ d <= w /\ i + 1 <= w /\ i \in 0..w /\ i \in 0..(w - 1)
        /\ i + 1 \in 0..w /\ i + 1 \in 1..n
    BY <1>1
  <2>2. Parsed(from[u(i + 1) + 1], text, cs, w, i + 1)
    BY <2>1
  <2> HIDE DEF T, i
  <2> DEFINE p == u(i) + 1
             words == WordsOf(cs[i + 1])
             r == array_to_resp(words)
             rec == ParseRecord(text, p + 1, junk)
  <2>3. u(i) \in Nat /\ u(i + 1) \in Nat /\ u(i + 1) <= N /\ u(i) < u(i + 1)
    <3>1. u(i) \in Nat /\ u(i + 1) \in Nat /\ u(i + 1) <= u(w)
      BY <1>2, <2>1, Zenon DEF RecordsLie, u
    <3>2. u(i + 1) = u(i) + Len(serializeToRESP(cs[i + 1]))
      BY <1>2, <2>1, Zenon DEF RecordsLie, u
    <3>3. Len(serializeToRESP(cs[i + 1])) \in Nat /\ Len(serializeToRESP(cs[i + 1])) >= 4
      <4>1. cs[i + 1] \in Commands
        BY <1>1, <2>1, ElementOfSeq DEF n
      <4> QED BY <4>1, CommandIsWritten
    <3> DEFINE l == Len(serializeToRESP(cs[i + 1]))
               x == u(i)
               y == u(i + 1)
               z == u(w)
    <3>4. x \in Nat /\ y \in Nat /\ y <= z /\ y = x + l /\ l \in Nat /\ l >= 4 /\ z \in Nat /\ z <= N
      BY <1>3, <3>1, <3>2, <3>3, Zenon
    <3> HIDE DEF l, x, y, z
    <3>5. y <= N /\ x < y
      BY <1>1, <3>4
    <3> QED BY <3>1, <3>5, Zenon DEF x, y
  <2>4. /\ p \in Nat /\ p >= 1 /\ p <= N /\ text[p] = "*"
        /\ Lies(text, p, r) /\ Len(r) \in Nat /\ u(i + 1) + 1 = p + Len(r)
        /\ words \in Seq(Word) /\ Len(words) \in 1..9
    <3>1. Len(Written(cs, i)) < Len(text) /\ i + 1 \in 1..Len(cs)
      <4>1. u(i) < N
        <5> DEFINE x == u(i)
                   y == u(i + 1)
        <5>1. x \in Nat /\ y \in Nat /\ y <= N /\ x < y
          BY <2>3
        <5> HIDE DEF x, y
        <5>2. x < N
          BY <1>1, <5>1
        <5> QED BY <5>2 DEF x
      <4> QED BY <2>1, <4>1 DEF u, N, n
    <3> QED BY <1>1, <2>1, <3>1, RecordLies DEF u, N
  <2>5. p + Len(r) <= N + 1
    <3>1. u(i + 1) + 1 <= N + 1
      BY <1>1, <2>3
    <3> QED BY <2>4, <3>1, Zenon
  <2> HIDE DEF words, p
  <2>6. rec = Turned(words, p + Len(r), TRUE)
    BY <1>1, <2>4, <2>5, RecordIsRead DEF N
  <2>7. rec.good = TRUE /\ rec.pos = p + Len(r) /\ rec.end = "none" /\ rec.args = words
    <3> HIDE DEF rec, r
    <3> QED BY <2>6 DEF Turned
  <2> HIDE DEF rec, r
  <2> DEFINE rest == from[u(i + 1) + 1]
  <2>8. from[p] = With(rec, rest)
    <3>1. p \in 1..(N + 1) /\ p # N + 1
      BY <1>1, <2>4
    <3>2. Rest(text, junk, p) = p + Len(r)
      BY <2>7, Zenon DEF Rest, rec
    <3> QED BY <1>5, <2>4, <3>1, <3>2, Zenon DEF From, N, rec
  <2>9. from[p] = [cmds |-> <<words>> \o rest.cmds, throws |-> rest.throws]
    <3>1. "none" # "throws" /\ "none" # "mismatch"
      OBVIOUS
    <3> HIDE DEF rest
    <3> QED BY <2>7, <2>8, <3>1, Zenon DEF With
  <2>10. words \in Arguments
    BY <2>4, WordsAreArguments
  <2>11. Parsed(from[p], text, cs, w, i)
    <3> HIDE DEF rest
    <3>1. Parsed(rest, text, cs, w, i + 1)
      BY <2>2 DEF rest
    <3> QED BY <1>1, <2>1, <2>9, <2>10, <3>1, OneMoreParsed, Zenon DEF words
  <2> QED BY <2>11 DEF p, i
<1> HIDE DEF T
<1>10. T = Nat
  <2>1. T \in SUBSET Nat
    BY DEF T
  <2> QED BY <1>8, <1>9, <2>1, NatSetInduction
<1>11. Parsed(from[u(w - w) + 1], text, cs, w, w - w)
  <2>1. w <= w
    BY <1>1
  <2> QED BY <1>1, <1>10, <2>1 DEF T
<1>12. w - w = 0 /\ 0 + 1 = 1
  BY <1>1
<1> QED
  BY <1>3, <1>4, <1>11, <1>12, Zenon DEF ParsedBy

-----------------------------------------------------------------------------
(* What the argument lists make of the map *)

\* One step of a replay, of argument lists or of commands.
Effect(how, map, x) == IF how = "replayed" THEN Replayed(map, x) ELSE Executed(map, x)

\* iter holds the fold over every set of positions up to n.
FoldOn(how, seq, n, iter) ==
  iter = [s \in SUBSET (1..n) |->
            IF s = {} THEN NoKeys ELSE Effect(how, iter[s \ {Max(s)}], seq[Max(s)])]

LEMMA LargestIs ==
  ASSUME NEW n \in Nat, NEW s \in SUBSET (1..n + 1), n + 1 \in s
  PROVE  Max(s) = n + 1
<1> DEFINE m == Max(s)
<1>1. n + 1 \in s /\ \A y \in s : y \in Nat /\ n + 1 >= y
  OBVIOUS
<1>2. Max(s) \in s /\ \A y \in s : Max(s) >= y
  BY <1>1, Zenon DEF Max
<1> HIDE DEF m
<1>3. m \in Nat /\ m >= n + 1 /\ n + 1 >= m
  BY <1>1, <1>2 DEF m
<1> QED
  BY <1>3 DEF m

LEMMA FoldExists ==
  ASSUME NEW how, NEW seq
  PROVE  \A n \in Nat : \E iter : FoldOn(how, seq, n, iter)
<1> DEFINE T == {n \in Nat : \E iter : FoldOn(how, seq, n, iter)}
<1>1. 0 \in T
  <2>1. SUBSET (1..0) = {{}}
    OBVIOUS
  <2>2. FoldOn(how, seq, 0, [s \in {{}} |-> NoKeys])
    BY <2>1 DEF FoldOn
  <2> QED BY <2>2
<1>2. ASSUME NEW n \in T PROVE n + 1 \in T
  <2>1. PICK g : FoldOn(how, seq, n, g)
    OBVIOUS
  <2> DEFINE P == SUBSET (1..n + 1)
             h == [s \in P |-> IF n + 1 \in s THEN Effect(how, g[s \ {n + 1}], seq[n + 1])
                               ELSE g[s]]
             Body(s) == IF s = {} THEN NoKeys
                        ELSE Effect(how, h[s \ {Max(s)}], seq[Max(s)])
  <2>2. n \in Nat /\ n + 1 \in Nat
    OBVIOUS
  <2>3. ASSUME NEW s \in P, n + 1 \in s PROVE h[s] = Body(s)
    <3>1. Max(s) = n + 1 /\ s # {}
      BY <2>2, <2>3, LargestIs
    <3>2. s \ {n + 1} \in P /\ n + 1 \notin s \ {n + 1}
      OBVIOUS
    <3>3. h[s \ {n + 1}] = g[s \ {n + 1}]
      BY <3>2
    <3>4. h[s] = Effect(how, g[s \ {n + 1}], seq[n + 1])
      BY <2>3
    <3> HIDE DEF h, P
    <3> QED BY <3>1, <3>3, <3>4
  <2>4. ASSUME NEW s \in P, n + 1 \notin s PROVE h[s] = Body(s)
    <3>1. s \in SUBSET (1..n)
      BY <2>2, <2>4
    <3>2. g[s] = IF s = {} THEN NoKeys ELSE Effect(how, g[s \ {Max(s)}], seq[Max(s)])
      BY <2>1, <3>1 DEF FoldOn
    <3>3. s \ {Max(s)} \in P /\ n + 1 \notin s \ {Max(s)}
      BY <2>4
    <3>4. h[s \ {Max(s)}] = g[s \ {Max(s)}] /\ h[s] = g[s]
      BY <2>4, <3>3
    <3> HIDE DEF h, P
    <3> QED BY <3>2, <3>4
  <2>5. h = [s \in P |-> Body(s)]
    <3>1. h = [s \in P |-> h[s]]
      OBVIOUS
    <3> HIDE DEF h, Body, P
    <3> QED BY <2>3, <2>4, <3>1, Zenon
  <2>6. FoldOn(how, seq, n + 1, h)
    <3> HIDE DEF h
    <3> QED BY <2>5, Zenon DEF FoldOn
  <2> QED BY <2>2, <2>6
<1> HIDE DEF T
<1>3. T = Nat
  <2>1. T \in SUBSET Nat
    BY DEF T
  <2> QED BY <1>1, <1>2, <2>1, NatSetInduction
<1> QED
  BY <1>3 DEF T

\* The fold over the first m positions, one m at a time.
FoldSteps(how, seq, n, iter) ==
  /\ iter[1..0] = NoKeys
  /\ \A m \in 0..n - 1 : iter[1..(m + 1)] = Effect(how, iter[1..m], seq[m + 1])

LEMMA FoldStep ==
  ASSUME NEW how, NEW seq, NEW n \in Nat, NEW iter, FoldOn(how, seq, n, iter)
  PROVE  FoldSteps(how, seq, n, iter)
<1>1. iter[1..0] = NoKeys
  <2>1. {} \in SUBSET (1..n) /\ 1..0 = {}
    OBVIOUS
  <2>2. iter[{}] = NoKeys
    BY <2>1 DEF FoldOn
  <2> QED BY <2>1, <2>2
<1>2. ASSUME NEW m \in 0..n - 1
      PROVE  iter[1..(m + 1)] = Effect(how, iter[1..m], seq[m + 1])
  <2> DEFINE s == 1..(m + 1)
  <2>1. s \in SUBSET (1..n) /\ s # {} /\ m \in Nat /\ m + 1 \in s /\ s \ {m + 1} = 1..m
    OBVIOUS
  <2>2. Max(s) = m + 1
    BY <2>1, LargestIs
  <2> HIDE DEF s
  <2>3. iter[s] = Effect(how, iter[s \ {Max(s)}], seq[Max(s)])
    BY <2>1 DEF FoldOn
  <2>4. iter[s] = Effect(how, iter[1..m], seq[m + 1])
    BY <2>1, <2>2, <2>3
  <2> QED BY <2>4 DEF s
<1> QED
  BY <1>1, <1>2, Zenon DEF FoldSteps

LEMMA ReplayedIsFold ==
  ASSUME NEW S, NEW seq \in Seq(S)
  PROVE  \E iter : FoldOn("replayed", seq, Len(seq), iter) /\ FoldLeft(Replayed, NoKeys, seq) = iter[1..Len(seq)]
<1> DEFINE g == CHOOSE iter : FoldOn("replayed", seq, Len(seq), iter)
<1>1. Len(seq) \in Nat /\ DOMAIN seq = 1..Len(seq)
  BY LenProperties
<1>2. FoldLeft(Replayed, NoKeys, seq) =
        (CHOOSE iter : iter = [s \in SUBSET DOMAIN seq |->
           IF s = {} THEN NoKeys
           ELSE Replayed(iter[s \ {Max(s)}], seq[Max(s)])])[DOMAIN seq]
  BY DEF FoldLeft, MapThenFoldSet
<1>3. \A map, x : Effect("replayed", map, x) = Replayed(map, x)
  BY DEF Effect
<1>4. FoldLeft(Replayed, NoKeys, seq) = g[1..Len(seq)]
  BY <1>1, <1>2 DEF FoldOn, Effect
<1>5. \E iter : FoldOn("replayed", seq, Len(seq), iter)
  BY <1>1, FoldExists
<1>6. FoldOn("replayed", seq, Len(seq), g)
  BY <1>5
<1> HIDE DEF g
<1> QED
  BY <1>4, <1>6

LEMMA ExecutedIsFold ==
  ASSUME NEW S, NEW seq \in Seq(S)
  PROVE  \E iter : FoldOn("executed", seq, Len(seq), iter) /\ FoldLeft(Executed, NoKeys, seq) = iter[1..Len(seq)]
<1> DEFINE g == CHOOSE iter : FoldOn("executed", seq, Len(seq), iter)
<1>1. Len(seq) \in Nat /\ DOMAIN seq = 1..Len(seq)
  BY LenProperties
<1>2. FoldLeft(Executed, NoKeys, seq) =
        (CHOOSE iter : iter = [s \in SUBSET DOMAIN seq |->
           IF s = {} THEN NoKeys
           ELSE Executed(iter[s \ {Max(s)}], seq[Max(s)])])[DOMAIN seq]
  BY DEF FoldLeft, MapThenFoldSet
<1>4. FoldLeft(Executed, NoKeys, seq) = g[1..Len(seq)]
  BY <1>1, <1>2 DEF FoldOn, Effect
<1>5. \E iter : FoldOn("executed", seq, Len(seq), iter)
  BY <1>1, FoldExists
<1>6. FoldOn("executed", seq, Len(seq), g)
  BY <1>5
<1> HIDE DEF g
<1> QED
  BY <1>4, <1>6

\* Replaying a whole record does what executing its command did.
LEMMA WholeIsExecuted ==
  ASSUME RestorableCommands, NEW c \in Commands, NEW map
  PROVE  Replayed(map, WordsOf(c)) = Executed(map, c)
<1> DEFINE args == WordsOf(c)
<1>1. /\ Len(c) \in 1..9 /\ Len(args) = Len(c)
      /\ \A i \in 1..Len(c) : args[i] = Bytes[c[i]]
  BY CommandIsWritten
<1> HIDE DEF args
<1>2. args # <<>>
  <2>1. Len(<<>>) = 0
    OBVIOUS
  <2> QED BY <1>1, <2>1
<1>3. args[1] = Bytes[c[1]]
  BY <1>1
<1>4. (Bytes[c[1]] = Bytes["SET"] <=> c[1] = "SET") /\ Bytes[c[1]] # Bytes["DEL"]
  BY DEF RestorableCommands
<1>5. CASE c[1] = "SET"
  <2>1. Len(c) >= 3
    BY <1>5, RecoveryAssumption, Zenon
  <2>2. args[2] = Bytes[c[2]] /\ args[3] = Bytes[c[3]]
    BY <1>1, <2>1
  <2>3. Replayed(map, args) = Put(map, args[2], args[3])
    BY <1>1, <1>2, <1>3, <1>5, <2>1, Zenon DEF Replayed
  <2>4. Executed(map, c) = Put(map, Bytes[c[2]], Bytes[c[3]])
    BY <1>5, Zenon DEF Executed
  <2> QED BY <2>2, <2>3, <2>4 DEF args
<1>6. CASE c[1] # "SET"
  <2>1. Replayed(map, args) = map
    BY <1>2, <1>3, <1>4, <1>6, Zenon DEF Replayed
  <2>2. Executed(map, c) = map
    BY <1>6, Zenon DEF Executed
  <2> QED BY <2>1, <2>2 DEF args
<1> QED
  BY <1>5, <1>6

\* Replaying whole records does what executing their commands did.
LEMMA WholeRecordsExecuted ==
  ASSUME RestorableCommands, NEW cs \in Seq(Commands), NEW w \in 0..Len(cs),
         NEW cmds, NEW m \in Nat, w <= m, \A j \in 1..w : cmds[j] = WordsOf(cs[j]),
         NEW g, FoldOn("replayed", cmds, m, g)
  PROVE  g[1..w] = FoldLeft(Executed, NoKeys, SubSeq(cs, 1, w))
<1> DEFINE kept0 == SubSeq(cs, 1, w)
<1>1. Len(cs) \in Nat /\ w \in Nat /\ w <= Len(cs)
  BY LenProperties
<1>2. kept0 \in Seq(Commands) /\ Len(kept0) = w /\ \A i \in 1..w : kept0[i] = cs[i]
  <2>1. \A i \in 1..w : cs[i] \in Commands
    BY <1>1, ElementOfSeq
  <2>2. 1 \in Int /\ w \in Int
    BY <1>1
  <2>3. /\ SubSeq(cs, 1, w) \in Seq(Commands)
        /\ Len(SubSeq(cs, 1, w)) = IF 1 <= w THEN w - 1 + 1 ELSE 0
        /\ \A i \in 1..w - 1 + 1 : SubSeq(cs, 1, w)[i] = cs[1 + i - 1]
    BY <2>1, <2>2, SubSeqProperties
  <2>4. w - 1 + 1 = w /\ \A i \in 1..w : 1 + i - 1 = i
    BY <1>1
  <2> HIDE DEF kept0
  <2>5. (IF 1 <= w THEN w - 1 + 1 ELSE 0) = w
    BY <1>1
  <2> QED BY <2>3, <2>4, <2>5, Zenon DEF kept0
<1> HIDE DEF kept0
<1>3. PICK h : FoldOn("executed", kept0, w, h) /\ FoldLeft(Executed, NoKeys, kept0) = h[1..w]
  BY <1>2, ExecutedIsFold
<1>4. FoldSteps("replayed", cmds, m, g)
  BY FoldStep
<1>5. FoldSteps("executed", kept0, w, h)
  BY <1>1, <1>3, FoldStep
<1> DEFINE T == {i \in Nat : i <= w => g[1..i] = h[1..i]}
<1>6. 0 \in T
  BY <1>4, <1>5 DEF FoldSteps
<1>7. ASSUME NEW i \in T PROVE i + 1 \in T
  <2> SUFFICES ASSUME i + 1 <= w PROVE g[1..(i + 1)] = h[1..(i + 1)]
    OBVIOUS
  <2>1. i \in 0..m - 1 /\ i \in 0..w - 1 /\ i + 1 \in 1..w /\ i <= w
    BY <1>1
  <2>2. g[1..i] = h[1..i]
    BY <2>1
  <2>3. cmds[i + 1] = WordsOf(cs[i + 1]) /\ kept0[i + 1] = cs[i + 1]
    BY <1>2, <2>1
  <2>4. cs[i + 1] \in Commands
    BY <1>1, <2>1, ElementOfSeq
  <2> DEFINE map == g[1..i]
  <2> HIDE DEF T, map
  <2>5. Replayed(map, WordsOf(cs[i + 1])) = Executed(map, cs[i + 1])
    BY <2>4, WholeIsExecuted
  <2>6. g[1..(i + 1)] = Replayed(map, WordsOf(cs[i + 1]))
    BY <1>4, <2>1, <2>3, Zenon DEF FoldSteps, Effect, map
  <2>7. h[1..(i + 1)] = Executed(map, cs[i + 1])
    BY <1>5, <2>1, <2>2, <2>3, Zenon DEF FoldSteps, Effect, map
  <2> QED BY <2>5, <2>6, <2>7
<1> HIDE DEF T
<1>8. T = Nat
  <2>1. T \in SUBSET Nat
    BY DEF T
  <2> QED BY <1>6, <1>7, <2>1, NatSetInduction
<1>9. g[1..w] = h[1..w]
  BY <1>1, <1>8 DEF T
<1> QED
  BY <1>3, <1>9 DEF kept0

\* A cut word with a last character that is no space is the word.
LEMMA EntireIsWord ==
  ASSUME NEW args, NEW words, CutCommand(args, words), NEW j \in 1..Len(args), Entire(args[j])
  PROVE  j <= Len(words) /\ args[j] = words[j]
<1>1. ~CutWord(args[j], <<>>) \/ args[j] = <<>> \/ args[j][Len(args[j])] = Blank
  BY Zenon DEF CutWord
<1>2. args[j] # <<>> /\ args[j][Len(args[j])] # Blank
  BY Zenon DEF Entire, Blank
<1>3. ~CutWord(args[j], <<>>)
  BY <1>1, <1>2
<1>4. j <= Len(words) /\ CutWord(args[j], words[j])
  BY <1>3, Zenon DEF CutCommand
<1> QED
  BY <1>2, <1>4, Zenon DEF CutWord

LEMMA LookupPut ==
  ASSUME NEW map, NEW key, NEW value, NEW k
  PROVE  Lookup(Put(map, key, value), k) = IF k = key THEN <<value>> ELSE Lookup(map, k)
BY DEF Lookup, Put

\* What a cut value may be read as, is a cut value.
LEMMA CutWordIsShort ==
  ASSUME NEW v, NEW word, CutWord(v, word) \/ CutWord(v, <<>>)
  PROVE  CutShort(<<v>>, word)
<1>1. v \in Seq(Padding)
  BY DEF CutWord
<1>2. DOMAIN v = 1..Len(v) /\ Len(v) \in Nat
  BY <1>1, LenProperties
<1>3. \A i \in 1..Len(v) : v[i] = " " \/ (i <= Len(word) /\ v[i] = word[i])
  <2>1. CASE CutWord(v, word)
    BY <2>1, Zenon DEF CutWord, Blank
  <2>2. CASE CutWord(v, <<>>)
    <3>1. \A i \in 1..Len(v) : ~(i <= Len(<<>>))
      BY <1>2
    <3>2. \A i \in 1..Len(v) : v[i] = Blank \/ (i <= Len(<<>>) /\ v[i] = <<>>[i])
      BY <2>2, Zenon DEF CutWord
    <3> QED BY <3>1, <3>2, Zenon DEF Blank
  <2> QED BY <2>1, <2>2
<1> DEFINE found == <<v>>
<1>4. found # <<>> /\ found[1] = v
  OBVIOUS
<1> HIDE DEF found
<1> QED
  BY <1>2, <1>3, <1>4, Zenon DEF CutShort, found

\* A cut record leaves every key as it was, but for the key of its command,
\* which may get a cut value.
LEMMA CutIsReplayed ==
  ASSUME RestorableCommands, NEW c \in Commands, NEW args, CutCommand(args, WordsOf(c)),
         NEW map, NEW k \in KeysUsed
  PROVE  \/ Lookup(Replayed(map, args), k) = Lookup(map, k)
         \/ /\ Bytes[c[2]] = k
            /\ CutShort(Lookup(Replayed(map, args), k), Bytes[c[3]])
<1> DEFINE words == WordsOf(c)
<1>1. /\ Len(c) \in 1..9 /\ Len(words) = Len(c)
      /\ \A i \in 1..Len(c) : words[i] = Bytes[c[i]]
  BY CommandIsWritten
<1>2. Entire(Bytes["SET"]) /\ Entire(Bytes["DEL"]) /\ Entire(k)
      /\ (Bytes[c[1]] = Bytes["SET"] <=> c[1] = "SET") /\ Bytes[c[1]] # Bytes["DEL"]
  BY Zenon DEF RestorableCommands
<1>3. CutCommand(args, words) /\ args \in Seq(Seq(Padding)) /\ Len(args) \in Nat
  BY LenProperties DEF CutCommand
<1> HIDE DEF words
<1>4. ASSUME args # <<>>, Entire(args[1]) PROVE args[1] = Bytes[c[1]]
  <2>1. 1 \in 1..Len(args)
    BY <1>3, <1>4, EmptySeq
  <2>2. args[1] = words[1]
    BY <1>3, <1>4, <2>1, EntireIsWord
  <2>3. 1 \in 1..Len(c)
    BY <1>1
  <2> QED BY <1>1, <2>2, <2>3, Zenon
<1>5. CASE args = <<>>
  BY <1>5, Zenon DEF Replayed
<1>6. CASE args # <<>> /\ args[1] = Bytes["SET"] /\ Len(args) >= 3
  <2>1. c[1] = "SET"
    BY <1>2, <1>4, <1>6
  <2>2. Len(c) >= 3
    BY <2>1, RecoveryAssumption, Zenon
  <2>3. Replayed(map, args) = Put(map, args[2], args[3])
    BY <1>6, Zenon DEF Replayed
  <2>p. Lookup(Replayed(map, args), k) = IF k = args[2] THEN <<args[3]>> ELSE Lookup(map, k)
    <3> DEFINE a == args[2]
               b == args[3]
    <3> HIDE DEF a, b
    <3>1. Lookup(Put(map, a, b), k) = IF k = a THEN <<b>> ELSE Lookup(map, k)
      BY LookupPut
    <3> QED BY <2>3, <3>1, Zenon DEF a, b
  <2>4. CASE k # args[2]
    BY <2>p, <2>4, Zenon
  <2>5. CASE k = args[2]
    <3>1. 2 \in 1..Len(args) /\ 3 \in 1..Len(args) /\ 2 \in 1..Len(c) /\ 3 \in 1..Len(c)
      BY <1>1, <1>3, <1>6, <2>2
    <3>2. args[2] = words[2]
      BY <1>2, <1>3, <2>5, <3>1, EntireIsWord
    <3>3. words[2] = Bytes[c[2]] /\ words[3] = Bytes[c[3]]
      BY <1>1, <3>1, Zenon
    <3>4. CutWord(args[3], words[3]) \/ CutWord(args[3], <<>>)
      BY <1>3, <3>1, Zenon DEF CutCommand
    <3>5. CutShort(<<args[3]>>, Bytes[c[3]])
      BY <3>3, <3>4, CutWordIsShort, Zenon
    <3>6. Lookup(Replayed(map, args), k) = <<args[3]>>
      BY <2>p, <2>5, Zenon
    <3> QED BY <2>5, <3>2, <3>3, <3>5, <3>6, Zenon
  <2> QED BY <2>4, <2>5
<1>7. CASE args # <<>> /\ ~(args[1] = Bytes["SET"] /\ Len(args) >= 3)
  <2>1. args[1] # Bytes["DEL"]
    BY <1>2, <1>4, <1>7
  <2>2. Replayed(map, args) = map
    BY <1>7, <2>1, Zenon DEF Replayed
  <2> QED BY <2>2
<1> QED
  BY <1>5, <1>6, <1>7

\* The commands of which the file has a part.
TornOf(text, cs, w) == IF Len(Written(cs, w)) < Len(text) THEN {cs[w + 1]} ELSE {}

\* What RestoresMemory says of a key.
RestoredKey(map, whole, parts, k) ==
  \/ Lookup(map, k) = Lookup(FoldLeft(Executed, NoKeys, whole), k)
  \/ \E c \in parts : Bytes[c[2]] = k /\ CutShort(Lookup(map, k), Bytes[c[3]])

\* Replaying a log that was cut restores the memory.
LEMMA ReplayRestores ==
  ASSUME RestorableCommands, NEW text, NEW cs, NEW w, CutLog(text, cs, w),
         NEW junk, JunkOK(junk), ~Parse(text, junk).throws, NEW k \in KeysUsed
  PROVE  RestoredKey(Replay(text, junk), SubSeq(cs, 1, w), TornOf(text, cs, w), k)
<1>1. cs \in Seq(Commands) /\ Len(cs) \in Nat /\ w \in 0..Len(cs) /\ w \in Nat
  BY LenProperties DEF CutLog
<1>2. Parsed(Parse(text, junk), text, cs, w, 0)
  BY LogIsParsed
<1>3. w - 0 = w /\ \A j \in 1..w : 0 + j = j
  BY <1>1
<1>4. PICK cmds, throws :
        /\ Parse(text, junk) = [cmds |-> cmds, throws |-> throws] /\ cmds \in Seq(Arguments)
        /\ \/ throws = TRUE
           \/ /\ throws = FALSE
              /\ Len(cmds) = w \/ (Len(cmds) = w + 1 /\ CutTail(cmds[w + 1], text, cs, w))
              /\ \A j \in 1..w : cmds[j] = WordsOf(cs[j])
  <2>1. PICK cmds, throws :
        /\ Parse(text, junk) = [cmds |-> cmds, throws |-> throws] /\ cmds \in Seq(Arguments)
        /\ \/ throws = TRUE
           \/ /\ throws = FALSE
              /\ Len(cmds) = w - 0 \/ (Len(cmds) = (w - 0) + 1 /\ CutTail(cmds[(w - 0) + 1], text, cs, w))
              /\ \A j \in 1..(w - 0) : cmds[j] = WordsOf(cs[0 + j])
    BY <1>2, Zenon DEF Parsed
  <2>2. (\A j \in 1..(w - 0) : cmds[j] = WordsOf(cs[0 + j])) => \A j \in 1..w : cmds[j] = WordsOf(cs[j])
    BY <1>3, Zenon
  <2> QED BY <1>3, <2>1, <2>2, Zenon
<1>5. Parse(text, junk).throws = throws /\ Parse(text, junk).cmds = cmds
  <2> DEFINE out == Parse(text, junk)
  <2>1. out = [cmds |-> cmds, throws |-> throws]
    BY <1>4
  <2> HIDE DEF out
  <2>2. out.throws = throws /\ out.cmds = cmds
    BY <2>1
  <2> QED BY <2>2 DEF out
<1>6. /\ Len(cmds) = w \/ (Len(cmds) = w + 1 /\ CutTail(cmds[w + 1], text, cs, w))
      /\ \A j \in 1..w : cmds[j] = WordsOf(cs[j])
  <2>1. ~throws
    BY <1>5, Zenon
  <2> QED BY <1>4, <2>1, Zenon
<1>7. Replay(text, junk) = FoldLeft(Replayed, NoKeys, cmds)
  BY <1>5, Zenon DEF Replay
<1>8. PICK g : FoldOn("replayed", cmds, Len(cmds), g) /\ FoldLeft(Replayed, NoKeys, cmds) = g[1..Len(cmds)]
  BY <1>4, ReplayedIsFold
<1> DEFINE m == Len(cmds)
           whole == SubSeq(cs, 1, w)
           base == FoldLeft(Executed, NoKeys, whole)
           map == Replay(text, junk)
<1>9. m \in Nat /\ w <= m
  <2>1. m \in Nat
    BY <1>4, LenProperties
  <2>2. m = w \/ m = w + 1
    BY <1>6, Zenon
  <2> HIDE DEF m
  <2> QED BY <1>1, <2>1, <2>2
<1> HIDE DEF m
<1>10. g[1..w] = base
  <2>1. FoldOn("replayed", cmds, m, g)
    BY <1>8 DEF m
  <2> HIDE DEF base, whole
  <2>2. g[1..w] = FoldLeft(Executed, NoKeys, SubSeq(cs, 1, w))
    BY <1>1, <1>6, <1>9, <2>1, WholeRecordsExecuted
  <2> QED BY <2>2, Zenon DEF base, whole
<1>11. map = g[1..m]
  BY <1>7, <1>8, Zenon DEF m
<1> HIDE DEF map, base
<1>12. CASE m = w
  <2>1. map = base
    BY <1>10, <1>11, <1>12
  <2> QED BY <2>1, Zenon DEF RestoredKey, map, base, whole
<1>13. CASE m = w + 1 /\ CutTail(cmds[w + 1], text, cs, w)
  <2> DEFINE args == cmds[w + 1]
             c == cs[w + 1]
  <2>1. Len(Written(cs, w)) < Len(text) /\ w + 1 \in 1..Len(cs) /\ CutCommand(args, WordsOf(c))
    BY <1>13, Zenon DEF CutTail
  <2>2. c \in Commands
    BY <1>1, <2>1, ElementOfSeq
  <2>3. c \in TornOf(text, cs, w)
    BY <2>1 DEF TornOf
  <2>4. FoldSteps("replayed", cmds, m, g)
    BY <1>8, <1>9, FoldStep DEF m
  <2>5. map = Replayed(base, args)
    <3>1. w \in 0..m - 1 /\ m = w + 1
      BY <1>1, <1>9, <1>13
    <3>2. g[1..(w + 1)] = Effect("replayed", g[1..w], cmds[w + 1])
      BY <2>4, <3>1, Zenon DEF FoldSteps
    <3> QED BY <1>10, <1>11, <3>1, <3>2, Zenon DEF Effect
  <2> HIDE DEF args, c
  <2>6. \/ Lookup(Replayed(base, args), k) = Lookup(base, k)
        \/ /\ Bytes[c[2]] = k
           /\ CutShort(Lookup(Replayed(base, args), k), Bytes[c[3]])
    BY <2>1, <2>2, CutIsReplayed
  <2>7. \/ Lookup(map, k) = Lookup(base, k)
        \/ /\ Bytes[c[2]] = k
           /\ CutShort(Lookup(map, k), Bytes[c[3]])
    BY <2>5, <2>6
  <2> QED BY <2>3, <2>7, Zenon DEF RestoredKey, map, base, whole
<1> QED
  BY <1>6, <1>12, <1>13 DEF m

-----------------------------------------------------------------------------
(* The processes *)

Restored(map, whole, parts) == \A k \in KeysUsed : RestoredKey(map, whole, parts, k)

LEMMA RestoresMemoryIs == RestoresMemory <=> (JustReplayed => Restored(memory, kept, torn))
BY Zenon DEF RestoresMemory, Restored, RestoredKey, Expected

LEMMA RestoresMemoryWillBe ==
  RestoresMemory' <=> (JustReplayed' => Restored(memory', kept', torn'))
BY Zenon DEF RestoresMemory, Restored, RestoredKey, Expected

\* The file is a log of which the history variables tell what it holds.
Holds(text, whole, parts) ==
  \E cs, w : CutLog(text, cs, w) /\ whole = SubSeq(cs, 1, w) /\ parts = TornOf(text, cs, w)

\* Before the first kill the log is what this process was asked to append.
FirstProcess ==
  /\ kept = <<>> /\ torn = {} /\ boot = <<>>
  /\ logged = Written(issued, Len(issued))
  /\ fd = "closed" => file = <<>>

RecoveryInv ==
  /\ AofInv
  /\ issued \in Seq(Commands) /\ crashes \in Nat
  /\ fd = "open" => AppendOnly
  /\ crashes = 0 => FirstProcess
  /\ fd = "closed" => issued = <<>> /\ Holds(file, kept, torn)
  /\ RestoresMemory

\* An empty file holds nothing.
LEMMA EmptyHolds == Holds(<<>>, <<>>, {})
<1> DEFINE cs == <<>>
<1>1. cs \in Seq(Commands) /\ Len(cs) = 0 /\ <<>> \in Seq(Char) /\ Len(<<>>) = 0
  BY EmptySeq
<1>2. Len(Written(cs, 0)) = 0
  <2>1. Written(cs, 0) = <<>>
    BY NothingWritten
  <2> QED BY <1>1, <2>1
<1>3. SubSeq(cs, 1, 0) = <<>>
  BY SubSeqEmpty
<1> HIDE DEF cs
<1>4. CutLog(<<>>, cs, 0)
  <2>1. /\ 0 \in 0..Len(cs) /\ Len(<<>>) <= Len(Written(cs, Len(cs)))
        /\ Len(Written(cs, 0)) <= Len(<<>>) /\ ~(0 < Len(cs))
        /\ \A k \in 1..Len(<<>>) : FALSE
    BY <1>1, <1>2
  <2> QED BY <1>1, <2>1, Zenon DEF CutLog
<1>5. TornOf(<<>>, cs, 0) = {}
  <2>1. ~(Len(Written(cs, 0)) < Len(<<>>))
    BY <1>1, <1>2
  <2> QED BY <2>1, Zenon DEF TornOf
<1> QED
  BY <1>3, <1>4, <1>5, Zenon DEF Holds, cs

LEMMA RecoveryInvInit == RecoveryInit => RecoveryInv
<1> SUFFICES ASSUME RecoveryInit PROVE RecoveryInv
  OBVIOUS
<1>1. /\ AofInit /\ memory = NoKeys /\ issued = <<>> /\ kept = <<>> /\ torn = {} /\ crashes = 0
  BY DEF RecoveryInit
<1>2. file = <<>> /\ fd = "closed" /\ boot = <<>> /\ logged = <<>> /\ AofInv
  BY <1>1, AofInvInit DEF AofInit
<1>3. <<>> \in Seq(Commands) /\ Len(<<>>) = 0
  BY EmptySeq
<1>4. FirstProcess
  <2>1. Written(issued, Len(issued)) = <<>>
    BY <1>1, <1>3, NothingWritten
  <2> QED BY <1>1, <1>2, <2>1 DEF FirstProcess
<1>5. Holds(file, kept, torn)
  BY <1>1, <1>2, EmptyHolds
<1>6. RestoresMemory
  <2>1. ~JustReplayed
    BY <1>2 DEF JustReplayed
  <2> QED BY <2>1, RestoresMemoryIs
<1> QED
  BY <1>1, <1>2, <1>3, <1>4, <1>5, <1>6 DEF RecoveryInv

\* A process starts on what the last one left.
LEMMA BootKeepsInv ==
  ASSUME RestorableCommands, RecoveryInv, Boot
  PROVE  RecoveryInv'
<1>1. PICK junk \in Junk :
    \/ /\ ~Parse(file, junk).throws
       /\ start
       /\ memory' = Replay(file, junk)
       /\ UNCHANGED <<issued, kept, torn, crashes>>
    \/ /\ fd = "closed" /\ Parse(file, junk).throws
       /\ UNCHANGED recoveryVars
  BY Zenon DEF Boot
<1>2. CASE UNCHANGED recoveryVars
  <2>1. RestoresMemory'
    <3>1. JustReplayed' <=> JustReplayed
      BY <1>2 DEF JustReplayed, recoveryVars, aofVars
    <3>2. memory' = memory /\ kept' = kept /\ torn' = torn /\ RestoresMemory
      BY <1>2 DEF recoveryVars, RecoveryInv
    <3> QED BY <3>1, <3>2, RestoresMemoryIs, RestoresMemoryWillBe
  <2>2. AofInv'
    BY <1>2, AofInvStep DEF RecoveryInv, recoveryVars
  <2> QED BY <1>2, <2>1, <2>2 DEF RecoveryInv, FirstProcess, recoveryVars, aofVars
<1>3. CASE /\ ~Parse(file, junk).throws
           /\ start
           /\ memory' = Replay(file, junk)
           /\ UNCHANGED <<issued, kept, torn, crashes>>
  <2>1. /\ fd = "closed" /\ fd' = (IF AppendOnly THEN "open" ELSE "closed")
        /\ boot' = file /\ UNCHANGED <<file, writeBuffer, logged>>
        /\ UNCHANGED <<issued, kept, torn, crashes>>
    BY <1>3 DEF start
  <2>2. AofInv'
    BY <1>3, AofInvStep DEF RecoveryInv, AofNext
  <2>3. issued' \in Seq(Commands) /\ crashes' \in Nat /\ issued' = <<>>
    BY <2>1 DEF RecoveryInv
  <2>4. fd' = "open" => AppendOnly
    BY <2>1
  <2>5. crashes' = 0 => FirstProcess'
    BY <2>1 DEF RecoveryInv, FirstProcess
  <2>6. Holds(file, kept, torn)
    BY <2>1 DEF RecoveryInv
  <2>7. RestoresMemory'
    <3>1. PICK cs, w : CutLog(file, cs, w) /\ kept = SubSeq(cs, 1, w) /\ torn = TornOf(file, cs, w)
      BY <2>6, Zenon DEF Holds
    <3>2. JunkOK(junk)
      BY RecoveryAssumption DEF JunkOK
    <3>3. \A k \in KeysUsed :
            RestoredKey(Replay(file, junk), SubSeq(cs, 1, w), TornOf(file, cs, w), k)
      BY <1>3, <3>1, <3>2, ReplayRestores
    <3>4. Restored(memory', kept', torn')
      <4>1. kept' = kept /\ torn' = torn
        BY <2>1
      <4> QED BY <1>3, <3>1, <3>3, <4>1, Zenon DEF Restored
    <3> QED BY <3>4, RestoresMemoryWillBe, Zenon
  <2>8. Holds(file, kept, torn)'
    BY <2>1, <2>6
  <2> QED BY <2>2, <2>3, <2>4, <2>5, <2>7, <2>8, Zenon DEF RecoveryInv
<1> QED
  BY <1>1, <1>2, <1>3

\* What a process has appended is in the log behind the rest.
LEMMA MoreIsWritten ==
  ASSUME NEW cs \in Seq(Commands), NEW c \in Commands
  PROVE  LET more == Append(cs, c)
         IN  more \in Seq(Commands) /\ more # <<>>
             /\ Written(more, Len(more)) = Written(cs, Len(cs)) \o Serialize(c)
<1> DEFINE more == Append(cs, c)
           n == Len(cs)
<1>1. /\ more \in Seq(Commands) /\ Len(more) = n + 1 /\ n \in Nat /\ more # <<>>
      /\ more[n + 1] = c /\ \A i \in 1..n : more[i] = cs[i]
  BY AppendProperties, LenProperties
<1> HIDE DEF more, n
<1>2. serializeToRESP(c) = Serialize(c) /\ serializeToRESP(c) \in Seq(Char)
  BY CommandIsWritten
<1>3. Written(more, n + 1) = Written(more, n) \o serializeToRESP(more[n + 1])
  BY <1>1, <1>2, OneMoreWritten
<1>4. Written(more, n) = Written(cs, n)
  <2> DEFINE f == [i \in 1..n |-> serializeToRESP(more[i])]
             g == [i \in 1..n |-> serializeToRESP(cs[i])]
  <2>1. f = g
    BY <1>1
  <2>2. Written(more, n) = FlattenSeq(f) /\ Written(cs, n) = FlattenSeq(g)
    BY DEF Written
  <2> HIDE DEF f, g
  <2> QED BY <2>1, <2>2
<1> QED
  BY <1>1, <1>2, <1>3, <1>4 DEF more, n

LEMMA ServeKeepsInv ==
  ASSUME RecoveryInv, NEW c \in Commands, Serve(c)
  PROVE  RecoveryInv'
<1>1. /\ fd = "open" /\ appendCommand(c) /\ memory' = Executed(memory, c)
      /\ issued' = (IF Appends(c) THEN Append(issued, c) ELSE issued)
      /\ kept' = kept /\ torn' = torn /\ crashes' = crashes
  BY DEF Serve
<1>2. AofInv'
  BY <1>1, AppendKeepsInv DEF RecoveryInv
<1>3. /\ AppendOnly /\ issued \in Seq(Commands) /\ crashes \in Nat /\ RestoresMemory
      /\ crashes = 0 => FirstProcess
  BY <1>1 DEF RecoveryInv
<1>4. CASE ~Appends(c)
  <2>1. UNCHANGED aofVars
    BY <1>1, <1>4 DEF appendCommand
  <2>2. memory' = memory
    <3>1. c[1] # "SET"
      BY <1>1, <1>3, <1>4 DEF Appends, isMutatingCommand
    <3> QED BY <1>1, <3>1 DEF Executed
  <2>3. issued' = issued
    BY <1>1, <1>4
  <2>4. RestoresMemory'
    <3>1. JustReplayed' <=> JustReplayed
      BY <2>1, <2>3 DEF JustReplayed, aofVars
    <3> QED BY <1>1, <1>3, <2>2, <3>1, RestoresMemoryIs, RestoresMemoryWillBe
  <2>5. file' = file /\ fd' = fd /\ boot' = boot /\ logged' = logged
    BY <2>1 DEF aofVars
  <2>6. crashes' = 0 => FirstProcess'
    BY <1>1, <1>3, <2>3, <2>5 DEF FirstProcess
  <2>7. fd' # "closed"
    BY <1>1, <2>5
  <2> QED BY <1>1, <1>2, <1>3, <2>3, <2>4, <2>6, <2>7 DEF RecoveryInv
<1>5. CASE Appends(c)
  <2>1. issued' = Append(issued, c)
    BY <1>1, <1>5
  <2>2. logged' = logged \o Serialize(c) /\ fd' = fd /\ boot' = boot
    BY <1>1, <1>5 DEF appendCommand
  <2>3. /\ issued' \in Seq(Commands) /\ issued' # <<>>
        /\ Written(issued', Len(issued')) = Written(issued, Len(issued)) \o Serialize(c)
    BY <1>3, <2>1, MoreIsWritten
  <2>4. crashes' = 0 => FirstProcess'
    BY <1>1, <1>3, <2>2, <2>3 DEF FirstProcess
  <2>5. RestoresMemory'
    <3>1. ~JustReplayed'
      BY <2>3 DEF JustReplayed
    <3> QED BY <3>1, RestoresMemoryWillBe
  <2>6. fd' # "closed"
    BY <1>1, <2>2
  <2> QED BY <1>1, <1>2, <1>3, <2>3, <2>4, <2>5, <2>6 DEF RecoveryInv
<1> QED
  BY <1>4, <1>5

LEMMA GreatestOf ==
  ASSUME NEW n \in Nat, NEW S \in SUBSET (0..n), 0 \in S
  PROVE  Max(S) \in S /\ \A m \in S : m <= Max(S)
<1> DEFINE R == {n - m : m \in S}
<1>1. R \in SUBSET Nat /\ n \in R
  BY Zenon, SMT
<1>2. Min(R) \in R /\ \A r \in R : Min(R) <= r
  BY <1>1, LeastOf
<1>3. PICK g \in S : Min(R) = n - g
  BY <1>2
<1>4. \A m \in S : n - m \in R /\ m \in Nat
  OBVIOUS
<1>5. \A m \in S : g >= m
  <2> TAKE m \in S
  <2>1. Min(R) <= n - m
    BY <1>2, <1>4
  <2> QED BY <1>3, <2>1
<1>6. Max(S) \in S /\ \A m \in S : Max(S) >= m
  BY <1>5, Zenon DEF Max
<1> DEFINE x == Max(S)
<1> HIDE DEF x
<1>7. \A m \in S : x >= m => m <= x
  <2>1. x \in S
    BY <1>6 DEF x
  <2> QED BY <2>1
<1> QED
  BY <1>6, <1>7, Zenon DEF x

\* Wherever the first process is killed, its file is a log that is cut.
LEMMA KilledLogIsCut ==
  ASSUME RecoveryInv, fd = "open", crashes = 0,
         NEW whole, whole = Max({n \in 0..Len(issued) : Span(n) <= Len(file)})
  PROVE  CutLog(file, issued, whole) /\ whole \in 0..Len(issued)
<1> DEFINE n == Len(issued)
           all == Written(issued, n)
           S == {i \in 0..n : Span(i) <= Len(file)}
           u(i) == Len(Written(issued, i))
<1>1. issued \in Seq(Commands) /\ n \in Nat
  BY LenProperties DEF RecoveryInv
<1>2. boot = <<>> /\ logged = all
  BY DEF RecoveryInv, FirstProcess
<1>3. RecordsLie(issued, n)
  <2>1. n \in 0..n
    BY <1>1
  <2> QED BY <1>1, <2>1, LogIsLaid
<1> HIDE DEF n
<1>4. all \in Seq(Char) /\ Len(all) \in Nat /\ u(0) = 0 /\ \A i \in 0..n : u(i) \in Nat
  <2>1. n \in 0..n
    BY <1>1
  <2>2. Len(<<>>) = 0
    OBVIOUS
  <2> QED BY <1>3, <2>1, <2>2, Zenon DEF RecordsLie
<1>5. \A i : Span(i) = u(i)
  BY Zenon DEF Span, Written
<1>6. file \in Seq(Symbols) /\ writeBuffer \in Seq(Symbols) /\ logged \in Seq(Symbols)
      /\ file \o writeBuffer = boot \o logged
  BY DEF RecoveryInv, AofInv, AofTypeOK, LogInOrder
<1>7. file \o writeBuffer = all
  BY <1>2, <1>6, ConcatEmptySeq
<1> HIDE DEF all
<1>8. /\ Len(file) \in Nat /\ Len(writeBuffer) \in Nat /\ Len(all) = Len(file) + Len(writeBuffer)
      /\ \A k \in 1..Len(file) : file[k] = all[k]
  <2>1. Len(file) \in Nat /\ Len(writeBuffer) \in Nat
    BY <1>6, LenProperties
  <2>2. /\ Len(file \o writeBuffer) = Len(file) + Len(writeBuffer)
        /\ \A i \in 1..Len(file) + Len(writeBuffer) :
             (file \o writeBuffer)[i] = IF i <= Len(file) THEN file[i] ELSE writeBuffer[i - Len(file)]
    BY <1>6, ConcatProperties
  <2>3. \A k \in 1..Len(file) : k \in 1..Len(file) + Len(writeBuffer) /\ k <= Len(file)
    BY <2>1
  <2> QED BY <1>7, <2>1, <2>2, <2>3, Zenon
<1>9. file \in Seq(Char) /\ Len(file) <= Len(all)
  <2>1. Len(file) <= Len(all)
    BY <1>4, <1>8
  <2>2. \A k \in 1..Len(file) : file[k] \in Char
    <3> TAKE k \in 1..Len(file)
    <3>1. k \in 1..Len(all)
      BY <1>4, <1>8
    <3>2. all[k] \in Char
      BY <1>4, <3>1, ElementOfSeq
    <3> QED BY <1>8, <3>2
  <2>3. file \in [1..Len(file) -> Char]
    <3>1. file \in [1..Len(file) -> Symbols]
      BY <1>6, LenProperties
    <3> QED BY <2>2, <3>1
  <2>4. file \in Seq(Char)
    BY <1>8, <2>3, FunctionIsSeq
  <2> QED BY <2>1, <2>4
<1>10. S \in SUBSET (0..n) /\ 0 \in S
  <2>1. Span(0) <= Len(file)
    BY <1>4, <1>5, <1>8
  <2> QED BY <1>1, <2>1
<1>11. whole = Max(S)
  BY DEF n
<1>12. whole \in S /\ \A i \in S : i <= whole
  <2>1. Max(S) \in S /\ \A i \in S : i <= Max(S)
    <3> HIDE DEF S
    <3> QED BY <1>1, <1>10, GreatestOf
  <2> HIDE DEF S
  <2> QED BY <1>11, <2>1
<1>13. whole \in 0..n /\ u(whole) <= Len(file)
  <2>1. Span(whole) <= Len(file)
    BY <1>12
  <2> QED BY <1>5, <1>12, <2>1, Zenon
<1>14. whole < n => Len(file) < u(whole + 1)
  <2> SUFFICES ASSUME whole < n PROVE Len(file) < u(whole + 1)
    OBVIOUS
  <2>1. whole + 1 \in 0..n /\ ~(whole + 1 <= whole)
    BY <1>1, <1>13
  <2>2. whole + 1 \notin S
    <3> HIDE DEF S
    <3> QED BY <1>12, <2>1, Zenon
  <2>3. ~(Span(whole + 1) <= Len(file))
    BY <2>1, <2>2
  <2> DEFINE x == u(whole + 1)
  <2>4. x \in Nat /\ ~(x <= Len(file))
    BY <1>4, <1>5, <2>1, <2>3, Zenon
  <2> HIDE DEF x
  <2>5. Len(file) < x
    BY <1>8, <2>4
  <2> QED BY <2>5 DEF x
<1> QED
  BY <1>1, <1>8, <1>9, <1>13, <1>14, Zenon DEF CutLog, n, all

LEMMA KillKeepsInv ==
  ASSUME OneKill, RecoveryInv, Kill
  PROVE  RecoveryInv'
<1> DEFINE written == Len(file) - Len(boot)
           whole == Max({n \in 0..Len(issued) : Span(n) <= written})
<1>1. /\ fd = "open" /\ crashes < MaxCrashes /\ Die /\ issued' = <<>>
      /\ kept' = kept \o SubSeq(issued, 1, whole)
      /\ torn' = torn \cup (IF Span(whole) < written THEN {issued[whole + 1]} ELSE {})
      /\ crashes' = crashes + 1
  BY DEF Kill
<1>2. crashes = 0 /\ crashes' = 1
  BY <1>1, RecoveryAssumption DEF RecoveryInv, OneKill
<1>3. kept = <<>> /\ torn = {} /\ boot = <<>>
  BY <1>2 DEF RecoveryInv, FirstProcess
<1>4. written = Len(file)
  <2>1. Len(file) \in Nat
    BY LenProperties DEF RecoveryInv, AofInv, AofTypeOK
  <2>2. Len(boot) = 0
    BY <1>3
  <2> QED BY <2>1, <2>2
<1> HIDE DEF written
<1>5. whole = Max({n \in 0..Len(issued) : Span(n) <= Len(file)})
  BY <1>4
<1> HIDE DEF whole
<1>6. CutLog(file, issued, whole) /\ whole \in 0..Len(issued)
  BY <1>1, <1>2, <1>5, KilledLogIsCut
<1>7. issued \in Seq(Commands) /\ Len(issued) \in Nat
  BY LenProperties DEF RecoveryInv
<1>8. kept' = SubSeq(issued, 1, whole)
  <2>1. \A i \in 1..whole : issued[i] \in Commands
    <3>1. \A i \in 1..whole : i \in 1..Len(issued)
      BY <1>6, <1>7
    <3> QED BY <1>7, <3>1, ElementOfSeq
  <2>2. SubSeq(issued, 1, whole) \in Seq(Commands)
    <3>1. 1 \in Int /\ whole \in Int
      BY <1>6, <1>7
    <3> QED BY <2>1, <3>1, SubSeqProperties
  <2> DEFINE s == SubSeq(issued, 1, whole)
  <2> HIDE DEF s
  <2>3. <<>> \o s = s
    BY <2>2, ConcatEmptySeq DEF s
  <2> QED BY <1>1, <1>3, <2>3 DEF s
<1>9. torn' = TornOf(file, issued, whole)
  <2>1. Span(whole) = Len(Written(issued, whole))
    BY Zenon DEF Span, Written
  <2>2. torn' = IF Span(whole) < Len(file) THEN {issued[whole + 1]} ELSE {}
    BY <1>1, <1>3, <1>4
  <2> QED BY <2>1, <2>2, Zenon DEF TornOf
<1>10. file' = file /\ fd' = "closed"
  BY <1>1 DEF Die
<1>11. Holds(file', kept', torn')
  BY <1>6, <1>8, <1>9, <1>10, Zenon DEF Holds
<1>12. AofInv'
  BY <1>1, AofInvStep DEF RecoveryInv, AofNext
<1>13. RestoresMemory'
  <2>1. ~JustReplayed'
    BY <1>10 DEF JustReplayed
  <2> QED BY <2>1, RestoresMemoryWillBe
<1>14. issued' \in Seq(Commands)
  BY <1>1, EmptySeq
<1> QED
  BY <1>1, <1>2, <1>10, <1>11, <1>12, <1>13, <1>14 DEF RecoveryInv

LEMMA RecoveryInvStep ==
  ASSUME OneKill, RestorableCommands, RecoveryInv, [RecoveryNext]_recoveryVars
  PROVE  RecoveryInv'
<1>1. CASE Boot
  BY <1>1, BootKeepsInv
<1>2. ASSUME NEW c \in Commands, Serve(c) PROVE RecoveryInv'
  BY <1>2, ServeKeepsInv
<1>3. CASE Kill
  BY <1>3, KillKeepsInv
<1>4. CASE UNCHANGED recoveryVars
  <2>1. RestoresMemory'
    <3>1. JustReplayed' <=> JustReplayed
      BY <1>4 DEF JustReplayed, recoveryVars, aofVars
    <3>2. memory' = memory /\ kept' = kept /\ torn' = torn /\ RestoresMemory
      BY <1>4 DEF recoveryVars, RecoveryInv
    <3> QED BY <3>1, <3>2, RestoresMemoryIs, RestoresMemoryWillBe
  <2>2. AofInv'
    BY <1>4, AofInvStep DEF RecoveryInv, recoveryVars
  <2> QED BY <1>4, <2>1, <2>2 DEF RecoveryInv, FirstProcess, recoveryVars, aofVars
<1> QED
  BY <1>1, <1>2, <1>3, <1>4 DEF RecoveryNext

\* Wherever the process is killed, the replay of the next one (main.cpp:48)
\* gives every key the value of the last SET that is whole in the file, but for
\* the key of the cut record, which may have a cut value instead.
THEOREM RestoresMemoryHolds ==
  ASSUME OneKill, RestorableCommands
  PROVE  RecoverySpec => []RestoresMemory
<1>1. RecoveryInit => RecoveryInv
  BY RecoveryInvInit
<1>2. RecoveryInv /\ [RecoveryNext]_recoveryVars => RecoveryInv'
  BY RecoveryInvStep
<1>3. RecoveryInv => RestoresMemory
  BY DEF RecoveryInv
<1> QED
  BY <1>1, <1>2, <1>3, PTL DEF RecoverySpec
=============================================================================
