--------------------------------- MODULE Resp ---------------------------------
(***************************************************************************)
(* The text on the wire and in the log: the encoders and the parser of     *)
(* src/lib/resp-parser.cpp.  A character is a string, "CR" and "LF" the    *)
(* line end.  Numbers that are written have one digit.                     *)
(***************************************************************************)
EXTENDS Integers, Sequences, SequencesExt, FiniteSetsExt

Digits     == <<"1", "2", "3", "4", "5", "6", "7", "8", "9">>
Whitespace == {"CR", "LF", " "}
CRLF       == <<"CR", "LF">>

IsDigit(c) == c = "0" \/ \E d \in DOMAIN Digits : Digits[d] = c
ValueOf(c) == IF c = "0" THEN 0 ELSE CHOOSE d \in DOMAIN Digits : Digits[d] = c

\* std::to_string
to_string(n) ==
  CASE n = 0 -> <<"0">> [] n > 0 -> <<Digits[n]>> [] n < 0 -> <<"-", Digits[-n]>>

text_to_resp(text)      == <<"+">> \o text \o CRLF
error_resp(text)        == <<"-">> \o text \o CRLF
bulk_string_resp(value) == <<"$">> \o to_string(Len(value)) \o CRLF \o value \o CRLF
longlong_resp(value)    == <<":">> \o to_string(value) \o CRLF
nil_resp                == <<"$", "-", "1">> \o CRLF
array_to_resp(list) ==
  <<"*">> \o to_string(Len(list)) \o CRLF
  \o FlattenSeq([n \in DOMAIN list |-> bulk_string_resp(list[n])])

EndsLine(text, n) == n < Len(text) /\ SubSeq(text, n, n + 1) = CRLF

\* The position behind the digits at p.
BehindDigits(message, p) ==
  CHOOSE q \in p..(Len(message) + 1) :
    /\ q = Len(message) + 1 \/ ~IsDigit(message[q])
    /\ \A n \in p..(q - 1) : IsDigit(message[n])

\* What the digits from p to last - 1 say.
Number(message, p, last) ==
  LET value[n \in p..last] ==
        IF n = p THEN 0 ELSE 10 * value[n - 1] + ValueOf(message[n - 1])
  IN  value[last]

\* For a position, the number there and the position behind it and its line end.
int_parser_in_line(message) ==
  [p \in 1..(Len(message) + 1) |->
    LET last == BehindDigits(message, p)
    IN  [value |-> Number(message, p, last), pos |-> last]]
int_parser(message) ==
  [p \in 1..(Len(message) + 1) |->
    LET last == BehindDigits(message, p)
    IN  [value |-> Number(message, p, last),
         pos   |-> IF EndsLine(message, last) THEN last + 2 ELSE last]]

\* The strings of the array message begins with; what follows it is not
\* looked at.  The text ends in one NUL character: a string or a position
\* behind that is read from memory that is not part of it, and beyond tells
\* that nothing is known of what the parser made of it.  (Every element moves
\* on, so that Len(message) of them are enough to see that.)
resp_to_text(message) ==
  LET number  == int_parser(message)
      count   == Min({number[2].value, Len(message)})
      outside == Len(message) + 4
      next    == [p \in 1..outside |->  \* where the element behind the one at p begins
                   IF p > Len(message) THEN outside
                   ELSE Min({outside, number[p + 1].pos + number[p + 1].value + 2})]
      begin[n \in 1..(count + 1)] == IF n = 1 THEN number[2].pos ELSE next[begin[n - 1]]
      string  == [p \in 1..Len(message) |->
                   SubSeq(message, number[p + 1].pos, number[p + 1].pos + number[p + 1].value - 1)]
      beyond  == begin[count + 1] = outside
  IN  [strings |-> IF beyond THEN <<>> ELSE [n \in 1..count |-> string[begin[n]]],
       beyond  |-> beyond]
=============================================================================
