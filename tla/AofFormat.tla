------------------------------ MODULE AofFormat ------------------------------
(***************************************************************************)
(* The text of the append-only file: serializeToRESP writes it and         *)
(* replayLog reads it back with formatted stream extraction.               *)
(*                                                                         *)
(* An extraction from a stream that is not good leaves its variable as it  *)
(* was.  replayLog does not initialise arraySize, dollarSign and           *)
(* stringLength, so what it goes on with is then arbitrary: the record     *)
(* junk holds those three values.  A stringLength below zero makes the     *)
(* std::string constructor throw, which nobody catches.                    *)
(***************************************************************************)
EXTENDS Resp

CONSTANT Bytes  \* the characters of every argument a command may have

\* The text of array_to_resp, built by a routine of its own.
serializeToRESP(args) == array_to_resp([i \in DOMAIN args |-> Bytes[args[i]]])

\* The stream is text, the position of the next character and whether the
\* stream is good; each extraction gives the value and the stream after it.
Skip(text, pos) ==
  Min({i \in pos..Len(text) : text[i] \notin Whitespace} \cup {Len(text) + 1})

\* aofFile >> dollarSign
ExtractChar(text, in, junk) ==
  LET p == Skip(text, in.pos)
  IN  IF in.good /\ p <= Len(text)
      THEN [value |-> text[p], pos |-> p + 1, good |-> TRUE]
      ELSE [value |-> junk, pos |-> Len(text) + 1, good |-> FALSE]

\* aofFile >> stringLength: 0 when there is no digit; a number that ends the
\* text leaves the stream at its end.
ExtractInt(text, in, junk) ==
  LET p == Skip(text, in.pos)
  IN  IF ~in.good \/ p > Len(text)
      THEN [value |-> junk, pos |-> Len(text) + 1, good |-> FALSE]
      ELSE IF IsDigit(text[p])
      THEN [value |-> ValueOf(text[p]), pos |-> p + 1, good |-> p < Len(text)]
      ELSE [value |-> 0, pos |-> p, good |-> FALSE]

\* aofFile.ignore(2)
Ignore2(text, in) ==
  [value |-> in.value, pos |-> in.pos + 2, good |-> in.good /\ in.pos + 1 <= Len(text)]

\* aofFile.read into a string of n spaces
Read(text, in, n) ==
  LET have == IF in.good THEN Min({n, Len(text) + 1 - in.pos}) ELSE 0
  IN  [value |-> SubSeq(text, in.pos, in.pos + have - 1)
                 \o [i \in 1..(n - have) |-> " "],
       pos |-> in.pos + n, good |-> have = n /\ in.good]

\* One turn of the loop over the arguments.
NextArgument(text, in, junk) ==
  LET dollar == ExtractChar(text, in, junk.dollarSign)
      length == ExtractInt(text, dollar, junk.stringLength)
      bytes  == Read(text, Ignore2(text, length), length.value)
      after  == Ignore2(text, bytes)
  IN  IF dollar.value # "$"
      THEN [in EXCEPT !.pos = dollar.pos, !.good = dollar.good, !.end = "mismatch"]
      ELSE IF length.value < 0 THEN [in EXCEPT !.end = "throws"]
      ELSE [args |-> Append(in.args, bytes.value), end |-> "none",
            pos |-> after.pos, good |-> after.good]

\* The record whose '*' is the character before pos.
ParseRecord(text, pos, junk) ==
  LET size  == ExtractInt(text, [pos |-> pos, good |-> TRUE], junk.arraySize)
      first == Ignore2(text, size)
      turns[i \in 0..(IF size.value > 0 THEN size.value ELSE 0)] ==
        IF i = 0
        THEN [args |-> <<>>, end |-> "none", pos |-> first.pos, good |-> first.good]
        ELSE IF turns[i - 1].end # "none" THEN turns[i - 1]
        ELSE NextArgument(text, turns[i - 1], junk)
  IN  turns[IF size.value > 0 THEN size.value ELSE 0]

\* The argument lists replayLog takes from the text, in order.  A record
\* with a wrong '$' counts for nothing; a throw ends everything.
Parse(text, junk) ==
  LET from[p \in 1..(Len(text) + 1)] ==
        IF p = Len(text) + 1 THEN [cmds |-> <<>>, throws |-> FALSE]
        ELSE IF text[p] # "*" THEN from[p + 1]
        ELSE LET rec  == ParseRecord(text, p + 1, junk)
                 rest == from[IF rec.good THEN rec.pos ELSE Len(text) + 1]
             IN  CASE rec.end = "throws"   -> [cmds |-> <<>>, throws |-> TRUE]
                   [] rec.end = "mismatch" -> rest
                   [] rec.end = "none" ->
                       [cmds |-> <<rec.args>> \o rest.cmds, throws |-> rest.throws]
  IN  from[1]

\* store[key] = value
Put(map, key, value) ==
  [k \in DOMAIN map \cup {key} |-> IF k = key THEN value ELSE map[k]]

Replayed_inserting(map, args) ==
  IF Len(args) >= 3 /\ args[1] = Bytes["SET"] /\ args[2] \notin DOMAIN map
  THEN Put(map, args[2], args[3]) ELSE map

\* What one argument list does to the map of strings.  SET drops the expiry.
Replayed(map, args) ==
  IF args = <<>> THEN map
  ELSE IF args[1] = Bytes["SET"] /\ Len(args) >= 3
  THEN Put(map, args[2], args[3])
  ELSE IF args[1] = Bytes["DEL"] /\ Len(args) >= 2
  THEN [k \in DOMAIN map \ {args[2]} |-> map[k]]
  ELSE map

NoKeys == [k \in {} |-> <<>>]

Replay(text, junk) == FoldLeft(Replayed, NoKeys, Parse(text, junk).cmds)
=============================================================================
