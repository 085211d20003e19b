------------------------------ MODULE RdbParser ------------------------------
(***************************************************************************)
(* The reader of dump.rdb, src/lib/RdbParser.cpp, as main calls it: one    *)
(* step is one turn of the loop of parse_db_entries.  The file is a        *)
(* sequence of bytes, which a crash or a copy may have cut anywhere; some  *)
(* reads of the parser are checked and throw at its end, others are not.   *)
(*                                                                         *)
(* Low is 64 in the code, where a byte has 256 values; a smaller Low makes *)
(* short strings need the long forms of a length.  A string is             *)
(* <<"text", bytes>>, or <<"int", n>> for the text std::to_string gives n. *)
(* An expiry is <<unit, bytes>>, a little-endian number of milliseconds or *)
(* of thousands of them, or <<>> for none.                                 *)
(***************************************************************************)
EXTENDS Integers, Sequences, SequencesExt, FiniteSetsExt

CONSTANTS
  Low,        \* values of the low six bits of a length byte
  Databases   \* what the file may have been written from

Byte == 4 * Low
Opcode == [end |-> Byte - 1, select |-> Byte - 2, seconds |-> Byte - 3,
           millis |-> Byte - 4, resize |-> Byte - 5, aux |-> Byte - 6]
NoTime == <<>>
Magic  == <<18, 5, 4, 9, 19>>  \* REDIS, as places in the alphabet

\* Numbers of so many bytes, and whether n is one, in two's complement.
Numbers(width) ==
  CASE width = 1 -> Byte [] width = 2 -> Byte * Byte [] width = 4 -> Byte * Byte * Byte * Byte
Fits(n, width) == -Numbers(width) <= 2 * n /\ 2 * n < Numbers(width)

Texts   == {"text"} \X Seq(0..(Byte - 1))
Strings == Texts \cup ({"int"} \X {n \in Int : Fits(n, 4)})
Times   == {NoTime} \cup ({1} \X [1..8 -> 0..(Byte - 1)]) \cup ({1000} \X [1..4 -> 0..(Byte - 1)])
Entries == [key : Strings, value : Strings, time : Times]

ASSUME RdbAssumption ==
  /\ Low \in Nat /\ Low >= 6
  /\ \A db \in Databases : db \in Seq(Entries)

VARIABLES
  database,  \* history: what the file was written from
  whole,     \* history: the file was not cut in front of its end
  file,
  pos,       \* where the stream reads next
  entries, current_expiry,  \* the locals of parse_db_entries
  stage      \* "header", "entries", "loaded" or, after an exception, "refused"

rdbVars == <<database, whole, file, pos, entries, current_expiry, stage>>

-----------------------------------------------------------------------------
\* The format, as its writers use it: the shortest form of every length.
WriteLength(n) ==
  IF n < Low THEN <<n>>
  ELSE IF n < Low * Byte THEN <<Low + n \div Byte, n % Byte>>
  ELSE <<2 * Low, 0, 0, n \div Byte, n % Byte>>

LittleEndian(n, width) ==
  LET rest[b \in 1..width] == IF b = 1 THEN n ELSE rest[b - 1] \div Byte
  IN  [b \in 1..width |-> rest[b] % Byte]

\* Numbers that fit are written in one, two or four bytes.
WriteNumber(n) ==
  LET form == IF Fits(n, 1) THEN 0 ELSE IF Fits(n, 2) THEN 1 ELSE 2
  IN  <<3 * Low + form>> \o LittleEndian(n, IF form = 0 THEN 1 ELSE 2 * form)
WriteString(s) == IF s[1] = "int" THEN WriteNumber(s[2]) ELSE WriteLength(Len(s[2])) \o s[2]

WriteEntry(e) ==
  (IF e.time = NoTime THEN <<>>
   ELSE <<IF e.time[1] = 1 THEN Opcode.millis ELSE Opcode.seconds>> \o e.time[2])
  \o <<0>> \o WriteString(e.key) \o WriteString(e.value)

\* Magic and version, one auxiliary field, the database with its sizes, the
\* entries and the end.  (The checksum behind it is not read.)
Write(db) ==
  Magic \o <<0, 0, 1, 1>>
  \o <<Opcode.aux>> \o WriteString(<<"text", <<1>>>>) \o WriteString(<<"int", 7>>)
  \o <<Opcode.select>> \o WriteLength(0)
  \o <<Opcode.resize>> \o WriteLength(Len(db)) \o WriteLength(0)
  \o FlattenSeq([n \in DOMAIN db |-> WriteEntry(db[n])])
  \o <<Opcode.end>>

-----------------------------------------------------------------------------
\* A read gives the value and the position after it: Thrown after an
\* exception, and behind the last byte once the stream has failed.
Thrown == 0
Failed == Len(file) + 1
Holds(p, n) == p # Thrown /\ p + n <= Failed
Throw == [value |-> 0, encoded |-> FALSE, pos |-> Thrown]

read_uint8_unchecked(p) ==
  IF Holds(p, 1) THEN [value |-> file[p], pos |-> p + 1]
  ELSE [value |-> Byte - 1, pos |-> p]
read_uint8(p) == IF Holds(p, 1) THEN [value |-> file[p], pos |-> p + 1] ELSE Throw

\* The third form is compared with ten, which no two bits are: a length of
\* that form is taken for an encoded number.
read_length(p) ==
  LET first == read_uint8(p)
      enc   == first.value \div Low
      low   == first.value % Low
      next  == read_uint8(first.pos)
  IN  CASE first.pos = Thrown -> Throw
        [] first.pos # Thrown /\ enc = 0 -> [value |-> low, encoded |-> FALSE, pos |-> first.pos]
        [] first.pos # Thrown /\ enc = 1 ->
             [value |-> low * Byte + next.value, encoded |-> FALSE, pos |-> next.pos]
        [] OTHER -> [value |-> low, encoded |-> TRUE, pos |-> first.pos]

\* A number is <<unit, bytes>>; read past the end of the file it is
\* uninitialised.
Uninitialised == <<"uninitialised">>
Signed(le) ==
  LET last == le[Len(le)]
      value[b \in 1..Len(le)] ==
        IF b < Len(le) THEN value[b + 1] * Byte + le[b]
        ELSE IF 2 * last < Byte THEN last ELSE last - Byte
  IN  value[1]

\* file.read of n bytes, unchecked, and std::to_string of what it read.
ReadInto(p, n, unit) ==
  IF Holds(p, n) THEN [value |-> <<unit, SubSeq(file, p, p + n - 1)>>, pos |-> p + n]
  ELSE [value |-> Uninitialised, pos |-> Failed]
AsText(number) ==
  IF number = Uninitialised THEN number ELSE <<"int", Signed(number[2])>>

\* A string cut short ends in zeros; only a number of one byte is checked.
read_string(p) ==
  LET len  == read_length(p)
      byte == read_uint8(len.pos)
      have == Min({len.value, Failed - len.pos})
  IN  CASE len.pos = Thrown -> Throw
        [] len.pos # Thrown /\ ~len.encoded ->
             [value |-> <<"text", SubSeq(file, len.pos, len.pos + have - 1)
                                  \o [b \in 1..(len.value - have) |-> 0]>>,
              pos |-> len.pos + have]
        [] len.pos # Thrown /\ len.encoded /\ len.value = 0 ->
             [byte EXCEPT !.value = <<"int", Signed(<<@>>)>>]
        [] len.pos # Thrown /\ len.encoded /\ len.value \in {1, 2} ->
             [ReadInto(len.pos, 2 * len.value, 1) EXCEPT !.value = AsText(@)]
        [] OTHER -> Throw

-----------------------------------------------------------------------------
\* The turn has read up to p, or what it called has thrown.
After_unmoved(p) ==
  /\ pos' = pos
  /\ stage' = IF p = Thrown THEN "refused" ELSE stage
After(p) ==
  /\ pos' = IF p = Thrown THEN pos ELSE p
  /\ stage' = IF p = Thrown THEN "refused" ELSE stage

\* The opcode of the turn, and the reads of its operands from there.
opcode == read_uint8(pos)
Turn(op) == stage = "entries" /\ opcode.pos # Thrown /\ opcode.value = op

parse_header ==
  /\ stage = "header"
  /\ IF Len(file) >= 9 /\ SubSeq(file, 1, 5) = Magic
     THEN stage' = "entries" /\ pos' = 10
     ELSE stage' = "refused" /\ pos' = pos
  /\ UNCHANGED <<database, whole, file, entries, current_expiry>>

EndOfFile ==
  /\ stage = "entries" /\ opcode.pos = Thrown
  /\ After(Thrown)
  /\ UNCHANGED <<database, whole, file, entries, current_expiry>>

EndOfEntries ==
  /\ Turn(Opcode.end)
  /\ stage' = "loaded" /\ pos' = opcode.pos
  /\ UNCHANGED <<database, whole, file, entries, current_expiry>>

\* Opcodes whose operands are read and dropped.
Skip ==
  /\ \/ /\ Turn(Opcode.aux)
        /\ \E key \in {read_string(opcode.pos)} : After(read_string(key.pos).pos)
     \/ /\ Turn(Opcode.select)
        /\ After(read_length(opcode.pos).pos)
     \/ /\ Turn(Opcode.resize)
        /\ \E size \in {read_length(opcode.pos)} : After(read_length(size.pos).pos)
  /\ UNCHANGED <<database, whole, file, entries, current_expiry>>

\* An expiry in front of the type of an entry: milliseconds are read with a
\* check, seconds without.
Expiry ==
  CASE opcode.value = Opcode.millis ->
         IF Holds(opcode.pos, 8) THEN ReadInto(opcode.pos, 8, 1) ELSE Throw
    [] opcode.value = Opcode.seconds ->
         ReadInto(opcode.pos, 4, 1000)
    [] OTHER -> [value |-> current_expiry, pos |-> pos]

\* The next entry has no expiry of this one.
AfterEntry_kept(time) == time
AfterEntry(time) == NoTime

\* Every other byte is taken for a type, and a type other than 0 for an entry
\* of no length: the expiry is kept for the entry behind it.
Entry ==
  /\ stage = "entries" /\ opcode.pos # Thrown
  /\ opcode.value \notin {Opcode.end, Opcode.aux, Opcode.select, Opcode.resize}
  /\ \E time \in {Expiry} : \E type \in {read_uint8(time.pos)} :
       \/ /\ type.pos # Thrown /\ type.value # 0
          /\ After(type.pos)
          /\ current_expiry' = time.value
          /\ UNCHANGED entries
       \/ /\ type.pos = Thrown \/ type.value = 0
          /\ \E key \in {read_string(type.pos)} : \E value \in {read_string(key.pos)} :
               /\ After(value.pos)
               /\ entries' = IF value.pos = Thrown THEN entries
                    ELSE Append(entries, [key |-> key.value, value |-> value.value,
                                          time |-> time.value])
          /\ current_expiry' = AfterEntry(time.value)
  /\ UNCHANGED <<database, whole, file>>

\* The file is there, as a whole or cut anywhere.
RdbInit ==
  /\ database \in Databases
  /\ \E n \in 0..Len(Write(database)) :
       /\ file = SubSeq(Write(database), 1, n)
       /\ whole = (n = Len(Write(database)))
  /\ pos = 1 /\ stage = "header"
  /\ entries = <<>> /\ current_expiry = NoTime

RdbNext == parse_header \/ Skip \/ Entry \/ EndOfEntries \/ EndOfFile

\* Nothing but the parser decides when it goes on.
RdbSpec == RdbInit /\ [][RdbNext]_rdbVars /\ WF_rdbVars(RdbNext)

-----------------------------------------------------------------------------
\* "Snapshot successfully loaded" (main.cpp:57): what main says this of has
\* given every entry of the database the file was written from, in order,
\* each with its own value and its own expiry and none with its neighbour's.
LoadedIsRead == stage = "loaded" => entries = database

\* Not every read is checked, but a file cut in front of its end is refused
\* all the same, wherever it was cut.
CutIsRefused == stage = "loaded" => whole

\* The loop ends on every file: main goes on to its socket.
ParserEnds == <>(stage \in {"loaded", "refused"})
=============================================================================
