---------------------------- MODULE MCRdbParser ----------------------------
(* Databases of up to two entries: text of no, one and Low bytes, numbers  *)
(* of one, two and four bytes, the three kinds of expiry.                  *)
EXTENDS RdbParser

MCText(n) == <<"text", [b \in 1..n |-> b % 3]>>
MCTimes == {NoTime, <<1, [b \in 1..8 |-> b]>>, <<1000, [b \in 1..4 |-> 9 - b]>>}
MCEntries ==
  [key : {MCText(1)}, time : MCTimes,
   value : {MCText(0), MCText(Low), <<"int", -1>>, <<"int", Byte>>, <<"int", -(Byte^2)>>}]
MCShort == {<<>>} \cup {<<e>> : e \in MCEntries} \cup (MCEntries \X MCEntries)

\* One string that needs the four-byte form of a length.
MCLong == {<<[key |-> MCText(1), value |-> MCText(Low * Byte), time |-> NoTime]>>}
=============================================================================
