------------------------------- MODULE Deques --------------------------------
(***************************************************************************)
(* What the list commands promise: every key has a list, empty unless      *)
(* somebody pushed to it; LPUSH works on the head, RPUSH on the tail, LPOP *)
(* takes from the head, and reading a range changes nothing.  Indices of a *)
(* range count from 0, negative ones from the end.                         *)
(***************************************************************************)
EXTENDS Integers, Sequences, SequencesExt

CONSTANTS ListKeys, Batches, Indices, MaxList

VARIABLES list, reply

vars == <<list, reply>>

Init == list = [k \in ListKeys |-> <<>>] /\ reply = <<"none">>

PushTail(k, items) ==
  /\ Len(list[k]) + Len(items) <= MaxList
  /\ list' = [list EXCEPT ![k] = @ \o items]
  /\ reply' = <<"int", Len(list'[k])>>

PushHead(k, items) ==
  /\ Len(list[k]) + Len(items) <= MaxList
  /\ list' = [list EXCEPT ![k] = Reverse(items) \o @]
  /\ reply' = <<"int", Len(list'[k])>>

PopOne(k) ==
  /\ reply' = IF list[k] = <<>> THEN <<"nil">> ELSE <<"bulk", Head(list[k])>>
  /\ list' = [list EXCEPT ![k] = IF @ = <<>> THEN @ ELSE Tail(@)]

\* The first n elements, or as many as there are.
PopMany(k, n) ==
  LET taken == Min({n, Len(list[k])})
  IN  \/ /\ list[k] = <<>>
         /\ reply' = <<"nil">> /\ UNCHANGED list
      \/ /\ list[k] # <<>> /\ n >= 0
         /\ reply' = <<"array", SubSeq(list[k], 1, taken)>>
         /\ list' = [list EXCEPT ![k] = SubSeq(@, taken + 1, Len(@))]
      \/ /\ list[k] # <<>> /\ n < 0
         /\ reply' = <<"error">> /\ UNCHANGED list

\* The position index i names in a list of n elements, 0 for the first.
Position(i, n) == IF i < 0 THEN n + i ELSE i

\* The elements whose positions lie between those of the two indices.
Slice(s, start, stop) ==
  LET wanted == {p \in DOMAIN s : /\ Position(start, Len(s)) <= p - 1
                                  /\ p - 1 <= Position(stop, Len(s))}
  IN  [i \in 1..Cardinality(wanted) |-> s[Min(wanted) + i - 1]]

Range_(k, start, stop) ==
  /\ reply' = <<"array", Slice(list[k], start, stop)>>
  /\ UNCHANGED list

Length(k) == reply' = <<"int", Len(list[k])>> /\ UNCHANGED list

Next ==
  \E k \in ListKeys :
    \/ \E items \in Batches : PushTail(k, items) \/ PushHead(k, items)
    \/ PopOne(k)
    \/ \E n \in Indices : PopMany(k, n)
    \/ \E start, stop \in Indices : Range_(k, start, stop)
    \/ Length(k)

Spec == Init /\ [][Next]_vars
=============================================================================
