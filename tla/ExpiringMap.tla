----------------------------- MODULE ExpiringMap -----------------------------
(***************************************************************************)
(* What the string commands of PhotonDB promise, without the machinery of  *)
(* src/lib/store.cpp: a map in which a key disappears at the very instant  *)
(* its deadline is reached.  Reads change nothing, a counter command on an *)
(* absent key starts from zero, and a counter never leaves the 64-bit      *)
(* range.  StringStore, which keeps expired entries until a GET meets      *)
(* them, is shown to implement this.                                       *)
(***************************************************************************)
EXTENDS Integers

CONSTANTS Keys, Words, LLONG_MIN, LLONG_MAX, Lifetimes, MaxTime,
          Absent, NoExpiry

VARIABLES value,     \* the value of every key, or Absent
          deadline,  \* when the key disappears, or NoExpiry
          now,       \* the steady clock
          reply      \* the answer to the last command

vars == <<value, deadline, now, reply>>

Numbers == LLONG_MIN..LLONG_MAX

Init ==
  /\ value = [k \in Keys |-> Absent]
  /\ deadline = [k \in Keys |-> NoExpiry]
  /\ now = 0
  /\ reply = <<"none">>

\* Store v under k for the given lifetime; one that is over at once stores
\* nothing that anybody can see.
Put(k, v, life) ==
  LET end  == IF life = NoExpiry THEN NoExpiry ELSE now + life
      dead == life # NoExpiry /\ life <= 0
  IN  /\ value' = [value EXCEPT ![k] = IF dead THEN Absent ELSE v]
      /\ deadline' = [deadline EXCEPT ![k] = IF dead THEN NoExpiry ELSE end]
      /\ reply' = <<"ok">>
      /\ UNCHANGED now

Get(k) ==
  /\ reply' = IF value[k] = Absent THEN <<"nil">> ELSE <<"bulk", value[k]>>
  /\ UNCHANGED <<value, deadline, now>>

\* Add d to a counter.  The deadline of a counter that exists is kept.
Add(k, d) ==
  LET base == IF value[k] = Absent THEN 0 ELSE value[k]
  IN  \/ /\ base \in Numbers /\ base + d \in Numbers
         /\ value' = [value EXCEPT ![k] = base + d]
         /\ reply' = <<"int", base + d>>
         /\ UNCHANGED <<deadline, now>>
      \/ /\ \/ base \notin Numbers
            \/ base \in Numbers /\ base + d \notin Numbers
         /\ reply' = <<"error">>
         /\ UNCHANGED <<value, deadline, now>>

\* Time passes and takes every key whose deadline has come with it.
Elapse ==
  LET gone == {k \in Keys : deadline[k] # NoExpiry /\ deadline[k] <= now + 1}
  IN  /\ now < MaxTime
      /\ now' = now + 1
      /\ value' = [k \in Keys |-> IF k \in gone THEN Absent ELSE value[k]]
      /\ deadline' = [k \in Keys |-> IF k \in gone THEN NoExpiry ELSE deadline[k]]
      /\ UNCHANGED reply

Next ==
  \/ \E k \in Keys :
       \/ \E v \in Words \cup Numbers, life \in Lifetimes : Put(k, v, life)
       \/ Get(k)
       \/ Add(k, 1)
       \/ Add(k, -1)
  \/ Elapse

Spec == Init /\ [][Next]_vars
=============================================================================
