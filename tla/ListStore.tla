------------------------------ MODULE ListStore ------------------------------
(***************************************************************************)
(* Lists: get_lists() of src/lib/store.cpp and the RPUSH/LPUSH, LPOP,      *)
(* LRANGE and LLEN handlers, with the index arithmetic of the handlers.    *)
(***************************************************************************)
EXTENDS Integers, Sequences, Replies

CONSTANTS
  ListKeys,  \* the keys clients use for lists
  Items,     \* the elements
  Batches,   \* the argument lists of a push: nonempty sequences of Items
  Indices,   \* the integers clients pass as an index or a count
  MaxList,   \* bound on the length of a list
  NoList     \* the key is not in the map

ASSUME ListAssumption ==
  /\ \A b \in Batches : b \in Seq(Items) /\ b # <<>>
  /\ \A i \in Indices : i \in Int
  /\ MaxList \in Nat
  /\ NoList \notin Seq(Items)

VARIABLE lists  \* get_lists(): the list of every key, or NoList

listVars == <<lists, reply>>

ListAt(k) == IF lists[k] = NoList THEN <<>> ELSE lists[k]

Smaller(a, b) == IF a <= b THEN a ELSE b

\* LPUSH inserts its arguments one by one in front, so the last one leads.
InFront_unreversed(items, s) == items \o s
InFront(items, s) == [i \in 1..Len(items) |-> items[Len(items) + 1 - i]] \o s

handle_rpush(k, items) ==
  /\ Len(ListAt(k)) + Len(items) <= MaxList
  /\ lists' = [lists EXCEPT ![k] = ListAt(k) \o items]
  /\ reply' = Count(Len(ListAt(k)) + Len(items))

handle_lpush(k, items) ==
  /\ Len(ListAt(k)) + Len(items) <= MaxList
  /\ lists' = [lists EXCEPT ![k] = InFront(items, ListAt(k))]
  /\ reply' = Count(Len(ListAt(k)) + Len(items))

\* What erasing the first n elements leaves: a key without a list when
\* nothing is left.
Without(s, n) == IF n = Len(s) THEN NoList ELSE SubSeq(s, n + 1, Len(s))

\* LPOP key.  A missing key and one with an empty list both answer nil, and
\* the empty list is dropped.
lpop_keeping_empty(k) ==
  \/ /\ ListAt(k) = <<>>
     /\ reply' = Nil
     /\ UNCHANGED lists
  \/ /\ ListAt(k) # <<>>
     /\ lists' = [lists EXCEPT ![k] = Without(lists[k], 1)]
     /\ reply' = Bulk(lists[k][1])
lpop_command_handler(k) ==
  \/ /\ ListAt(k) = <<>>
     /\ lists' = [lists EXCEPT ![k] = NoList]
     /\ reply' = Nil
  \/ /\ ListAt(k) # <<>>
     /\ lists' = [lists EXCEPT ![k] = Without(lists[k], 1)]
     /\ reply' = Bulk(lists[k][1])

\* LPOP key count.
lpop_count(k, count) ==
  LET num == Smaller(count, Len(ListAt(k)))
  IN  \/ /\ ListAt(k) = <<>>
         /\ lists' = [lists EXCEPT ![k] = NoList]
         /\ reply' = Nil
      \/ /\ ListAt(k) # <<>> /\ count < 0
         /\ reply' = Error
         /\ UNCHANGED lists
      \/ /\ ListAt(k) # <<>> /\ count >= 0
         /\ lists' = [lists EXCEPT ![k] = Without(lists[k], num)]
         /\ reply' = <<"array", SubSeq(lists[k], 1, num)>>

\* The bounds LRANGE loops between, from 0, after its two clamps.
RangeStart(start, len) ==
  IF start >= 0 THEN start ELSE IF len + start < 0 THEN 0 ELSE len + start
RangeEnd(end, len) ==
  LET last == IF end < 0 THEN len + end ELSE end
  IN  IF last >= len THEN len - 1 ELSE last

lrange_command_handler(k, start, end) ==
  LET len == Len(ListAt(k))
      s   == RangeStart(start, len)
      e   == RangeEnd(end, len)
  IN  /\ reply' = <<"array", IF s > e \/ s >= len THEN <<>>
                             ELSE SubSeq(ListAt(k), s + 1, e + 1)>>
      /\ UNCHANGED lists

\* LLEN reads through operator[], which leaves an empty list behind.
llen_command_handler(k) ==
  /\ lists' = [lists EXCEPT ![k] = ListAt(k)]
  /\ reply' = Count(Len(ListAt(k)))

InitLists == lists = [k \in ListKeys |-> NoList]
ListInit  == InitLists /\ reply = <<"none">>

ListNext ==
  \E k \in ListKeys :
    \/ \E items \in Batches : handle_rpush(k, items) \/ handle_lpush(k, items)
    \/ lpop_command_handler(k)
    \/ \E n \in Indices : lpop_count(k, n)
    \/ \E start, end \in Indices : lrange_command_handler(k, start, end)
    \/ llen_command_handler(k)

ListSpec == ListInit /\ [][ListNext]_listVars

-----------------------------------------------------------------------------
\* "Redis deletes the key when the list empties"
\* (lpop-command-handler.cpp:41), and "clean up the dangling key" (line 29): a
\* key that was popped, with or without a count, has no empty list, be it one
\* the pop has emptied or one that LLEN had made.
PopsLeaveNoEmptyList ==
  [][\A k \in ListKeys :
       lpop_command_handler(k) \/ (\E n \in Indices : lpop_count(k, n)) => lists'[k] # <<>>
    ]_listVars

\* The handlers implement plain deques: the clamps of LRANGE select exactly
\* the positions the two indices name, however far outside the list they
\* are, the clamped LPOP count takes a prefix, and whether LLEN has left an
\* empty list behind is visible to none of them.
PlainDeques == INSTANCE Deques WITH list <- [k \in ListKeys |-> ListAt(k)]

ListsAreDeques == PlainDeques!Spec
=============================================================================
