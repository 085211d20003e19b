---------------------------- MODULE Keyspace_proofs ----------------------------
(***************************************************************************)
(* Proofs about the three maps of the server, one part for each.           *)
(*                                                                         *)
(* Strings, for every range of long long, every lifetime and every         *)
(* history: entries stay storable, and the map that expires lazily         *)
(* implements ExpiringMap, where a key disappears exactly at its deadline. *)
(* The type invariant is what the refinement rests on: the mapping         *)
(* compares deadlines, which are integers, and tells entries from NoEntry. *)
(*                                                                         *)
(* Lists, for every length, batch and index: what the handlers store are   *)
(* lists, a pop leaves no empty one behind, and the handlers with their    *)
(* clamps and their operator[] implement Deques.                           *)
(*                                                                         *)
(* Streams, for every width of the id halves, every set of keys and every  *)
(* way the wall clock jumps: ids strictly increase along a stream, a       *)
(* stream only grows at its end, the clock gives ids that can be used, a   *)
(* sleeping XREAD is given nothing it has slept for, and reading on from   *)
(* an id loses and repeats nothing.  The order is inductive only together  *)
(* with last_id: XADD compares with last_id alone, so that last_id is the  *)
(* id of the last entry (the third part of IdsIncrease) is what makes the  *)
(* check speak of all the entries.                                         *)
(***************************************************************************)
EXTENDS Keyspace, SequenceTheorems, FiniteSetTheorems, WellFoundedInduction, TLAPS

(***************************************************************************)
(* STRINGS                                                                 *)
(***************************************************************************)
-----------------------------------------------------------------------------
(* Types *)

LEMMA ConstantFacts ==
  /\ LLONG_MIN \in Int /\ LLONG_MAX \in Int /\ LLONG_MIN < 0 /\ 0 < LLONG_MAX
  /\ NoExpiry \notin Int /\ NoEntry \notin Int /\ NoEntry \notin Words
  /\ NoEntry \notin Values /\ NoEntry \notin Entry
  /\ \A w \in Words : w \notin Int
  /\ MaxTime \in Nat
BY StringStoreAssumption DEF Values, Numbers, Entry

LEMMA LifetimeType ==
  ASSUME NEW opt \in SetOptions PROVE Lifetime(opt) \in Int \cup {NoExpiry}
BY StringStoreAssumption DEF Lifetime

\* What the proofs use of the type invariant.
LEMMA StoreFacts ==
  ASSUME StoreTypeOK
  PROVE  store \in [Keys -> Entry \cup {NoEntry}] /\ now \in Int
<1>1. now \in 0..MaxTime
  BY Zenon DEF StoreTypeOK
<1>2. store \in [Keys -> Entry \cup {NoEntry}]
  BY Zenon DEF StoreTypeOK
<1> QED
  BY <1>1, <1>2, ConstantFacts

LEMMA ExpiryType ==
  ASSUME StoreTypeOK, NEW opt \in SetOptions
  PROVE  /\ Expiry(opt) \in Int \cup {NoExpiry}
         /\ Expiry(opt) = NoExpiry <=> Lifetime(opt) = NoExpiry
BY LifetimeType, ConstantFacts, StoreFacts DEF Expiry

LEMMA StoreTypeInit == StoreInit => StoreTypeOK
BY ConstantFacts DEF StoreInit, InitStore, StoreTypeOK

\* INCR and DECR stay in the range: the guard excludes the one value that
\* has no successor in their direction.
LEMMA StepCounterType ==
  ASSUME StoreTypeOK, NEW k \in Keys, NEW d \in {1, -1},
         NEW limit \in Int, limit = IF d = 1 THEN LLONG_MAX ELSE LLONG_MIN,
         StepCounter(k, d, limit)
  PROVE  StoreTypeOK'
<1>1. now' = now
  BY DEF StepCounter
<1>2. CASE ~Live(k)
  <2>1. d \in Numbers
    BY ConstantFacts DEF Numbers
  <2>2. /\ store' = [store EXCEPT ![k] = [value |-> d, expiry |-> NoExpiry]]
        /\ reply' = Count(d)
    BY <1>2 DEF StepCounter
  <2> QED BY <1>1, <2>1, <2>2 DEF StoreTypeOK, Entry, Values
<1>3. CASE Live(k) /\ store[k].value \in Words \cup {limit}
  <2>1. store' = store /\ reply' = Error
    BY <1>3, ConstantFacts DEF StepCounter, Numbers
  <2> QED BY <1>1, <2>1 DEF StoreTypeOK
<1>4. CASE Live(k) /\ store[k].value \in Numbers \ {limit}
  <2>1. store[k].value + d \in Numbers
    BY <1>4, ConstantFacts DEF Numbers
  <2>2. store' = [store EXCEPT ![k].value = @ + d] /\ reply' = Count(store[k].value + d)
    BY <1>4, ConstantFacts DEF StepCounter, Numbers
  <2>3. store[k] \in Entry
    BY <1>4 DEF StoreTypeOK, Live
  <2> QED BY <1>1, <2>1, <2>2, <2>3 DEF StoreTypeOK, Entry, Values
<1> QED
  BY <1>2, <1>3, <1>4 DEF StepCounter

LEMMA StoreTypeStep == StoreTypeOK /\ [StoreNext]_storeVars => StoreTypeOK'
<1> SUFFICES ASSUME StoreTypeOK, [StoreNext]_storeVars PROVE StoreTypeOK'
  OBVIOUS
<1>1. ASSUME NEW k \in Keys, NEW v \in Values, NEW opt \in SetOptions,
             set_command_handler(k, v, opt)
      PROVE  StoreTypeOK'
  <2>1. [value |-> v, expiry |-> Expiry(opt)] \in Entry
    BY ExpiryType DEF Entry
  <2> QED BY <1>1, <2>1 DEF set_command_handler, StoreTypeOK
<1>2. ASSUME NEW k \in Keys, get_command_handler(k) PROVE StoreTypeOK'
  <2>1. Live(k) => store[k].value \in Values
    BY DEF Live, StoreTypeOK, Entry
  <2> QED BY <1>2, <2>1 DEF get_command_handler, StoreTypeOK
<1>3. ASSUME NEW k \in Keys, incr_command_handler(k) PROVE StoreTypeOK'
  BY <1>3, StepCounterType, ConstantFacts DEF incr_command_handler
<1>4. ASSUME NEW k \in Keys, decr_command_handler(k) PROVE StoreTypeOK'
  BY <1>4, StepCounterType, ConstantFacts DEF decr_command_handler
<1>5. CASE Tick
  BY <1>5, ConstantFacts DEF Tick, StoreTypeOK
<1>6. CASE UNCHANGED storeVars
  BY <1>6 DEF storeVars, StoreTypeOK
<1> QED
  BY <1>1, <1>2, <1>3, <1>4, <1>5, <1>6 DEF StoreNext

\* No history of SET, GET, INCR and DECR stores a number outside long long.
THEOREM StoreTyped == StoreSpec => []StoreTypeOK
BY StoreTypeInit, StoreTypeStep, PTL DEF StoreSpec

-----------------------------------------------------------------------------
(* Lazy expiry implements expiry at the deadline *)

\* What clients can see of the store: the values and the deadlines of the
\* entries whose time has not come.
Seen     == [k \in Keys |-> IF Live(k) THEN store[k].value ELSE NoEntry]
SeenEnds == [k \in Keys |-> IF Live(k) THEN store[k].expiry ELSE NoExpiry]

Over(entry) == entry.expiry # NoExpiry /\ now >= entry.expiry

\* Writing an entry shows at its key, unless its time is already over.
LEMMA WriteShows ==
  ASSUME StoreTypeOK, NEW k \in Keys, NEW e \in Entry,
         store' = [store EXCEPT ![k] = e], now' = now
  PROVE  /\ Seen' = [Seen EXCEPT ![k] = IF Over(e) THEN NoEntry ELSE e.value]
         /\ SeenEnds' = [SeenEnds EXCEPT ![k] = IF Over(e) THEN NoExpiry ELSE e.expiry]
<1>1. e # NoEntry
  BY ConstantFacts
<1>2. \A l \in Keys : store'[l] = IF l = k THEN e ELSE store[l]
  BY StoreFacts
<1>3. \A l \in Keys :
        Seen'[l] = IF l = k THEN (IF Over(e) THEN NoEntry ELSE e.value) ELSE Seen[l]
  BY <1>1, <1>2 DEF Seen, Over, Live, is_expired
<1>4. \A l \in Keys :
        SeenEnds'[l] = IF l = k THEN (IF Over(e) THEN NoExpiry ELSE e.expiry)
                       ELSE SeenEnds[l]
  BY <1>1, <1>2 DEF SeenEnds, Over, Live, is_expired
<1>5. /\ Seen = [l \in Keys |-> Seen[l]] /\ Seen' = [l \in Keys |-> Seen'[l]]
      /\ SeenEnds = [l \in Keys |-> SeenEnds[l]]
      /\ SeenEnds' = [l \in Keys |-> SeenEnds'[l]]
  BY DEF Seen, SeenEnds
<1>6. Seen' = [Seen EXCEPT ![k] = IF Over(e) THEN NoEntry ELSE e.value]
  BY <1>3, <1>5
<1>7. SeenEnds' = [SeenEnds EXCEPT ![k] = IF Over(e) THEN NoExpiry ELSE e.expiry]
  BY <1>4, <1>5
<1> QED
  BY <1>6, <1>7

\* Erasing an entry whose time is over does not show.
LEMMA EraseHides ==
  ASSUME StoreTypeOK, NEW k \in Keys, ~Live(k),
         store' = [store EXCEPT ![k] = NoEntry], now' = now
  PROVE  Seen' = Seen /\ SeenEnds' = SeenEnds
<1>1. \A l \in Keys : store'[l] = IF l = k THEN NoEntry ELSE store[l]
  BY StoreFacts
<1> QED
  BY <1>1 DEF Seen, SeenEnds, Live, is_expired

LEMMA SetRefines ==
  ASSUME StoreTypeOK, NEW k \in Keys, NEW v \in Values, NEW opt \in SetOptions,
         set_command_handler(k, v, opt)
  PROVE  EagerMap!Put(k, v, Lifetime(opt))
<1> DEFINE e == [value |-> v, expiry |-> Expiry(opt)]
<1>1. e \in Entry
  BY ExpiryType DEF Entry
<1>2. /\ store' = [store EXCEPT ![k] = e] /\ now' = now /\ reply' = Ok
  BY DEF set_command_handler
<1>3. Over(e) <=> Lifetime(opt) # NoExpiry /\ Lifetime(opt) <= 0
  BY LifetimeType, ExpiryType, ConstantFacts, StoreFacts DEF Over, Expiry
<1>4. /\ Seen' = [Seen EXCEPT ![k] = IF Over(e) THEN NoEntry ELSE e.value]
      /\ SeenEnds' = [SeenEnds EXCEPT ![k] = IF Over(e) THEN NoExpiry ELSE e.expiry]
  BY <1>1, <1>2, WriteShows
<1> QED
  BY <1>2, <1>3, <1>4 DEF EagerMap!Put, Seen, SeenEnds, Expiry, Ok

LEMMA GetRefines ==
  ASSUME StoreTypeOK, NEW k \in Keys, get_command_handler(k)
  PROVE  EagerMap!Get(k)
<1>1. now' = now
  BY DEF get_command_handler
<1>2. Seen' = Seen /\ SeenEnds' = SeenEnds
  <2>1. CASE store' = store
    BY <1>1, <2>1 DEF Seen, SeenEnds, Live, is_expired
  <2>2. CASE store' # store
    <3>1. ~Live(k) /\ store' = [store EXCEPT ![k] = NoEntry]
      BY <2>2 DEF get_command_handler, Live
    <3> QED BY <1>1, <3>1, EraseHides
  <2> QED BY <2>1, <2>2
<1>3. Live(k) => store[k].value # NoEntry
  BY ConstantFacts DEF Live, StoreTypeOK, Entry
<1>4. reply' = IF Live(k) THEN Bulk(store[k].value) ELSE Nil
  BY DEF get_command_handler, Live
<1> QED
  BY <1>1, <1>2, <1>3, <1>4 DEF EagerMap!Get, Seen, SeenEnds, Bulk, Nil

LEMMA StepCounterRefines ==
  ASSUME StoreTypeOK, NEW k \in Keys, NEW d \in {1, -1},
         NEW limit \in Int, limit = IF d = 1 THEN LLONG_MAX ELSE LLONG_MIN,
         StepCounter(k, d, limit)
  PROVE  EagerMap!Add(k, d)
<1> DEFINE base == IF Seen[k] = NoEntry THEN 0 ELSE Seen[k]
<1>0. now' = now /\ EagerMap!Numbers = Numbers
  BY DEF StepCounter, EagerMap!Numbers, Numbers
<1>1. CASE ~Live(k)
  <2> DEFINE e == [value |-> d, expiry |-> NoExpiry]
  <2>1. d \in Numbers /\ e \in Entry
    BY ConstantFacts DEF Numbers, Values, Entry
  <2>2. store' = [store EXCEPT ![k] = e] /\ reply' = Count(d)
    BY <1>1 DEF StepCounter
  <2>3. /\ Seen' = [Seen EXCEPT ![k] = d]
        /\ SeenEnds' = [SeenEnds EXCEPT ![k] = NoExpiry]
    BY <1>0, <2>1, <2>2, WriteShows DEF Over
  <2>4. SeenEnds' = SeenEnds
    BY <1>1, <2>3 DEF SeenEnds
  <2>5. base = 0 /\ 0 \in Numbers /\ 0 + d = d
    BY <1>1, ConstantFacts DEF Seen, Numbers
  <2> QED
    BY <1>0, <2>1, <2>2, <2>3, <2>4, <2>5 DEF EagerMap!Add, Seen, SeenEnds, Count
<1>2. CASE Live(k) /\ store[k].value \in Words \cup {limit}
  <2>1. store' = store /\ reply' = Error
    BY <1>2, ConstantFacts DEF StepCounter, Numbers
  <2>2. Seen' = Seen /\ SeenEnds' = SeenEnds
    BY <1>0, <2>1 DEF Seen, SeenEnds, Live, is_expired
  <2>3. base = store[k].value
    BY <1>2, ConstantFacts DEF Seen
  <2>4. base \notin Numbers \/ (base \in Numbers /\ base + d \notin Numbers)
    BY <1>2, <2>3, ConstantFacts DEF Numbers
  <2> QED
    BY <1>0, <2>1, <2>2, <2>4 DEF EagerMap!Add, Seen, SeenEnds, Error
<1>3. CASE Live(k) /\ store[k].value \in Numbers \ {limit}
  <2> DEFINE n == store[k].value + d
             e == [value |-> n, expiry |-> store[k].expiry]
  <2>1. n \in Numbers /\ store[k] \in Entry
    <3>1. n \in Numbers
      BY <1>3, ConstantFacts DEF Numbers
    <3>2. store[k] \in Entry
      BY <1>3, StoreFacts DEF Live
    <3> QED
      BY <3>1, <3>2
  <2>2. e \in Entry /\ [store[k] EXCEPT !.value = n] = e
    BY <2>1 DEF Entry, Values
  <2>3. store' = [store EXCEPT ![k] = e] /\ reply' = Count(n)
    BY <1>3, <2>2, ConstantFacts DEF StepCounter, Numbers
  <2>4. ~Over(e)
    BY <1>3 DEF Over, Live, is_expired
  <2> HIDE DEF n
  <2>5. /\ Seen' = [Seen EXCEPT ![k] = n]
        /\ SeenEnds' = [SeenEnds EXCEPT ![k] = store[k].expiry]
    BY <1>0, <2>2, <2>3, <2>4, WriteShows
  <2>6. SeenEnds' = SeenEnds
    BY <1>3, <2>5 DEF SeenEnds
  <2>7. base = store[k].value /\ base \in Numbers /\ base + d = n
    BY <1>3, ConstantFacts DEF Seen, n, Numbers
  <2> QED
    BY <1>0, <2>1, <2>3, <2>5, <2>6, <2>7 DEF EagerMap!Add, Seen, SeenEnds, Count
<1> QED
  BY <1>1, <1>2, <1>3 DEF StepCounter

LEMMA TickRefines ==
  ASSUME StoreTypeOK, Tick PROVE EagerMap!Elapse
<1> DEFINE gone == {k \in Keys : SeenEnds[k] # NoExpiry /\ SeenEnds[k] <= now + 1}
<1>1. now < MaxTime /\ now' = now + 1 /\ store' = store /\ reply' = reply
  BY DEF Tick
<1>2. \A k \in Keys : Live(k)' <=> Live(k) /\ k \notin gone
  <2> SUFFICES ASSUME NEW k \in Keys PROVE Live(k)' <=> Live(k) /\ k \notin gone
    OBVIOUS
  <2>1. store[k] = NoEntry \/ store[k].expiry \in Int \cup {NoExpiry}
    BY DEF StoreTypeOK, Entry
  <2> QED BY <1>1, <2>1, ConstantFacts DEF Live, is_expired, SeenEnds, StoreTypeOK
<1>3. /\ Seen' = [k \in Keys |-> IF k \in gone THEN NoEntry ELSE Seen[k]]
      /\ SeenEnds' = [k \in Keys |-> IF k \in gone THEN NoExpiry ELSE SeenEnds[k]]
  BY <1>1, <1>2 DEF Seen, SeenEnds
<1> QED
  BY <1>1, <1>3 DEF EagerMap!Elapse, Seen, SeenEnds

\* Expiry on access cannot be told from expiry at the deadline: every
\* behaviour of the store, seen through its live entries, is one of
\* ExpiringMap.
THEOREM StoreRefinesExpiringMap == StoreSpec => LazyExpiryUnobservable
<1>1. StoreInit => EagerMap!Init
  BY DEF StoreInit, InitStore, EagerMap!Init, Live
<1>2. ASSUME StoreTypeOK, [StoreNext]_storeVars
      PROVE  [EagerMap!Next]_(EagerMap!vars)
  <2>1. ASSUME NEW k \in Keys, NEW v \in Values, NEW opt \in SetOptions,
               set_command_handler(k, v, opt)
        PROVE  EagerMap!Next
    <3>1. v \in Words \cup EagerMap!Numbers
      BY DEF Values, Numbers, EagerMap!Numbers
    <3> QED BY <1>2, <2>1, <3>1, SetRefines DEF EagerMap!Next
  <2>2. ASSUME NEW k \in Keys, get_command_handler(k) PROVE EagerMap!Next
    BY <1>2, <2>2, GetRefines DEF EagerMap!Next
  <2>3. ASSUME NEW k \in Keys, incr_command_handler(k) PROVE EagerMap!Next
    <3>1. EagerMap!Add(k, 1)
      BY <1>2, <2>3, StepCounterRefines, ConstantFacts DEF incr_command_handler
    <3> QED BY <3>1 DEF EagerMap!Next
  <2>4. ASSUME NEW k \in Keys, decr_command_handler(k) PROVE EagerMap!Next
    <3>1. EagerMap!Add(k, -1)
      BY <1>2, <2>4, StepCounterRefines, ConstantFacts DEF decr_command_handler
    <3> QED BY <3>1 DEF EagerMap!Next
  <2>5. CASE Tick
    BY <1>2, <2>5, TickRefines DEF EagerMap!Next
  <2>6. CASE UNCHANGED storeVars
    BY <2>6 DEF storeVars, EagerMap!vars, Live, is_expired
  <2> QED
    BY <1>2, <2>1, <2>2, <2>3, <2>4, <2>5, <2>6 DEF StoreNext
<1> QED
  BY <1>1, <1>2, StoreTypeInit, StoreTypeStep, PTL
     DEF StoreSpec, LazyExpiryUnobservable, EagerMap!Spec

(***************************************************************************)
(* LISTS                                                                   *)
(***************************************************************************)
\* What everybody but LLEN and LPOP sees of an entry of the map.
Plain(t) == IF t = NoList THEN <<>> ELSE t

\* The mapping of ListsAreDeques.
Plains == [k \in ListKeys |-> ListAt(k)]

\* What the proofs of this part need to know of the map.
ListTypeOK ==
  /\ lists \in [ListKeys -> Seq(Items) \cup {NoList}]
  /\ \A k \in ListKeys : Len(ListAt(k)) <= MaxList

-----------------------------------------------------------------------------
(* The map *)

LEMMA ListFacts ==
  ASSUME ListTypeOK, NEW k \in ListKeys
  PROVE  /\ ListAt(k) \in Seq(Items) /\ Len(ListAt(k)) \in Nat
         /\ Len(ListAt(k)) <= MaxList /\ Plains[k] = ListAt(k)
         /\ ListAt(k) # <<>> => lists[k] = ListAt(k)
         /\ MaxList \in Nat /\ NoList \notin Seq(Items) /\ <<>> \in Seq(Items) /\ Len(<<>>) = 0
<1>1. ListAt(k) \in Seq(Items) /\ (ListAt(k) # <<>> => lists[k] = ListAt(k))
  BY DEF ListTypeOK, ListAt
<1>2. Len(ListAt(k)) \in Nat
  BY <1>1, LenProperties
<1>3. Len(ListAt(k)) <= MaxList
  BY DEF ListTypeOK
<1> QED
  BY <1>1, <1>2, <1>3, ListAssumption, EmptySeq DEF Plains

\* Every write stores a list, or none, under one key.
Stored(k, t) ==
  /\ t \in Seq(Items) \cup {NoList}
  /\ Len(Plain(t)) <= MaxList
  /\ lists' = [lists EXCEPT ![k] = t]

LEMMA StoreOne ==
  ASSUME ListTypeOK, NEW k \in ListKeys, NEW t, Stored(k, t)
  PROVE  /\ ListTypeOK'
         /\ lists'[k] = t /\ \A j \in ListKeys : j # k => lists'[j] = lists[j]
         /\ Plains' = [Plains EXCEPT ![k] = Plain(t)]
<1>1. lists \in [ListKeys -> Seq(Items) \cup {NoList}]
  BY DEF ListTypeOK
<1>2. lists'[k] = t /\ \A j \in ListKeys : j # k => lists'[j] = lists[j]
  BY <1>1 DEF Stored
<1>3. lists' \in [ListKeys -> Seq(Items) \cup {NoList}]
  BY <1>1 DEF Stored
<1>4. \A j \in ListKeys : ListAt(j)' = IF j = k THEN Plain(t) ELSE ListAt(j)
  BY <1>2 DEF ListAt, Plain
<1>5. \A j \in ListKeys : Len(ListAt(j)') <= MaxList
  BY <1>4 DEF Stored, ListTypeOK
<1>6. Plains' = [Plains EXCEPT ![k] = Plain(t)]
  BY <1>4 DEF Plains
<1> QED
  BY <1>2, <1>3, <1>5, <1>6 DEF ListTypeOK

\* No list and an empty list look alike.
LEMMA StoreSame ==
  ASSUME ListTypeOK, NEW k \in ListKeys, NEW t, Stored(k, t), Plain(t) = ListAt(k)
  PROVE  Plains' = Plains
BY StoreOne DEF Plains

-----------------------------------------------------------------------------
(* The operators of the handlers *)

LEMMA PopFacts ==
  ASSUME NEW s \in Seq(Items), s # <<>>, NEW n \in Nat, n <= Len(s), NoList \notin Seq(Items)
  PROVE  /\ Without(s, n) \in Seq(Items) \cup {NoList} /\ Without(s, n) # <<>>
         /\ Plain(Without(s, n)) = SubSeq(s, n + 1, Len(s))
         /\ Len(Plain(Without(s, n))) <= Len(s)
<1>1. Len(s) \in Nat /\ \A i \in 1..Len(s) : s[i] \in Items
  BY LenProperties, ElementOfSeq
<1> DEFINE r == SubSeq(s, n + 1, Len(s))
<1>2. \A i \in n + 1..Len(s) : s[i] \in Items
  BY <1>1
<1>3. n + 1 \in Int /\ Len(s) \in Int
  BY <1>1
<1>4. /\ r \in Seq(Items)
      /\ Len(r) = IF n + 1 <= Len(s) THEN Len(s) - (n + 1) + 1 ELSE 0
  BY <1>2, <1>3, SubSeqProperties
<1>5. n = Len(s) => r = <<>>
  BY <1>1, SubSeqEmpty
<1>6. n # Len(s) => r # <<>>
  <2>1. n # Len(s) => Len(r) # 0
    BY <1>1, <1>4
  <2> QED BY <2>1, EmptySeq, Zenon
<1>7. r # NoList
  BY <1>4
<1>8. Len(r) <= Len(s)
  BY <1>1, <1>4
<1>9. Without(s, n) = IF n = Len(s) THEN NoList ELSE r
  BY DEF Without
<1> HIDE DEF r
<1>10. Plain(Without(s, n)) = r
  BY <1>5, <1>7, <1>9 DEF Plain
<1>11. Without(s, n) \in Seq(Items) \cup {NoList}
  BY <1>4, <1>9
<1>12. Without(s, n) # <<>>
  BY <1>6, <1>9, EmptySeq
<1> QED
  BY <1>8, <1>10, <1>11, <1>12 DEF r

\* std::min and the choice of a least element agree.
LEMMA SmallerIsMin ==
  ASSUME NEW a \in Int, NEW b \in Int
  PROVE  Smaller(a, b) = PlainDeques!Min({a, b})
<1> DEFINE m == Smaller(a, b)
<1>1. m \in {a, b} /\ \A y \in {a, b} : m =< y
  BY DEF Smaller
<1>2. \A x \in {a, b} : (\A y \in {a, b} : x =< y) => x = m
  BY <1>1
<1> QED
  BY <1>1, <1>2, Zenon DEF PlainDeques!Min

LEMMA PushedInFront ==
  ASSUME NEW items \in Seq(Items), NEW s \in Seq(Items)
  PROVE  /\ InFront(items, s) = PlainDeques!Reverse(items) \o s
         /\ InFront(items, s) \in Seq(Items)
         /\ Len(InFront(items, s)) = Len(items) + Len(s)
<1> DEFINE r == [i \in 1..Len(items) |-> items[Len(items) + 1 - i]]
<1>1. Len(items) \in Nat /\ \A i \in 1..Len(items) : items[i] \in Items
  BY LenProperties, ElementOfSeq
<1>2. \A i \in 1..Len(items) : /\ Len(items) + 1 - i \in 1..Len(items)
                               /\ Len(items) + 1 - i = (Len(items) - i) + 1
  BY <1>1
<1>3. r = PlainDeques!Reverse(items)
  BY <1>2, Zenon DEF PlainDeques!Reverse
<1>4. r \in [1..Len(items) -> Items]
  BY <1>1, <1>2
<1>5. r \in Seq(Items) /\ Len(r) = Len(items)
  BY <1>1, <1>4, SeqDef, LenProperties
<1> HIDE DEF r
<1>6. InFront(items, s) = r \o s
  BY DEF InFront, r
<1>7. r \o s \in Seq(Items) /\ Len(r \o s) = Len(r) + Len(s)
  BY <1>5, ConcatProperties
<1> QED
  BY <1>3, <1>5, <1>6, <1>7, Zenon

\* The positions that lie between two indices are those between the clamps.
LEMMA SliceIsSubSeq ==
  ASSUME NEW s \in Seq(Items), NEW start \in Int, NEW end \in Int
  PROVE  LET f == RangeStart(start, Len(s))
             e == RangeEnd(end, Len(s))
         IN  PlainDeques!Slice(s, start, end)
               = IF f > e \/ f >= Len(s) THEN <<>> ELSE SubSeq(s, f + 1, e + 1)
<1> DEFINE n == Len(s)
           f == RangeStart(start, n)
           e == RangeEnd(end, n)
           wanted == {p \in 1..n : /\ PlainDeques!Position(start, n) <= p - 1
                                   /\ p - 1 <= PlainDeques!Position(end, n)}
           size == PlainDeques!Cardinality(wanted)
           least == PlainDeques!Min(wanted)
<1>1. n \in Nat /\ DOMAIN s = 1..n
  BY LenProperties
<1>2. PlainDeques!Slice(s, start, end) = [j \in 1..size |-> s[least + j - 1]]
  BY <1>1, Zenon DEF PlainDeques!Slice
<1> HIDE DEF n
<1>3. f \in Nat /\ e \in Int /\ e < n
  BY <1>1 DEF RangeStart, RangeEnd
<1>4. \A p \in 1..n : p \in wanted <=> f <= p - 1 /\ p - 1 <= e
  BY <1>1 DEF RangeStart, RangeEnd, PlainDeques!Position
<1>4a. wanted \subseteq 1..n
  OBVIOUS
<1> HIDE DEF f, e, wanted
<1>5. wanted = f + 1..e + 1
  <2>1. ASSUME NEW p \in wanted PROVE p \in f + 1..e + 1
    <3>1. p \in 1..n /\ f <= p - 1 /\ p - 1 <= e
      BY <1>4, <1>4a
    <3> QED BY <1>1, <1>3, <3>1
  <2>2. ASSUME NEW p \in f + 1..e + 1 PROVE p \in wanted
    <3>1. p \in 1..n /\ f <= p - 1 /\ p - 1 <= e
      BY <1>1, <1>3
    <3> QED BY <1>4, <3>1
  <2> QED BY <2>1, <2>2
<1>6. size = IF f > e THEN 0 ELSE e - f + 1
  <2>1. size = Cardinality(wanted)
    BY Zenon DEF PlainDeques!Cardinality, Cardinality
  <2>2. Cardinality(f + 1..e + 1) = IF f + 1 > e + 1 THEN 0 ELSE e + 1 - (f + 1) + 1
    BY <1>3, FS_Interval
  <2> QED BY <1>3, <1>5, <2>1, <2>2
<1> HIDE DEF size
<1>7. CASE f > e \/ f >= n
  <2>1. f > e
    BY <1>1, <1>3, <1>7
  <2>2. size = 0
    BY <1>6, <2>1
  <2>3. [j \in 1..size |-> s[least + j - 1]] = <<>>
    BY <2>2
  <2> QED BY <1>2, <1>7, <2>3 DEF n, f, e
<1>8. CASE ~(f > e \/ f >= n)
  <2>1. f <= e /\ f < n
    BY <1>1, <1>3, <1>8
  <2>2. least = f + 1
    <3>1. f + 1 \in wanted /\ \A y \in wanted : f + 1 =< y
      BY <1>3, <1>5, <2>1
    <3>2. \A x \in wanted : (\A y \in wanted : x =< y) => x = f + 1
      BY <1>3, <1>5, <3>1
    <3> QED BY <3>1, <3>2, Zenon DEF PlainDeques!Min
  <2>3. size = e + 1 - (f + 1) + 1
    BY <1>3, <1>6, <2>1
  <2>4. f + 1 \in Int /\ e + 1 \in Int
    BY <1>3
  <2>5. SubSeq(s, f + 1, e + 1) = [j \in 1..size |-> s[least + j - 1]]
    <3> HIDE DEF least
    <3> DEFINE r == SubSeq(s, f + 1, e + 1)
               t == [j \in 1..size |-> s[least + j - 1]]
    <3>1. \A j \in f + 1..e + 1 : s[j] \in Items
      <4>1. \A j \in f + 1..e + 1 : j \in 1..n
        BY <1>1, <1>3
      <4> QED BY <4>1, ElementOfSeq DEF n
    <3>2. /\ r \in Seq(Items) /\ Len(r) = size
          /\ \A j \in 1..(e + 1) - (f + 1) + 1 : r[j] = s[f + 1 + j - 1]
      BY <1>3, <2>1, <2>3, <2>4, <3>1, SubSeqProperties
    <3>3. \A j \in 1..size : t[j] = s[f + 1 + j - 1] /\ f + 1 + j - 1 \in f + 1..e + 1
      BY <1>3, <2>2, <2>3
    <3>4. size \in Nat /\ size = (e + 1) - (f + 1) + 1
      BY <1>3, <2>1, <2>3
    <3>5. t \in [1..size -> Items]
      BY <3>1, <3>3
    <3> HIDE DEF r, t
    <3>6. t \in Seq(Items) /\ Len(t) = size
      BY <3>4, <3>5, SeqDef, LenProperties
    <3>7. \A j \in 1..size : r[j] = t[j]
      BY <3>2, <3>3, <3>4
    <3>8. r = t
      BY <3>2, <3>6, <3>7, SeqEqual
    <3> QED BY <3>8 DEF r, t
  <2> QED BY <1>2, <1>8, <2>5 DEF n, f, e
<1> QED
  BY <1>7, <1>8

-----------------------------------------------------------------------------
(* The handlers: each keeps the type invariant and is a step of Deques, and *)
(* a pop leaves no empty list                                              *)

LEMMA PushTailCorrect ==
  ASSUME ListTypeOK, NEW k \in ListKeys, NEW items \in Batches, handle_rpush(k, items)
  PROVE  ListTypeOK' /\ PlainDeques!PushTail(k, items)
<1> DEFINE t == ListAt(k) \o items
<1>1. items \in Seq(Items)
  BY ListAssumption
<1>2. t \in Seq(Items) /\ Len(t) = Len(ListAt(k)) + Len(items)
  BY <1>1, ListFacts, ConcatProperties
<1>3. /\ Len(t) <= MaxList /\ lists' = [lists EXCEPT ![k] = t]
      /\ reply' = <<"int", Len(t)>>
  BY <1>2 DEF handle_rpush, Count
<1>4. Plain(t) = t
  BY <1>2, ListFacts DEF Plain
<1> HIDE DEF t
<1>5. Stored(k, t)
  BY <1>2, <1>3, <1>4 DEF Stored
<1>6. ListTypeOK' /\ Plains' = [Plains EXCEPT ![k] = t]
  BY <1>4, <1>5, StoreOne
<1>7. Plains'[k] = t
  BY <1>6 DEF Plains
<1>8. Plains[k] = ListAt(k)
  BY ListFacts
<1>9. PlainDeques!PushTail(k, items)
  BY <1>2, <1>3, <1>6, <1>7, <1>8 DEF PlainDeques!PushTail, Plains, t
<1> QED
  BY <1>6, <1>9

LEMMA PushHeadCorrect ==
  ASSUME ListTypeOK, NEW k \in ListKeys, NEW items \in Batches, handle_lpush(k, items)
  PROVE  ListTypeOK' /\ PlainDeques!PushHead(k, items)
<1> DEFINE t == InFront(items, ListAt(k))
<1>1. items \in Seq(Items) /\ Len(items) \in Nat
  BY ListAssumption, LenProperties
<1>2. /\ t \in Seq(Items) /\ Len(t) = Len(items) + Len(ListAt(k))
      /\ t = PlainDeques!Reverse(items) \o ListAt(k)
  BY <1>1, ListFacts, PushedInFront
<1>3. Len(t) = Len(ListAt(k)) + Len(items)
  BY <1>1, <1>2, ListFacts
<1>4. /\ Len(t) <= MaxList /\ lists' = [lists EXCEPT ![k] = t]
      /\ reply' = <<"int", Len(t)>>
  BY <1>3 DEF handle_lpush, Count
<1>5. Plain(t) = t
  BY <1>2, ListFacts DEF Plain
<1> HIDE DEF t
<1>6. Stored(k, t)
  BY <1>2, <1>4, <1>5 DEF Stored
<1>7. ListTypeOK' /\ Plains' = [Plains EXCEPT ![k] = t]
  BY <1>5, <1>6, StoreOne
<1>8. Plains'[k] = t
  BY <1>7 DEF Plains
<1>9. Plains[k] = ListAt(k)
  BY ListFacts
<1>10. PlainDeques!PushHead(k, items)
  BY <1>2, <1>3, <1>4, <1>7, <1>8, <1>9 DEF PlainDeques!PushHead, Plains
<1> QED
  BY <1>7, <1>10

\* Dropping the entry of a key without elements.
LEMMA DropEmpty ==
  ASSUME ListTypeOK, NEW k \in ListKeys, ListAt(k) = <<>>, lists' = [lists EXCEPT ![k] = NoList]
  PROVE  /\ ListTypeOK' /\ Plains' = Plains
         /\ lists'[k] # <<>>
<1>1. Stored(k, NoList) /\ Plain(NoList) = ListAt(k)
  BY ListFacts DEF Stored, Plain
<1>2. ListTypeOK' /\ lists'[k] = NoList /\ \A j \in ListKeys : j # k => lists'[j] = lists[j]
  BY <1>1, StoreOne
<1> QED
  BY <1>1, <1>2, ListFacts, StoreSame

\* Erasing the first n elements of a list that has some.
LEMMA DropFirst ==
  ASSUME ListTypeOK, NEW k \in ListKeys, NEW n \in Nat, n <= Len(ListAt(k)), ListAt(k) # <<>>,
         lists' = [lists EXCEPT ![k] = Without(lists[k], n)]
  PROVE  /\ ListTypeOK'
         /\ Plains' = [Plains EXCEPT ![k] = SubSeq(ListAt(k), n + 1, Len(ListAt(k)))]
         /\ lists'[k] # <<>>
<1> DEFINE s == ListAt(k)
           t == Without(s, n)
<1>1. s \in Seq(Items) /\ lists[k] = s /\ s # <<>> /\ n <= Len(s) /\ NoList \notin Seq(Items)
  BY ListFacts
<1>2. /\ t \in Seq(Items) \cup {NoList} /\ t # <<>> /\ Plain(t) = SubSeq(s, n + 1, Len(s))
      /\ Len(Plain(t)) <= Len(s)
  BY <1>1, PopFacts
<1>3. lists' = [lists EXCEPT ![k] = t]
  BY <1>1
<1> HIDE DEF t
<1>4. Len(Plain(t)) <= MaxList
  <2>1. Plain(t) \in Seq(Items)
    BY <1>2, EmptySeq DEF Plain
  <2>2. Len(Plain(t)) \in Nat /\ Len(s) \in Nat /\ MaxList \in Nat /\ Len(s) <= MaxList
    BY <2>1, ListFacts, LenProperties
  <2> QED BY <1>2, <2>2
<1>5. Stored(k, t)
  BY <1>2, <1>3, <1>4 DEF Stored
<1> HIDE DEF s
<1>6. /\ ListTypeOK' /\ lists'[k] = t /\ \A j \in ListKeys : j # k => lists'[j] = lists[j]
      /\ Plains' = [Plains EXCEPT ![k] = Plain(t)]
  BY <1>5, StoreOne
<1> QED
  BY <1>2, <1>6 DEF s

LEMMA PopOneCorrect ==
  ASSUME ListTypeOK, NEW k \in ListKeys, lpop_command_handler(k)
  PROVE  ListTypeOK' /\ PlainDeques!PopOne(k) /\ lists'[k] # <<>>
<1>0. Plains[k] = ListAt(k) /\ k \in ListKeys
  BY ListFacts
<1>1. CASE ListAt(k) = <<>>
  <2>1. lists' = [lists EXCEPT ![k] = NoList] /\ reply' = <<"nil">>
    BY <1>1 DEF lpop_command_handler, Nil
  <2>2. /\ ListTypeOK' /\ Plains' = Plains
        /\ lists'[k] # <<>>
    BY <1>1, <2>1, DropEmpty
  <2>3. Plains' = [Plains EXCEPT ![k] = IF @ = <<>> THEN @ ELSE Tail(@)]
    BY <1>0, <1>1, <2>2 DEF Plains
  <2> QED BY <1>0, <1>1, <2>1, <2>2, <2>3 DEF PlainDeques!PopOne, Plains
<1>2. CASE ListAt(k) # <<>>
  <2>1. lists' = [lists EXCEPT ![k] = Without(lists[k], 1)] /\ reply' = <<"bulk", lists[k][1]>>
    BY <1>2 DEF lpop_command_handler, Bulk
  <2>2. ListAt(k) \in Seq(Items) /\ lists[k] = ListAt(k) /\ 1 <= Len(ListAt(k))
    BY <1>2, ListFacts, EmptySeq
  <2>3. Tail(ListAt(k)) = SubSeq(ListAt(k), 1 + 1, Len(ListAt(k)))
    BY <1>2, <2>2, TailIsSubSeq
  <2>4. Head(ListAt(k)) = ListAt(k)[1]
    BY <1>2, <2>2
  <2>5. /\ ListTypeOK' /\ Plains' = [Plains EXCEPT ![k] = Tail(ListAt(k))]
        /\ lists'[k] # <<>>
    BY <1>2, <2>1, <2>2, <2>3, DropFirst
  <2>6. reply' = <<"bulk", Head(Plains[k])>>
    BY <1>0, <2>1, <2>2, <2>4
  <2> QED BY <1>0, <1>2, <2>5, <2>6 DEF PlainDeques!PopOne, Plains
<1> QED
  BY <1>1, <1>2

LEMMA PopManyCorrect ==
  ASSUME ListTypeOK, NEW k \in ListKeys, NEW n \in Indices, lpop_count(k, n)
  PROVE  ListTypeOK' /\ PlainDeques!PopMany(k, n) /\ lists'[k] # <<>>
<1> DEFINE s == ListAt(k)
           num == Smaller(n, Len(s))
<1>0. /\ Plains[k] = s /\ Len(s) \in Nat /\ n \in Int /\ (s # <<>> => lists[k] = s)
      /\ num = PlainDeques!Min({n, Len(s)})
  BY ListFacts, ListAssumption, SmallerIsMin
<1>1. CASE s = <<>>
  <2>1. lists' = [lists EXCEPT ![k] = NoList] /\ reply' = <<"nil">>
    BY <1>1 DEF lpop_count, Nil
  <2>2. /\ ListTypeOK' /\ Plains' = Plains
        /\ lists'[k] # <<>>
    BY <1>1, <2>1, DropEmpty
  <2> QED BY <1>0, <1>1, <2>1, <2>2 DEF PlainDeques!PopMany, Plains
<1>2. CASE s # <<>> /\ n < 0
  <2>1. lists' = lists /\ reply' = <<"error">>
    BY <1>0, <1>2 DEF lpop_count, Error
  <2>2. ListTypeOK' /\ Plains' = Plains /\ lists'[k] # <<>>
    BY <1>0, <1>2, <2>1 DEF ListTypeOK, ListAt, Plains
  <2> QED BY <1>0, <1>2, <2>1, <2>2 DEF PlainDeques!PopMany, Plains
<1>3. CASE s # <<>> /\ n >= 0
  <2>1. lists' = [lists EXCEPT ![k] = Without(lists[k], num)]
        /\ reply' = <<"array", SubSeq(lists[k], 1, num)>>
    <3>1. ~(n < 0)
      BY <1>0, <1>3
    <3> QED BY <1>3, <3>1, Zenon DEF lpop_count
  <2>2. num \in Nat /\ num <= Len(s)
    BY <1>0, <1>3 DEF Smaller
  <2> HIDE DEF num
  <2>3. /\ ListTypeOK' /\ Plains' = [Plains EXCEPT ![k] = SubSeq(s, num + 1, Len(s))]
        /\ lists'[k] # <<>>
    BY <1>3, <2>1, <2>2, DropFirst
  <2>4. reply' = <<"array", SubSeq(s, 1, num)>>
    BY <1>0, <1>3, <2>1
  <2> HIDE DEF s
  <2>5. PlainDeques!PopMany(k, n)
    BY <1>0, <1>3, <2>3, <2>4 DEF PlainDeques!PopMany, Plains
  <2> QED BY <2>3, <2>5
<1> QED
  BY <1>0, <1>1, <1>2, <1>3

LEMMA RangeCorrect ==
  ASSUME ListTypeOK, NEW k \in ListKeys, NEW start \in Indices, NEW end \in Indices,
         lrange_command_handler(k, start, end)
  PROVE  ListTypeOK' /\ PlainDeques!Range_(k, start, end)
<1>0. Plains[k] = ListAt(k) /\ ListAt(k) \in Seq(Items) /\ start \in Int /\ end \in Int
  BY ListFacts, ListAssumption
<1>1. lists' = lists
  BY DEF lrange_command_handler
<1>2. ListTypeOK' /\ Plains' = Plains
  BY <1>1 DEF ListTypeOK, ListAt, Plains
<1>3. reply' = <<"array", PlainDeques!Slice(ListAt(k), start, end)>>
  BY <1>0, SliceIsSubSeq DEF lrange_command_handler
<1> QED
  BY <1>0, <1>1, <1>2, <1>3 DEF PlainDeques!Range_, Plains

LEMMA LengthCorrect ==
  ASSUME ListTypeOK, NEW k \in ListKeys, llen_command_handler(k)
  PROVE  ListTypeOK' /\ PlainDeques!Length(k)
<1> DEFINE t == ListAt(k)
<1>1. lists' = [lists EXCEPT ![k] = t] /\ reply' = <<"int", Len(t)>>
  BY DEF llen_command_handler, Count
<1>2. t \in Seq(Items) /\ Plain(t) = t /\ Len(t) <= MaxList /\ Plains[k] = t
  BY ListFacts DEF Plain
<1>3. Stored(k, t)
  BY <1>1, <1>2 DEF Stored
<1>4. ListTypeOK' /\ Plains' = Plains
  BY <1>2, <1>3, StoreOne, StoreSame
<1> HIDE DEF t
<1> QED
  BY <1>1, <1>2, <1>4 DEF PlainDeques!Length, Plains

-----------------------------------------------------------------------------
LEMMA ListInitCorrect == ListInit => ListTypeOK /\ PlainDeques!Init
<1> SUFFICES ASSUME ListInit PROVE ListTypeOK /\ PlainDeques!Init
  OBVIOUS
<1>1. \A k \in ListKeys : lists[k] = NoList /\ ListAt(k) = <<>>
  BY DEF ListInit, InitLists, ListAt
<1>2. Plains = [k \in ListKeys |-> <<>>]
  BY <1>1 DEF Plains
<1>3. ListTypeOK
  BY <1>1, EmptySeq, ListAssumption DEF ListInit, InitLists, ListTypeOK
<1> QED
  BY <1>2, <1>3 DEF ListInit, PlainDeques!Init, Plains

PopClears ==
  \A k \in ListKeys :
    lpop_command_handler(k) \/ (\E n \in Indices : lpop_count(k, n)) => lists'[k] # <<>>

LEMMA PopsClear == ASSUME ListTypeOK PROVE PopClears
BY PopOneCorrect, PopManyCorrect DEF PopClears

LEMMA ListStep ==
  ASSUME ListTypeOK, [ListNext]_listVars
  PROVE  ListTypeOK' /\ [PlainDeques!Next]_(PlainDeques!vars) /\ PopClears
<1>1. ASSUME NEW k \in ListKeys, NEW items \in Batches, handle_rpush(k, items)
      PROVE  ListTypeOK' /\ PlainDeques!Next
  BY <1>1, PushTailCorrect DEF PlainDeques!Next
<1>2. ASSUME NEW k \in ListKeys, NEW items \in Batches, handle_lpush(k, items)
      PROVE  ListTypeOK' /\ PlainDeques!Next
  BY <1>2, PushHeadCorrect DEF PlainDeques!Next
<1>3. ASSUME NEW k \in ListKeys, lpop_command_handler(k)
      PROVE  ListTypeOK' /\ PlainDeques!Next
  BY <1>3, PopOneCorrect DEF PlainDeques!Next
<1>4. ASSUME NEW k \in ListKeys, NEW n \in Indices, lpop_count(k, n)
      PROVE  ListTypeOK' /\ PlainDeques!Next
  BY <1>4, PopManyCorrect DEF PlainDeques!Next
<1>5. ASSUME NEW k \in ListKeys, NEW start \in Indices, NEW end \in Indices,
             lrange_command_handler(k, start, end)
      PROVE  ListTypeOK' /\ PlainDeques!Next
  BY <1>5, RangeCorrect DEF PlainDeques!Next
<1>6. ASSUME NEW k \in ListKeys, llen_command_handler(k)
      PROVE  ListTypeOK' /\ PlainDeques!Next
  BY <1>6, LengthCorrect DEF PlainDeques!Next
<1>7. CASE UNCHANGED listVars
  <2>1. lists' = lists /\ reply' = reply
    BY <1>7 DEF listVars
  <2>2. ListTypeOK' /\ Plains' = Plains
    BY <2>1 DEF ListTypeOK, ListAt, Plains
  <2> QED BY <2>1, <2>2, PopsClear DEF PlainDeques!vars, Plains
<1> QED
  BY <1>1, <1>2, <1>3, <1>4, <1>5, <1>6, <1>7, PopsClear DEF ListNext

\* A key that was popped, with or without a count, has no empty list: neither
\* one the pop has emptied nor one that LLEN had made and the pop has met.
THEOREM PopsClearTheKey == ListSpec => PopsLeaveNoEmptyList
<1>1. PopClears => [\A k \in ListKeys :
         lpop_command_handler(k) \/ (\E n \in Indices : lpop_count(k, n)) => lists'[k] # <<>>
       ]_listVars
  BY DEF PopClears
<1> QED
  BY <1>1, ListInitCorrect, ListStep, PTL DEF ListSpec, PopsLeaveNoEmptyList

\* The handlers implement deques for every index and every count: LRANGE
\* answers the positions between its two indices, LPOP takes a prefix, and
\* the empty list that LLEN leaves is seen by no command.
THEOREM ListsImplementDeques == ListSpec => ListsAreDeques
<1>1. ListInit => PlainDeques!Init
  BY ListInitCorrect
<1> QED
  BY <1>1, ListInitCorrect, ListStep, PTL DEF ListSpec, ListsAreDeques, PlainDeques!Spec

(***************************************************************************)
(* STREAMS                                                                 *)
(***************************************************************************)
StreamInv == StreamTypeOK /\ StreamsOrdered

-----------------------------------------------------------------------------
(* Ids *)

\* id_greater is a strict order on ids.
LEMMA IdOrder ==
  ASSUME NEW a \in Ids, NEW b \in Ids, NEW c \in Ids
  PROVE  /\ ~id_greater(a, a)
         /\ id_greater(a, b) /\ id_greater(b, c) => id_greater(a, c)
BY StreamAssumption DEF Ids, Half, id_greater

LEMMA ZeroIsAnId == Zero \in Ids
BY StreamAssumption DEF Zero, Ids, Half

\* The sequence half wraps and never leaves its range.
LEMMA NextSeqInRange ==
  ASSUME NEW s \in Streams, NEW ms \in Half
  PROVE  NextSeq(s, ms) \in Half
<1> DEFINE n == s.last_id.seq + 1
<1>1. s.last_id.seq \in 0..UINT64_MAX
  BY DEF Streams, Ids, Half
<1>2. n % (UINT64_MAX + 1) \in 0..UINT64_MAX
  BY <1>1, StreamAssumption
<1> QED
  BY <1>2, StreamAssumption DEF NextSeq, Half

\* Every form of the id argument gives an id.
LEMMA NewIdIsAnId ==
  ASSUME StreamTypeOK, NEW s \in Streams, NEW raw \in RawIds
  PROVE  NewId(s, raw) \in Ids
<1>1. CASE raw.form = "auto"
  BY <1>1, NextSeqInRange DEF NewId, Ids, StreamTypeOK
<1>2. CASE raw.form = "partial"
  <2>1. raw.ms \in Half
    BY <1>2 DEF RawIds
  <2> QED BY <1>2, <2>1, NextSeqInRange DEF NewId, Ids
<1>3. CASE raw.form = "full"
  BY <1>3 DEF NewId, RawIds
<1>4. CASE raw.form = "bad"
  BY <1>4, ZeroIsAnId DEF NewId
<1> QED
  BY <1>1, <1>2, <1>3, <1>4 DEF RawIds

-----------------------------------------------------------------------------
(* One stream *)

LEMMA EmptyStream ==
  /\ [entries |-> <<>>, last_id |-> Zero] \in Streams
  /\ IdsIncrease([entries |-> <<>>, last_id |-> Zero])
BY ZeroIsAnId, EmptySeq DEF Streams, IdsIncrease

LEMMA StreamAtIsGood ==
  ASSUME StreamInv, NEW k \in StreamKeys
  PROVE  StreamAt(k) \in Streams /\ IdsIncrease(StreamAt(k))
BY EmptyStream DEF StreamInv, StreamTypeOK, StreamsOrdered, StreamAt

\* An id XADD accepts is above every id of the stream, so the stream with
\* the new entry at its end is in order again.
LEMMA AppendKeepsOrder ==
  ASSUME NEW s \in Streams, IdsIncrease(s),
         NEW id \in Ids, Accepts(s, id), NEW f \in Payloads
  PROVE  LET t == [entries |-> Append(s.entries, [id |-> id, fields |-> f]),
                   last_id |-> id]
         IN  t \in Streams /\ IdsIncrease(t)
<1> DEFINE e == [id |-> id, fields |-> f]
           n == Len(s.entries)
           t == [entries |-> Append(s.entries, e), last_id |-> id]
<1>1. /\ s.entries \in Seq(Entries) /\ s.last_id \in Ids /\ e \in Entries
      /\ n \in Nat
  BY LenProperties DEF Streams, Entries
<1>2. t \in Streams
  BY <1>1 DEF Streams
<1>3. /\ Len(t.entries) = n + 1 /\ DOMAIN t.entries = 1..(n + 1)
      /\ t.entries[n + 1] = e
      /\ \A i \in 1..n : t.entries[i] = s.entries[i] /\ s.entries[i].id \in Ids
  <2>1. \A i \in 1..n : s.entries[i] \in Entries
    BY <1>1, ElementOfSeq
  <2>2. \A i \in 1..n : s.entries[i].id \in Ids
    BY <2>1 DEF Entries
  <2>3. t.entries = Append(s.entries, e)
    OBVIOUS
  <2> HIDE DEF t, e
  <2>4. /\ Len(Append(s.entries, e)) = n + 1
        /\ DOMAIN Append(s.entries, e) = 1..(n + 1)
        /\ Append(s.entries, e)[n + 1] = e
        /\ \A i \in 1..n : Append(s.entries, e)[i] = s.entries[i]
    BY <1>1
  <2> QED
    BY <2>2, <2>3, <2>4
<1>4. \A i \in 1..n : id_greater(id, s.entries[i].id)
  <2> SUFFICES ASSUME NEW i \in 1..n PROVE id_greater(id, s.entries[i].id)
    OBVIOUS
  <2>1. s.entries # <<>> /\ s.last_id = s.entries[n].id
    BY <1>1 DEF IdsIncrease
  <2>2. id_greater(id, s.entries[n].id)
    BY <2>1 DEF Accepts, HasHistory
  <2>3. i < n => id_greater(s.entries[n].id, s.entries[i].id)
    BY <1>1 DEF IdsIncrease
  <2> QED
    BY <1>1, <1>3, <2>2, <2>3, IdOrder
<1>5. id # Zero
  BY DEF Accepts
<1> HIDE DEF e
<1>6. \A i, j \in 1..(n + 1) :
        i < j => id_greater(t.entries[j].id, t.entries[i].id)
  <2> SUFFICES ASSUME NEW i \in 1..(n + 1), NEW j \in 1..(n + 1), i < j
               PROVE  id_greater(t.entries[j].id, t.entries[i].id)
    OBVIOUS
  <2>1. i \in 1..n
    BY <1>1
  <2>2. CASE j = n + 1
    BY <1>3, <1>4, <2>1, <2>2 DEF e
  <2>3. CASE j # n + 1
    <3>1. j \in 1..n
      BY <1>1, <2>3
    <3>2. id_greater(s.entries[j].id, s.entries[i].id)
      BY <1>1, <2>1, <3>1 DEF IdsIncrease
    <3> QED BY <1>3, <2>1, <3>1, <3>2
  <2> QED BY <2>2, <2>3
<1>7. \A i \in 1..(n + 1) : t.entries[i].id # Zero
  <2> SUFFICES ASSUME NEW i \in 1..(n + 1) PROVE t.entries[i].id # Zero
    OBVIOUS
  <2>1. CASE i = n + 1
    BY <1>3, <1>5, <2>1 DEF e
  <2>2. CASE i # n + 1
    BY <1>1, <1>3, <2>2 DEF IdsIncrease
  <2> QED BY <2>1, <2>2
<1>8. t.entries # <<>> /\ t.last_id = t.entries[Len(t.entries)].id
  BY <1>1, <1>3 DEF e
<1>9. IdsIncrease(t)
  BY <1>3, <1>6, <1>7, <1>8 DEF IdsIncrease
<1> QED
  BY <1>2, <1>9 DEF e

-----------------------------------------------------------------------------
(* The steps *)

LEMMA StreamInvInit == StreamInit => StreamInv
BY DEF StreamInit, InitStreams, StreamInv, StreamTypeOK, StreamsOrdered

\* What XADD makes of the streams: nothing but its own key changes, and that
\* one gets a good stream that continues the old one.
LEMMA XAddEffect ==
  ASSUME StreamInv, NEW k \in StreamKeys, NEW raw \in RawIds, NEW p \in Payloads,
         xadd_command_handler(k, raw, p)
  PROVE  \E t \in Streams :
           /\ IdsIncrease(t)
           /\ streams' = [streams EXCEPT ![k] = t]
           /\ \/ t.entries = StreamAt(k).entries
              \/ \E e \in Entries : t.entries = Append(StreamAt(k).entries, e)
<1> DEFINE s  == StreamAt(k)
           id == NewId(s, raw)
<1>1. s \in Streams /\ IdsIncrease(s)
  BY StreamAtIsGood
<1>2. id \in Ids
  BY <1>1, NewIdIsAnId DEF StreamInv
<1>3. CASE ~Accepts(s, id)
  <2>1. streams' = [streams EXCEPT ![k] = s]
    BY <1>3 DEF xadd_command_handler
  <2> QED BY <1>1, <2>1
<1>4. CASE Accepts(s, id)
  <2> DEFINE e == [id |-> id, fields |-> p]
             t == [entries |-> Append(s.entries, e), last_id |-> id]
  <2>1. streams' = [streams EXCEPT ![k] = t]
    BY <1>4 DEF xadd_command_handler
  <2>2. t \in Streams /\ IdsIncrease(t) /\ e \in Entries
    <3> HIDE DEF s, id
    <3> QED BY <1>1, <1>2, <1>4, AppendKeepsOrder DEF Entries
  <2>3. t.entries = Append(s.entries, e)
    OBVIOUS
  <2> HIDE DEF t, e
  <2> QED BY <2>1, <2>2, <2>3
<1> QED BY <1>3, <1>4

\* What a request for XREAD keeps while it sleeps.
LEMMA RequestIsTyped ==
  ASSUME StreamInv, NEW req \in XReads
  PROVE  /\ StartIds(req) \in Seq(Ids) /\ KeysOf(req) \in Seq(StreamKeys)
         /\ Len(StartIds(req)) = Len(KeysOf(req))
<1>1. req \in Seq([key : StreamKeys, from : Ids \cup {Dollar}])
  BY StreamAssumption
<1>2. DOMAIN req = 1..Len(req) /\ Len(req) \in Nat
  BY <1>1, LenProperties
<1>3. \A i \in 1..Len(req) : req[i].key \in StreamKeys /\ req[i].from \in Ids \cup {Dollar}
  <2> DEFINE R == [key : StreamKeys, from : Ids \cup {Dollar}]
  <2>1. \A i \in 1..Len(req) : req[i] \in R
    BY <1>1, ElementOfSeq
  <2> QED BY <2>1
<1>4. \A i \in 1..Len(req) : StreamAt(req[i].key).last_id \in Ids
  BY <1>3, StreamAtIsGood DEF Streams
<1>5. StartIds(req) \in [1..Len(req) -> Ids]
  BY <1>2, <1>3, <1>4 DEF StartIds
<1>6. KeysOf(req) \in [1..Len(req) -> StreamKeys]
  BY <1>2, <1>3 DEF KeysOf
<1> QED
  BY <1>2, <1>5, <1>6

LEMMA StreamInvStep == StreamInv /\ [StreamNext]_streamVars => StreamInv'
<1> SUFFICES ASSUME StreamInv, [StreamNext]_streamVars PROVE StreamInv'
  OBVIOUS
<1>1. ASSUME NEW k \in StreamKeys, NEW raw \in RawIds, NEW p \in Payloads,
             xadd_command_handler(k, raw, p)
      PROVE  StreamInv'
  <2>1. PICK t \in Streams : IdsIncrease(t) /\ streams' = [streams EXCEPT ![k] = t]
    BY <1>1, XAddEffect
  <2>2. clock' = clock /\ xread' = xread
    BY <1>1 DEF xadd_command_handler
  <2>3. streams' \in [StreamKeys -> Streams \cup {NoStream}]
    BY <2>1 DEF StreamInv, StreamTypeOK
  <2>4. StreamsOrdered'
    <3> SUFFICES ASSUME NEW l \in StreamKeys, streams'[l] # NoStream
                 PROVE  IdsIncrease(streams'[l])
      BY DEF StreamsOrdered
    <3> QED BY <2>1 DEF StreamInv, StreamTypeOK, StreamsOrdered
  <2> QED BY <2>2, <2>3, <2>4 DEF StreamInv, StreamTypeOK
<1>2. ASSUME NEW k \in StreamKeys, NEW a \in Ids, NEW b \in Ids,
             xrange_command_handler(k, a, b)
      PROVE  StreamInv'
  BY <1>2 DEF xrange_command_handler, StreamInv, StreamTypeOK, StreamsOrdered
<1>3. ASSUME NEW req \in XReads, NEW naps \in (-1..MaxNaps \ {0}) \cup {Forever},
             xread_command_handler(req, naps)
      PROVE  StreamInv'
  <2>1. UNCHANGED <<streams, clock>>
    BY <1>3 DEF xread_command_handler
  <2>2. CASE xread' = xread
    BY <2>1, <2>2 DEF StreamInv, StreamTypeOK, StreamsOrdered
  <2>3. CASE xread' # xread
    <3>1. /\ naps # -1
          /\ xread' = [keys |-> KeysOf(req), start_ids |-> StartIds(req), naps |-> naps]
      BY <1>3, <2>3 DEF xread_command_handler
    <3>2. naps \in 0..MaxNaps \cup {Forever}
      BY <3>1, StreamAssumption
    <3> QED BY <2>1, <3>1, <3>2, RequestIsTyped DEF StreamInv, StreamTypeOK, StreamsOrdered
  <2> QED BY <2>2, <2>3
<1>4. CASE xread_loop
  <2>1. UNCHANGED <<streams, clock>> /\ xread # Awake
    BY <1>4 DEF xread_loop
  <2>2. CASE xread' = Awake
    BY <2>1, <2>2 DEF StreamInv, StreamTypeOK, StreamsOrdered
  <2>3. CASE xread' # Awake
    <3>1. PICK left \in IF xread.naps = Forever THEN {Forever} ELSE 0..(xread.naps - 1) :
            xread.naps # 0 /\ xread' = [xread EXCEPT !.naps = left]
      BY <1>4, <2>3 DEF xread_loop
    <3>2. xread.naps \in 0..MaxNaps \cup {Forever}
      BY <2>1 DEF StreamInv, StreamTypeOK
    <3>3. left \in 0..MaxNaps \cup {Forever}
      BY <3>1, <3>2, StreamAssumption
    <3> QED BY <2>1, <3>1, <3>3 DEF StreamInv, StreamTypeOK, StreamsOrdered
  <2> QED BY <2>2, <2>3
<1>5. CASE ClockJump
  BY <1>5 DEF ClockJump, StreamInv, StreamTypeOK, StreamsOrdered
<1>6. CASE UNCHANGED streamVars
  BY <1>6 DEF streamVars, StreamInv, StreamTypeOK, StreamsOrdered
<1> QED
  BY <1>1, <1>2, <1>3, <1>4, <1>5, <1>6 DEF StreamNext

\* What XADD stores and XREAD keeps in its locals is well typed, for both
\* halves of an id although they are increased modulo the width.
THEOREM StreamsTyped == StreamSpec => []StreamTypeOK
<1>1. StreamInv => StreamTypeOK
  BY DEF StreamInv
<1> QED
  BY <1>1, StreamInvInit, StreamInvStep, PTL DEF StreamSpec

\* Ids strictly increase along every stream, whatever ids clients send and
\* wherever the wall clock jumps.
THEOREM StreamsCorrect == StreamSpec => []StreamsOrdered
<1>1. StreamInv => StreamsOrdered
  BY DEF StreamInv
<1> QED
  BY <1>1, StreamInvInit, StreamInvStep, PTL DEF StreamSpec

\* No step removes, changes or moves an entry.
THEOREM StreamsOnlyGrow == StreamSpec => StreamsAppendOnly
<1> DEFINE Grows(k) ==
      streams[k] # NoStream =>
        /\ streams'[k] # NoStream
        /\ Len(streams'[k].entries) >= Len(streams[k].entries)
        /\ SubSeq(streams'[k].entries, 1, Len(streams[k].entries)) = streams[k].entries
<1>1. ASSUME StreamInv, NEW k \in StreamKeys, streams'[k] = streams[k] PROVE Grows(k)
  <2> SUFFICES ASSUME streams[k] # NoStream PROVE Grows(k)
    OBVIOUS
  <2>1. streams[k].entries \in Seq(Entries)
    BY <1>1 DEF StreamInv, StreamTypeOK, Streams
  <2>2. Len(streams[k].entries) \in Nat
    BY <2>1, LenProperties
  <2> QED BY <1>1, <2>1, <2>2, SubSeqFull
<1>2. ASSUME StreamInv, StreamNext, NEW k \in StreamKeys PROVE Grows(k)
  <2>1. ASSUME NEW l \in StreamKeys, NEW raw \in RawIds, NEW p \in Payloads,
               xadd_command_handler(l, raw, p)
        PROVE  Grows(k)
    <3>1. PICK t \in Streams :
            /\ streams' = [streams EXCEPT ![l] = t]
            /\ \/ t.entries = StreamAt(l).entries
               \/ \E e \in Entries : t.entries = Append(StreamAt(l).entries, e)
      BY <1>2, <2>1, XAddEffect
    <3>2. CASE k # l
      BY <1>1, <1>2, <3>1, <3>2 DEF StreamInv, StreamTypeOK
    <3>3. CASE k = l
      <4> SUFFICES ASSUME streams[k] # NoStream PROVE Grows(k)
        OBVIOUS
      <4> DEFINE old == streams[k].entries
      <4>1. old \in Seq(Entries) /\ Len(old) \in Nat /\ StreamAt(l).entries = old
        BY <1>2, <3>3, LenProperties DEF StreamInv, StreamTypeOK, Streams, StreamAt
      <4>2. streams'[k] = t /\ t # NoStream
        BY <1>2, <3>1, <3>3, StreamAssumption DEF StreamInv, StreamTypeOK, Streams, Entries
      <4> HIDE DEF old
      <4>3. Len(t.entries) >= Len(old) /\ SubSeq(t.entries, 1, Len(old)) = old
        <5>1. CASE t.entries = old
          BY <4>1, <5>1, SubSeqFull
        <5>2. CASE \E e \in Entries : t.entries = Append(old, e)
          <6>1. PICK e \in Entries : t.entries = Append(old, e)
            BY <5>2
          <6>2. /\ Append(old, e) \in Seq(Entries) /\ Len(Append(old, e)) = Len(old) + 1
                /\ \A i \in 1..Len(old) : Append(old, e)[i] = old[i]
            BY <4>1
          <6> QED BY <4>1, <6>1, <6>2
        <5> QED BY <3>1, <4>1, <5>1, <5>2
      <4> QED BY <4>2, <4>3 DEF old
    <3> QED BY <3>2, <3>3
  <2>2. CASE UNCHANGED streams
    BY <1>1, <1>2, <2>2
  <2> QED
    BY <1>2, <2>1, <2>2
       DEF StreamNext, xrange_command_handler, xread_command_handler, xread_loop, ClockJump
<1>3. StreamInv /\ [StreamNext]_streamVars => [\A k \in StreamKeys : Grows(k)]_streamVars
  BY <1>2
<1> QED
  BY <1>3, StreamInvInit, StreamInvStep, PTL DEF StreamSpec, StreamsAppendOnly
-----------------------------------------------------------------------------
(* Ids the clock gives *)

\* XADD * is turned down only when the clock is behind or the sequence half
\* used up: wherever the clock jumps to, the id it gives is above last_id.
THEOREM AutoIdIsUsable == StreamSpec => []AutoIdUsable
<1>1. StreamInv => AutoIdUsable
  <2> SUFFICES ASSUME StreamInv, NEW k \in StreamKeys,
                      ~(StreamAt(k).last_id.ms > clock),
                      StreamAt(k).last_id # [ms |-> clock, seq |-> UINT64_MAX]
               PROVE  Accepts(StreamAt(k), NewId(StreamAt(k), [form |-> "auto"]))
    BY DEF AutoIdUsable
  <2> DEFINE s  == StreamAt(k)
             id == [ms |-> clock, seq |-> NextSeq(s, clock)]
  <2>1. /\ clock \in 0..UINT64_MAX /\ UINT64_MAX \in Nat \ {0}
        /\ s.last_id \in [ms : 0..UINT64_MAX, seq : 0..UINT64_MAX]
    BY StreamAtIsGood, StreamAssumption DEF StreamInv, StreamTypeOK, Streams, Ids, Half
  <2>2. NewId(s, [form |-> "auto"]) = id
    BY DEF NewId
  <2> HIDE DEF s
  <2>3. CASE HasHistory(s) /\ clock = s.last_id.ms
    <3>1. s.last_id.seq # UINT64_MAX
      BY <2>1, <2>3 DEF s
    <3>2. (s.last_id.seq + 1) % (UINT64_MAX + 1) = s.last_id.seq + 1
      BY <2>1, <3>1
    <3> QED BY <2>1, <2>2, <2>3, <3>2 DEF Accepts, NextSeq, id_greater, Zero, s
  <2>4. CASE ~(HasHistory(s) /\ clock = s.last_id.ms)
    <3>1. HasHistory(s) => clock > s.last_id.ms
      BY <2>1, <2>4 DEF s
    <3> QED BY <2>1, <2>2, <2>4, <3>1 DEF Accepts, NextSeq, id_greater, Zero, s
  <2> QED BY <2>3, <2>4 DEF s
<1> QED
  BY <1>1, StreamInvInit, StreamInvStep, PTL DEF StreamSpec

-----------------------------------------------------------------------------
(* Sleeping in XREAD *)

\* What build_reply finds, as a function of the streams: it depends on
\* nothing else of the state.
Found(all, keys, start_ids) ==
  LET at(key) == IF all[key] = NoStream THEN [entries |-> <<>>, last_id |-> Zero]
                 ELSE all[key]
      newer(key, start) == Matched(at(key).entries, {id \in Ids : id_greater(id, start)})
  IN  SelectSeq([i \in DOMAIN keys |->
                   [key |-> keys[i], entries |-> newer(keys[i], start_ids[i])]],
                LAMBDA r : r.entries # <<>>)

LEMMA ReplyIsFound ==
  \A k, s : build_reply(k, s) = Found(streams, k, s)
BY Zenon DEF build_reply, Newer, StreamAt, Found

LEMMA SameStreamsSameReply ==
  ASSUME NEW keys, NEW start_ids, streams' = streams
  PROVE  build_reply(keys, start_ids)' = build_reply(keys, start_ids)
<1>1. (\A k, s : build_reply(k, s) = Found(streams, k, s))'
  BY ReplyIsFound, PTL
<1> QED
  BY <1>1, ReplyIsFound, Zenon

\* A sleeping XREAD has nothing to return.
SleepsOnNothing ==
  xread # Awake => build_reply(xread.keys, xread.start_ids) = <<>>

LEMMA SleepsOnNothingStep ==
  StreamInv /\ SleepsOnNothing /\ [StreamNext]_streamVars => SleepsOnNothing'
<1> SUFFICES ASSUME StreamInv, SleepsOnNothing, [StreamNext]_streamVars, xread' # Awake
             PROVE  (build_reply(xread.keys, xread.start_ids) = <<>>)'
  BY DEF SleepsOnNothing
<1>1. ASSUME UNCHANGED <<streams, xread>>
      PROVE  (build_reply(xread.keys, xread.start_ids) = <<>>)'
  BY <1>1, SameStreamsSameReply DEF SleepsOnNothing
<1>2. ASSUME NEW k \in StreamKeys, NEW raw \in RawIds, NEW p \in Payloads,
             xadd_command_handler(k, raw, p)
      PROVE  xread' = Awake
  BY <1>2 DEF xadd_command_handler
<1>3. ASSUME NEW req \in XReads, NEW naps, xread_command_handler(req, naps)
      PROVE  (build_reply(xread.keys, xread.start_ids) = <<>>)'
  <2>1. /\ build_reply(KeysOf(req), StartIds(req)) = <<>> /\ UNCHANGED streams
        /\ xread' = [keys |-> KeysOf(req), start_ids |-> StartIds(req), naps |-> naps]
    BY <1>3 DEF xread_command_handler
  <2> QED BY <2>1, SameStreamsSameReply
<1>4. ASSUME xread_loop PROVE (build_reply(xread.keys, xread.start_ids) = <<>>)'
  <2>1. UNCHANGED streams /\ xread # Awake
    BY <1>4 DEF xread_loop
  <2>2. PICK left : xread' = [xread EXCEPT !.naps = left]
    BY <1>4 DEF xread_loop
  <2>3. xread'.keys = xread.keys /\ xread'.start_ids = xread.start_ids
    BY <2>1, <2>2 DEF StreamInv, StreamTypeOK
  <2> QED BY <2>1, <2>3, SameStreamsSameReply DEF SleepsOnNothing
<1> QED
  BY <1>1, <1>2, <1>3, <1>4
     DEF StreamNext, streamVars, xrange_command_handler, ClockJump

\* XREAD BLOCK never returns an entry it has slept for, and BLOCK 0 never
\* returns: no XADD can run while the one thread sleeps.
THEOREM SleepersGetNothing == StreamSpec => SleepDeliversNothing
<1>1. StreamInit => SleepsOnNothing
  BY DEF StreamInit, InitStreams, SleepsOnNothing
<1>2. ASSUME StreamInv, SleepsOnNothing, StreamNext, xread # Awake, xread' = Awake
      PROVE  reply' = Nil /\ xread.naps # Forever
  <2>1. CASE xread_loop
    <3>1. build_reply(xread.keys, xread.start_ids) = <<>>
      BY <1>2 DEF SleepsOnNothing
    <3>2. ASSUME NEW left \in IF xread.naps = Forever THEN {Forever} ELSE 0..(xread.naps - 1)
          PROVE  [xread EXCEPT !.naps = left] # Awake
      <4>1. xread \in [keys : Seq(StreamKeys), start_ids : Seq(Ids),
                       naps : 0..MaxNaps \cup {Forever}]
        BY <1>2 DEF StreamInv, StreamTypeOK
      <4>2. left \in Int \cup {Forever}
        BY <4>1, StreamAssumption
      <4> QED BY <4>1, <4>2, StreamAssumption
    <3>3. xread.naps = 0 /\ reply' = Nil
      BY <1>2, <2>1, <3>1, <3>2 DEF xread_loop
    <3> QED BY <3>3, StreamAssumption
  <2> QED
    BY <1>2, <2>1 DEF StreamNext, xadd_command_handler, xrange_command_handler,
                      xread_command_handler, ClockJump
<1>3. StreamInv /\ SleepsOnNothing /\ [StreamNext]_streamVars =>
        [xread # Awake /\ xread' = Awake => reply' = Nil /\ xread.naps # Forever]_streamVars
  BY <1>2
<1> QED
  BY <1>1, <1>3, StreamInvInit, StreamInvStep, SleepsOnNothingStep, PTL
     DEF StreamSpec, SleepDeliversNothing

-----------------------------------------------------------------------------
(* Reading on *)

LEMMA NatSetInduction ==
  ASSUME NEW T \in SUBSET Nat, 0 \in T, \A n \in T : n + 1 \in T
  PROVE  T = Nat
<1> SUFFICES ASSUME Nat \ T # {} PROVE FALSE
  OBVIOUS
<1>1. PICK n \in Nat \ T : \A m \in Nat \ T : ~(<<m, n>> \in OpToRel(<, Nat))
  BY NatLessThanWellFounded, WFMin, Zenon
<1>2. \A m \in Nat \ T : ~(m < n)
  BY <1>1 DEF OpToRel
<1>3. n - 1 \in Nat /\ n - 1 < n /\ (n - 1) + 1 = n
  <2>1. n \in Nat /\ n # 0
    BY <1>1
  <2> QED BY <2>1
<1>4. n - 1 \in T
  BY <1>2, <1>3
<1> QED
  BY <1>1, <1>3, <1>4

\* matched, as the loop leaves it after each of the first n entries.
MatchedTo(s, ids, n, matched) ==
  matched = [m \in 0..n |->
    IF m = 0 THEN <<>>
    ELSE IF s[m].id \in ids THEN Append(matched[m - 1], s[m]) ELSE matched[m - 1]]

LEMMA MatchedExists ==
  ASSUME NEW s, NEW ids
  PROVE  \A n \in Nat : \E f : MatchedTo(s, ids, n, f)
<1> DEFINE T == {n \in Nat : \E f : MatchedTo(s, ids, n, f)}
<1>1. 0 \in T
  <2>1. 0..0 = {0}
    OBVIOUS
  <2>2. MatchedTo(s, ids, 0, [m \in 0..0 |-> <<>>])
    BY <2>1 DEF MatchedTo
  <2> QED BY <2>2
<1>2. ASSUME NEW n \in T PROVE n + 1 \in T
  <2>1. PICK g : MatchedTo(s, ids, n, g)
    OBVIOUS
  <2> DEFINE Turn(f, m) == IF s[m].id \in ids THEN Append(f[m - 1], s[m]) ELSE f[m - 1]
             h == [m \in 0..n + 1 |-> IF m = n + 1 THEN Turn(g, n + 1) ELSE g[m]]
             Body(m) == IF m = 0 THEN <<>> ELSE Turn(h, m)
  <2>2. n \in Nat /\ n + 1 \in Nat
    OBVIOUS
  <2>3. \A m \in 0..n : g[m] = IF m = 0 THEN <<>> ELSE Turn(g, m)
    BY <2>1 DEF MatchedTo
  <2>4. \A m \in 0..n : h[m] = g[m]
    BY <2>2
  <2>5. h[n + 1] = Turn(g, n + 1)
    BY <2>2
  <2>6. \A m \in 0..n + 1 : m # 0 => m - 1 \in 0..n
    BY <2>2
  <2>7. h = [m \in 0..n + 1 |-> h[m]]
    OBVIOUS
  <2> HIDE DEF h
  <2>8. \A m \in 0..n + 1 : m # 0 => Turn(h, m) = Turn(g, m)
    BY <2>4, <2>6
  <2> HIDE DEF Turn
  <2>9. \A m \in 0..n + 1 : h[m] = Body(m)
    <3>1. \A m \in 0..n + 1 : m \in 0..n \/ (m = n + 1 /\ m # 0)
      BY <2>2
    <3> QED BY <2>3, <2>4, <2>5, <2>8, <3>1
  <2>10. h = [m \in 0..n + 1 |-> Body(m)]
    <3> HIDE DEF Body
    <3> QED BY <2>7, <2>9, Zenon
  <2>11. MatchedTo(s, ids, n + 1, h)
    BY <2>10, Zenon DEF MatchedTo, Turn
  <2> QED BY <2>2, <2>11
<1> HIDE DEF T
<1>3. T = Nat
  <2>1. T \in SUBSET Nat
    BY DEF T
  <2> QED BY <1>1, <1>2, <2>1, NatSetInduction
<1> QED
  BY <1>3 DEF T

LEMMA MatchedUnfolds ==
  ASSUME NEW S, NEW s \in Seq(S), NEW ids
  PROVE  \E f : MatchedTo(s, ids, Len(s), f) /\ Matched(s, ids) = f[Len(s)]
<1> DEFINE g == CHOOSE f : MatchedTo(s, ids, Len(s), f)
<1>1. Matched(s, ids) = g[Len(s)]
  BY Zenon DEF Matched, MatchedTo
<1>2. \E f : MatchedTo(s, ids, Len(s), f)
  BY LenProperties, MatchedExists
<1>3. MatchedTo(s, ids, Len(s), g)
  BY <1>2
<1> HIDE DEF g
<1> QED
  BY <1>1, <1>3

LEMMA Gathering ==
  ASSUME NEW S, NEW a \in Seq(S), NEW b \in Seq(S), NEW e \in S
  PROVE  /\ a \o b \in Seq(S)
         /\ Append(a, e) \in Seq(S)
         /\ a \o <<>> = a
         /\ a \o Append(b, e) = Append(a \o b, e)
<1>1. a \o b \in Seq(S)
  BY ConcatProperties
<1>2. Append(a, e) \in Seq(S) /\ a \o <<>> = a
  BY AppendProperties, ConcatEmptySeq
<1>3. <<e>> \in Seq(S)
  OBVIOUS
<1>4. a \o (b \o <<e>>) = (a \o b) \o <<e>>
  BY <1>3, ConcatAssociative
<1>5. Append(b, e) = b \o <<e>> /\ Append(a \o b, e) = (a \o b) \o <<e>>
  BY <1>1, AppendIsConcat, Zenon
<1> QED
  BY <1>1, <1>2, <1>4, <1>5

\* MatchedTo, read off entry by entry.
Gathers(s, ids, N, f) ==
  /\ f[0] = <<>>
  /\ \A n \in 0..N : n # 0 =>
       f[n] = IF s[n].id \in ids THEN Append(f[n - 1], s[n]) ELSE f[n - 1]

LEMMA MatchedStep ==
  ASSUME NEW s, NEW ids, NEW N \in Nat, NEW f, MatchedTo(s, ids, N, f)
  PROVE  Gathers(s, ids, N, f)
<1> DEFINE Body(m) == IF m = 0 THEN <<>>
                      ELSE IF s[m].id \in ids THEN Append(f[m - 1], s[m]) ELSE f[m - 1]
<1>1. f = [m \in 0..N |-> Body(m)]
  BY Zenon DEF MatchedTo
<1>2. \A m \in 0..N : f[m] = Body(m)
  <2> HIDE DEF Body
  <2> QED BY <1>1, Zenon
<1>3. 0 \in 0..N
  OBVIOUS
<1> QED
  BY <1>2, <1>3, Zenon DEF Gathers

\* Two sets of ids that share the ids between them, and of which the second
\* goes on for ever once an id is in it: the two loops split the entries.
LEMMA SplitStream ==
  ASSUME NEW t \in Seq(Entries), NEW low, NEW high,
         \A id \in Ids : id \in low <=> id \notin high,
         \A n \in 1..Len(t) : n + 1 \in 1..Len(t) /\ t[n].id \in high => t[n + 1].id \in high
  PROVE  Matched(t, low) \o Matched(t, high) = t
<1> DEFINE N == Len(t)
<1>1. N \in Nat /\ \A n \in 1..N : t[n] \in Entries /\ t[n].id \in Ids
  <2>1. N \in Nat
    BY LenProperties
  <2>2. \A n \in 1..N : t[n] \in Entries
    BY ElementOfSeq
  <2>3. \A e \in Entries : e.id \in Ids
    BY DEF Entries
  <2> QED BY <2>1, <2>2, <2>3, Zenon
<1>2. PICK f : MatchedTo(t, low, N, f) /\ Matched(t, low) = f[N]
  BY MatchedUnfolds, Zenon
<1>3. PICK g : MatchedTo(t, high, N, g) /\ Matched(t, high) = g[N]
  BY MatchedUnfolds, Zenon
<1> HIDE DEF N
<1>4. /\ f[0] = <<>>
      /\ \A n \in 0..N : n # 0 => f[n] = IF t[n].id \in low THEN Append(f[n - 1], t[n]) ELSE f[n - 1]
  <2>1. Gathers(t, low, N, f)
    BY <1>1, <1>2, MatchedStep, Zenon
  <2> QED BY <2>1, Zenon DEF Gathers
<1>5. /\ g[0] = <<>>
      /\ \A n \in 0..N : n # 0 => g[n] = IF t[n].id \in high THEN Append(g[n - 1], t[n]) ELSE g[n - 1]
  <2>1. Gathers(t, high, N, g)
    BY <1>1, <1>3, MatchedStep, Zenon
  <2> QED BY <2>1, Zenon DEF Gathers
<1> DEFINE C(n) == /\ f[n] \in Seq(Entries) /\ g[n] \in Seq(Entries)
                   /\ f[n] \o g[n] = SubSeq(t, 1, n)
                   /\ n = 0 \/ t[n].id \in low => g[n] = <<>>
           T == {n \in Nat : n <= N => C(n)}
<1>6. C(0)
  <2>1. <<>> \o <<>> = <<>> /\ <<>> \in Seq(Entries)
    BY ConcatEmptySeq, EmptySeq
  <2>2. SubSeq(t, 1, 0) = <<>>
    BY SubSeqEmpty
  <2> QED BY <1>4, <1>5, <2>1, <2>2
<1>7. ASSUME NEW n \in Nat, n + 1 <= N, C(n) PROVE C(n + 1)
  <2> DEFINE e == t[n + 1]
  <2>1. /\ n <= N /\ n + 1 \in 0..N /\ n + 1 # 0 /\ (n + 1) - 1 = n /\ n + 1 \in 1..N
    BY <1>1, <1>7
  <2>2. e \in Entries /\ e.id \in Ids
    BY <1>1, <2>1, Zenon
  <2>9. f[n] \in Seq(Entries) /\ g[n] \in Seq(Entries) /\ f[n] \o g[n] = SubSeq(t, 1, n)
    BY <1>7
  <2> HIDE DEF e
  <2>3. SubSeq(t, 1, n + 1) = Append(SubSeq(t, 1, n), e)
    <3>1. SubSeq(t, 1, n + 1) = SubSeq(t, 1, (n + 1) - 1) \o <<e>>
      <4>1. 1 \in 1..Len(t) /\ n + 1 \in 1..Len(t)
        BY <1>1, <2>1 DEF N
      <4>2. n + 1 \in 1..Len(t) /\ n + 1 \in 1..(n + 1)
        BY <2>1, <4>1
      <4> QED BY <2>1, <4>1, <4>2, SubSeqRecursiveSecond DEF e
    <3>2. SubSeq(t, 1, n) \in Seq(Entries)
      <4>1. f[n] \o g[n] \in Seq(Entries)
        BY <2>9, ConcatProperties, Zenon
      <4> QED BY <2>9, <4>1, Zenon
    <3>3. SubSeq(t, 1, n + 1) = SubSeq(t, 1, n) \o <<e>>
      BY <2>1, <3>1, Zenon
    <3> QED BY <2>2, <3>2, <3>3, AppendIsConcat, Zenon
  <2>4. /\ f[n + 1] = IF e.id \in low THEN Append(f[n], e) ELSE f[n]
        /\ g[n + 1] = IF e.id \in high THEN Append(g[n], e) ELSE g[n]
    BY <1>4, <1>5, <2>1, Zenon DEF e
  <2>5. CASE e.id \in low
    <3>1. e.id \notin high
      BY <2>2, <2>5
    <3>2. f[n + 1] = Append(f[n], e) /\ g[n + 1] = g[n]
      BY <2>4, <2>5, <3>1, Zenon
    <3>3. g[n] = <<>>
      <4>1. CASE n = 0
        BY <1>7, <4>1
      <4>2. CASE n # 0
        <5>1. n \in 1..N
          BY <2>1, <4>2
        <5>2. t[n].id \notin high
          BY <2>1, <3>1, <5>1, Zenon DEF N, e
        <5>3. t[n].id \in low
          BY <1>1, <5>1, <5>2, Zenon
        <5> QED BY <1>7, <5>3, Zenon
      <4> QED BY <4>1, <4>2
    <3>4. f[n] \o <<>> = f[n] /\ Append(f[n], e) \o <<>> = Append(f[n], e)
          /\ Append(f[n], e) \in Seq(Entries)
      BY <2>2, <2>9, Gathering, Zenon
    <3>5. f[n + 1] \o g[n + 1] = SubSeq(t, 1, n + 1)
      BY <1>7, <2>3, <3>2, <3>3, <3>4, Zenon
    <3> QED BY <1>7, <3>2, <3>3, <3>4, <3>5, Zenon
  <2>6. CASE e.id \notin low
    <3>1. e.id \in high
      BY <2>2, <2>6
    <3>2. f[n + 1] = f[n] /\ g[n + 1] = Append(g[n], e)
      BY <2>4, <2>6, <3>1, Zenon
    <3>3. f[n] \o Append(g[n], e) = Append(f[n] \o g[n], e) /\ Append(g[n], e) \in Seq(Entries)
      <4>1. f[n] \in Seq(Entries) /\ g[n] \in Seq(Entries)
        BY <2>9, Zenon
      <4>2. Append(g[n], e) \in Seq(Entries)
        BY <2>2, <4>1, Gathering, Zenon
      <4>3. f[n] \o Append(g[n], e) = Append(f[n] \o g[n], e)
        <5> DEFINE a == f[n]
                   b == g[n]
        <5>1. a \in Seq(Entries) /\ b \in Seq(Entries) /\ e \in Entries
          BY <2>2, <4>1
        <5> HIDE DEF a, b
        <5>2. a \o Append(b, e) = Append(a \o b, e)
          BY <5>1, Gathering
        <5> QED BY <5>2 DEF a, b
      <4> QED BY <4>2, <4>3, Zenon
    <3>4. f[n + 1] \o g[n + 1] = SubSeq(t, 1, n + 1)
      BY <1>7, <2>3, <3>2, <3>3, Zenon
    <3>5. ~(n + 1 = 0 \/ t[n + 1].id \in low)
      BY <2>1, <2>6, Zenon DEF e
    <3> QED BY <1>7, <3>2, <3>3, <3>4, <3>5, Zenon
  <2> QED BY <2>5, <2>6, Zenon
<1> HIDE DEF C
<1>8. T = Nat
  <2>1. T \in SUBSET Nat
    OBVIOUS
  <2>2. 0 \in T
    BY <1>6
  <2>3. ASSUME NEW n \in T PROVE n + 1 \in T
    <3>1. n \in Nat /\ n + 1 \in Nat /\ (n + 1 <= N => n <= N)
      BY <1>1
    <3>2. n + 1 <= N => C(n + 1)
      BY <1>7, <3>1, Zenon
    <3> QED BY <3>1, <3>2
  <2> HIDE DEF T
  <2> QED BY <2>1, <2>2, <2>3, NatSetInduction
<1>9. C(N)
  <2>1. N \in T /\ N <= N
    BY <1>1, <1>8
  <2> QED BY <2>1
<1>10. f[N] \o g[N] = SubSeq(t, 1, N)
  BY <1>9, Zenon DEF C
<1> QED
  BY <1>2, <1>3, <1>10, SubSeqFull DEF N

\* Wherever a reader stops, XRANGE up to there and XREAD from there on give
\* every entry once, because ids increase along a stream.
THEOREM ReadersMissNothing == StreamSpec => []PagingIsLossless
<1>1. StreamInv => PagingIsLossless
  <2> SUFFICES ASSUME StreamInv, NEW k \in StreamKeys, NEW id \in Ids
               PROVE  InRange(k, Zero, id) \o Newer(k, id) = StreamAt(k).entries
    BY DEF PagingIsLossless
  <2> DEFINE t == StreamAt(k).entries
             low == {x \in Ids : id_greater_or_equal(x, Zero) /\ id_greater_or_equal(id, x)}
             high == {x \in Ids : id_greater(x, id)}
  <2>1. t \in Seq(Entries) /\ IdsIncrease(StreamAt(k))
    BY StreamAtIsGood DEF Streams
  <2>2. \A x \in Ids : x \in low <=> x \notin high
    BY StreamAssumption DEF Ids, Half, Zero, id_greater, id_greater_or_equal
  <2>3. \A n \in 1..Len(t) : n + 1 \in 1..Len(t) /\ t[n].id \in high => t[n + 1].id \in high
    <3> SUFFICES ASSUME NEW n \in 1..Len(t), n + 1 \in 1..Len(t), t[n].id \in high
                 PROVE  t[n + 1].id \in high
      OBVIOUS
    <3>1. n < n + 1 /\ n \in DOMAIN t /\ n + 1 \in DOMAIN t
      BY <2>1, LenProperties
    <3>2. id_greater(t[n + 1].id, t[n].id)
      BY <2>1, <3>1 DEF IdsIncrease
    <3>3. t[n].id \in Ids /\ t[n + 1].id \in Ids
      <4>1. t[n] \in Entries /\ t[n + 1] \in Entries
        BY <2>1, ElementOfSeq, Zenon
      <4> QED BY <4>1 DEF Entries
    <3> QED BY <3>2, <3>3, IdOrder
  <2>4. Matched(t, low) \o Matched(t, high) = t
    <3> HIDE DEF t, low, high
    <3> QED BY <2>1, <2>2, <2>3, SplitStream
  <2> QED BY <2>4 DEF InRange, Newer
<1> QED
  BY <1>1, StreamInvInit, StreamInvStep, PTL DEF StreamSpec
=============================================================================
