----------------------------- MODULE StringStore -----------------------------
(***************************************************************************)
(* The string keyspace: src/lib/store.cpp and the SET, GET, INCR and DECR  *)
(* handlers.  Expiry is lazy: an entry whose deadline has passed stays in  *)
(* the map until a GET erases it or a write replaces it.                   *)
(*                                                                         *)
(* A value is a member of Words (text std::stoll does not accept as a      *)
(* whole, or accepts only outside long long) or a number, standing for the *)
(* text std::to_string gives it.                                           *)
(***************************************************************************)
EXTENDS Integers, Replies

CONSTANTS
  Keys,        \* the keys clients use
  Words,       \* the values that are not numbers
  LLONG_MIN, LLONG_MAX,  \* the range of long long
  SetOptions,  \* the option parts of SET: NoOption or [flag, num]
  Second,      \* ticks of the clock in one second
  MaxTime,     \* bound: the clock stops here
  NoEntry, NoExpiry, NoOption

ASSUME StringStoreAssumption ==
  /\ LLONG_MIN \in Int /\ LLONG_MAX \in Int
  /\ LLONG_MIN < 0 /\ 0 < LLONG_MAX
  /\ \A w \in Words \cup {NoEntry, NoExpiry} : w \notin Int
  /\ NoEntry \notin Words
  /\ NoEntry \notin [value : Words \cup (LLONG_MIN..LLONG_MAX), expiry : Int \cup {NoExpiry}]
  /\ MaxTime \in Nat /\ Second \in Nat \ {0}
  /\ \A o \in SetOptions :
       o = NoOption \/ (o.flag \in {"PX", "EX", "other"} /\ o.num \in Int)

VARIABLES
  store,  \* get_store(): the entry of every key, or NoEntry
  now     \* std::chrono::steady_clock::now()

storeVars == <<store, now, reply>>

Numbers == LLONG_MIN..LLONG_MAX
Values  == Words \cup Numbers
Entry   == [value : Values, expiry : Int \cup {NoExpiry}]

InitStore == store = [k \in Keys |-> NoEntry]

is_expired_late(entry) == entry.expiry # NoExpiry /\ now > entry.expiry
is_expired(entry) == entry.expiry # NoExpiry /\ now >= entry.expiry

Live(k) == store[k] # NoEntry /\ ~is_expired(store[k])

\* Ticks an entry lives.  Flags other than PX and EX set no expiry.
Lifetime(opt) ==
  IF opt = NoOption \/ opt.flag = "other" THEN NoExpiry
  ELSE IF opt.flag = "PX" THEN opt.num ELSE Second * opt.num

Expiry(opt) ==
  IF Lifetime(opt) = NoExpiry THEN NoExpiry ELSE now + Lifetime(opt)

\* SET key value [PX ms | EX s]: replaces the entry, expiry included.
set_command_handler(k, v, opt) ==
  /\ store' = [store EXCEPT ![k] = [value |-> v, expiry |-> Expiry(opt)]]
  /\ reply' = Ok
  /\ UNCHANGED now

\* GET key: the one handler that removes an expired entry.
get_command_handler(k) ==
  \/ /\ store[k] = NoEntry
     /\ reply' = Nil
     /\ UNCHANGED <<store, now>>
  \/ /\ store[k] # NoEntry /\ is_expired(store[k])
     /\ store' = [store EXCEPT ![k] = NoEntry]
     /\ reply' = Nil
     /\ UNCHANGED now
  \/ /\ Live(k)
     /\ reply' = Bulk(store[k].value)
     /\ UNCHANGED <<store, now>>

\* INCR and DECR: d is +1 or -1, limit the value that cannot take it.  A live
\* entry keeps its expiry, a dead one is overwritten by one without expiry.
StepCounter(k, d, limit) ==
  \/ /\ ~Live(k)
     /\ store' = [store EXCEPT ![k] = [value |-> d, expiry |-> NoExpiry]]
     /\ reply' = Count(d)
     /\ UNCHANGED now
  \/ /\ Live(k)
     /\ store[k].value \in Words \cup {limit}
     /\ reply' = Error
     /\ UNCHANGED <<store, now>>
  \/ /\ Live(k)
     /\ store[k].value \in Numbers \ {limit}
     /\ store' = [store EXCEPT ![k].value = @ + d]
     /\ reply' = Count(store[k].value + d)
     /\ UNCHANGED now

incr_command_handler(k) == StepCounter(k, 1, LLONG_MAX)
decr_unguarded(k) == StepCounter(k, -1, LLONG_MAX)
decr_command_handler(k) == StepCounter(k, -1, LLONG_MIN)

\* The steady clock never goes back.
Tick ==
  /\ now < MaxTime
  /\ now' = now + 1
  /\ UNCHANGED <<store, reply>>

StoreInit == InitStore /\ now = 0 /\ reply = <<"none">>

StoreNext ==
  \/ \E k \in Keys :
       \/ \E v \in Values, opt \in SetOptions : set_command_handler(k, v, opt)
       \/ get_command_handler(k)
       \/ incr_command_handler(k)
       \/ decr_command_handler(k)
  \/ Tick

StoreSpec == StoreInit /\ [][StoreNext]_storeVars

-----------------------------------------------------------------------------
\* Every entry holds a storable value: no INCR or DECR, however long the
\* history, takes a counter out of the range of long long.
StoreTypeOK ==
  /\ store \in [Keys -> Entry \cup {NoEntry}]
  /\ now \in 0..MaxTime
  /\ reply \in {<<"none">>, Ok, Nil, Error}
               \cup {Bulk(v) : v \in Values} \cup {Count(n) : n \in Numbers}

\* Lazy expiry cannot be observed: what clients see is a map in which a key
\* disappears exactly at its deadline, whichever of GET, SET, INCR and DECR
\* meets the stale entry first.
EagerMap == INSTANCE ExpiringMap WITH
  value     <- [k \in Keys |-> IF Live(k) THEN store[k].value ELSE NoEntry],
  deadline  <- [k \in Keys |-> IF Live(k) THEN store[k].expiry ELSE NoExpiry],
  Lifetimes <- {Lifetime(opt) : opt \in SetOptions},
  Absent    <- NoEntry

LazyExpiryUnobservable == EagerMap!Spec
=============================================================================
