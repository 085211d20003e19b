----------------------------- MODULE StreamStore -----------------------------
(***************************************************************************)
(* Streams: src/lib/stream-store.cpp and the XADD, XRANGE and XREAD        *)
(* handlers.  An id is a pair of 64-bit numbers; `*' takes its first half  *)
(* from the system clock, which may jump either way, and its second from a *)
(* counter that wraps.  XREAD BLOCK sleeps inside its handler, so while it *)
(* waits the one thread of the server runs nothing else.                   *)
(***************************************************************************)
EXTENDS Integers, Sequences, Replies

CONSTANTS
  StreamKeys,  \* the keys clients use for streams
  Payloads,    \* the field lists of entries
  UINT64_MAX,  \* the largest half of an id
  MaxEntries,  \* bound on the length of a stream
  MaxNaps,     \* the longest finite BLOCK, in 20 ms naps
  XReads,      \* XREAD requests: sequences of [key, from], from an id or Dollar
  Dollar,      \* "$", the last id a stream has
  NoStream, Forever, Awake

Half == 0..UINT64_MAX
Ids  == [ms : Half, seq : Half]
Zero == [ms |-> 0, seq |-> 0]

\* The id argument of XADD: "*", "ms-*", "ms-seq", or text that is no id.
RawIds == [form : {"auto", "bad"}] \cup [form : {"partial"}, ms : Half]
                                   \cup [form : {"full"}, id : Ids]

ASSUME StreamAssumption ==
  /\ UINT64_MAX \in Nat \ {0}
  /\ MaxEntries \in Nat /\ MaxNaps \in Nat
  /\ NoStream \notin [entries : Seq([id : Ids, fields : Payloads]), last_id : Ids]
  /\ Forever \notin Int
  /\ Dollar \notin Ids
  /\ \A req \in XReads : req \in Seq([key : StreamKeys, from : Ids \cup {Dollar}])
  /\ Awake \notin [keys : Seq(StreamKeys), start_ids : Seq(Ids), naps : Int \cup {Forever}]

VARIABLES
  streams,  \* get_streams(): the stream of every key, or NoStream
  clock,    \* std::chrono::system_clock in milliseconds
  xread     \* Awake, or what a blocked XREAD keeps in its locals

streamVars == <<streams, clock, xread, reply>>

Entries == [id : Ids, fields : Payloads]
Streams == [entries : Seq(Entries), last_id : Ids]

id_greater(a, b) == a.ms > b.ms \/ (a.ms = b.ms /\ a.seq > b.seq)
id_greater_or_equal(a, b) == id_greater(a, b) \/ a = b

\* operator[] on the map of streams, which makes an empty one if needed.
StreamAt(key) ==
  IF streams[key] = NoStream THEN [entries |-> <<>>, last_id |-> Zero]
  ELSE streams[key]

HasHistory(s) == s.entries # <<>> \/ s.last_id # Zero

\* The sequence half "ms-*" and "*" choose; seq + 1 wraps at 2^64.
NextSeq_saturating(s, ms) ==
  IF HasHistory(s) /\ ms = s.last_id.ms THEN s.last_id.seq ELSE 0
NextSeq_unwrapped(s, ms) ==
  IF HasHistory(s) /\ ms = s.last_id.ms THEN s.last_id.seq + 1
  ELSE IF ms = 0 THEN 1 ELSE 0
NextSeq(s, ms) ==
  IF HasHistory(s) /\ ms = s.last_id.ms
  THEN (s.last_id.seq + 1) % (UINT64_MAX + 1)
  ELSE IF ms = 0 THEN 1 ELSE 0

NewId(s, raw) ==
  CASE raw.form = "auto"    -> [ms |-> clock, seq |-> NextSeq(s, clock)]
    [] raw.form = "partial" -> [ms |-> raw.ms, seq |-> NextSeq(s, raw.ms)]
    [] raw.form = "full"    -> raw.id
    [] OTHER                -> Zero  \* no id: rejected, as 0-0 is

Accepts_equal(s, id) ==
  id # Zero /\ (HasHistory(s) => id_greater_or_equal(id, s.last_id))
Accepts(s, id) == id # Zero /\ (HasHistory(s) => id_greater(id, s.last_id))

xadd_in_front(key, raw, fields) ==
  LET s == StreamAt(key)
  IN  /\ xread = Awake
      /\ Accepts(s, NewId(s, raw)) /\ Len(s.entries) < MaxEntries
      /\ streams' = [streams EXCEPT ![key] =
           [entries |-> <<[id |-> NewId(s, raw), fields |-> fields]>> \o s.entries,
            last_id |-> NewId(s, raw)]]
      /\ reply' = Bulk(NewId(s, raw))
      /\ UNCHANGED <<clock, xread>>

\* XADD key id fields: a rejected one still leaves the key with a stream.
xadd_command_handler(key, raw, fields) ==
  LET s == StreamAt(key)
  IN  /\ xread = Awake
      /\ \/ /\ ~Accepts(s, NewId(s, raw))
            /\ streams' = [streams EXCEPT ![key] = s]
            /\ reply' = Error
         \/ /\ Accepts(s, NewId(s, raw))
            /\ Len(s.entries) < MaxEntries
            /\ streams' = [streams EXCEPT ![key] =
                 [entries |-> Append(s.entries, [id |-> NewId(s, raw), fields |-> fields]),
                  last_id |-> NewId(s, raw)]]
            /\ reply' = Bulk(NewId(s, raw))
      /\ UNCHANGED <<clock, xread>>

\* The loop over the entries of a stream that gathers those with one of ids.
Matched(entries, ids) ==
  LET matched[n \in 0..Len(entries)] ==
        IF n = 0 THEN <<>>
        ELSE IF entries[n].id \in ids THEN Append(matched[n - 1], entries[n])
        ELSE matched[n - 1]
  IN  matched[Len(entries)]

\* The entries of key with start <= id <= end, in stream order.
InRange(key, start, end) ==
  Matched(StreamAt(key).entries,
          {id \in Ids : id_greater_or_equal(id, start) /\ id_greater_or_equal(end, id)})

xrange_command_handler(key, start, end) ==
  /\ xread = Awake
  /\ reply' = <<"entries", InRange(key, start, end)>>
  /\ UNCHANGED <<streams, clock, xread>>

Newer_inclusive(key, start) ==
  Matched(StreamAt(key).entries, {id \in Ids : id_greater_or_equal(id, start)})
Newer(key, start) ==
  Matched(StreamAt(key).entries, {id \in Ids : id_greater(id, start)})

\* One block for every key that has something newer than its start id.
build_reply(keys, start_ids) ==
  SelectSeq([i \in DOMAIN keys |->
               [key |-> keys[i], entries |-> Newer(keys[i], start_ids[i])]],
            LAMBDA r : r.entries # <<>>)

\* "$" stands for the last id the stream has at the time of the call.
StartIds(req) ==
  [i \in DOMAIN req |-> IF req[i].from = Dollar THEN StreamAt(req[i].key).last_id
                        ELSE req[i].from]
KeysOf(req) == [i \in DOMAIN req |-> req[i].key]

xread_without_first_look(req, naps) ==
  /\ xread = Awake
  /\ xread' = [keys |-> KeysOf(req), start_ids |-> StartIds(req), naps |-> naps]
  /\ reply' = <<"waiting">>
  /\ UNCHANGED <<streams, clock>>

\* XREAD [BLOCK naps] STREAMS keys ids.  naps is -1 without BLOCK, Forever
\* for BLOCK 0.  The handler answers at once or starts to sleep.
xread_command_handler(req, naps) ==
  LET found == build_reply(KeysOf(req), StartIds(req))
  IN  /\ xread = Awake
      /\ \/ /\ found # <<>>
            /\ reply' = <<"streams", found>>
            /\ UNCHANGED xread
         \/ /\ found = <<>> /\ naps = -1
            /\ reply' = Nil
            /\ UNCHANGED xread
         \/ /\ found = <<>> /\ naps # -1
            /\ xread' = [keys |-> KeysOf(req), start_ids |-> StartIds(req), naps |-> naps]
            /\ reply' = <<"waiting">>
      /\ UNCHANGED <<streams, clock>>

xread_loop_restarting ==
  /\ xread # Awake
  /\ xread.naps = 0
  /\ reply' = Nil /\ xread' = Awake
  /\ UNCHANGED <<streams, clock>>

\* One turn of the sleep loop: past the deadline the answer is nil, before
\* it the handler sleeps (possibly longer than asked) and looks again.
xread_loop ==
  /\ xread # Awake
  /\ LET found == build_reply(xread.keys, xread.start_ids)
     IN  \/ /\ xread.naps = 0 \/ found # <<>>
            /\ reply' = IF xread.naps = 0 THEN Nil ELSE <<"streams", found>>
            /\ xread' = Awake
         \/ /\ xread.naps # 0 /\ found = <<>>
            /\ \E left \in IF xread.naps = Forever THEN {Forever} ELSE 0..(xread.naps - 1) :
                 xread' = [xread EXCEPT !.naps = left]
            /\ UNCHANGED reply
  /\ UNCHANGED <<streams, clock>>

\* The wall clock moves on, is set forward or is set back.
ClockJump ==
  /\ \E t \in Half : clock' = t
  /\ UNCHANGED <<streams, xread, reply>>

InitStreams ==
  /\ streams = [k \in StreamKeys |-> NoStream]
  /\ clock \in Half
  /\ xread = Awake

StreamInit == InitStreams /\ reply = <<"none">>

StreamNext ==
  \/ \E k \in StreamKeys :
       \/ \E raw \in RawIds, p \in Payloads : xadd_command_handler(k, raw, p)
       \/ \E a, b \in Ids : xrange_command_handler(k, a, b)
  \/ \E req \in XReads, naps \in (-1..MaxNaps \ {0}) \cup {Forever} :
       xread_command_handler(req, naps)
  \/ xread_loop
  \/ ClockJump

StreamSpec == StreamInit /\ [][StreamNext]_streamVars

\* The thread that sleeps in XREAD is woken again: nothing else holds it up.
StreamFairSpec == StreamSpec /\ WF_streamVars(xread_loop)

-----------------------------------------------------------------------------
StreamTypeOK ==
  /\ streams \in [StreamKeys -> Streams \cup {NoStream}]
  /\ clock \in Half
  /\ xread # Awake =>
       /\ xread \in [keys : Seq(StreamKeys), start_ids : Seq(Ids),
                     naps : 0..MaxNaps \cup {Forever}]
       /\ Len(xread.start_ids) = Len(xread.keys)

\* Ids grow strictly along a stream, none is 0-0, and last_id is the id of
\* the last entry: what XADD checks against is what readers will see, also
\* after the wall clock was set back and after a sequence half wrapped.
IdsIncrease(s) ==
  /\ \A i, j \in DOMAIN s.entries :
       i < j => id_greater(s.entries[j].id, s.entries[i].id)
  /\ \A i \in DOMAIN s.entries : s.entries[i].id # Zero
  /\ s.last_id = IF s.entries = <<>> THEN Zero ELSE s.entries[Len(s.entries)].id

StreamsOrdered ==
  \A k \in StreamKeys : streams[k] # NoStream => IdsIncrease(streams[k])

\* A stream only grows, at its end: no command removes, changes or moves an
\* entry a reader has already been given.
StreamsAppendOnly ==
  [][\A k \in StreamKeys :
       streams[k] # NoStream =>
         /\ streams'[k] # NoStream
         /\ Len(streams'[k].entries) >= Len(streams[k].entries)
         /\ SubSeq(streams'[k].entries, 1, Len(streams[k].entries)) = streams[k].entries
    ]_streamVars

\* Reading on from an id loses and repeats nothing: what XRANGE - id gives,
\* followed by what XREAD id gives, is the whole stream in order.
PagingIsLossless ==
  \A k \in StreamKeys, id \in Ids :
    InRange(k, Zero, id) \o Newer(k, id) = StreamAt(k).entries

\* XADD * is only turned down when the wall clock is behind the stream's last
\* id or its sequence numbers for this millisecond are used up.
AutoIdUsable ==
  \A k \in StreamKeys :
    LET s == StreamAt(k)
    IN  \/ s.last_id.ms > clock
        \/ s.last_id = [ms |-> clock, seq |-> UINT64_MAX]
        \/ Accepts(s, NewId(s, [form |-> "auto"]))

\* As the comment in xread-command-handler.cpp warns, no XADD runs while an
\* XREAD sleeps: one that went to sleep never returns an entry, and one
\* that sleeps without limit never returns.
SleepDeliversNothing ==
  [][xread # Awake /\ xread' = Awake =>
       reply' = Nil /\ xread.naps # Forever]_streamVars

\* A BLOCK with a limit gives the thread back.
BlockedXReadReturns ==
  (xread # Awake /\ xread.naps # Forever) ~> (xread = Awake)
=============================================================================
