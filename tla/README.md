# PhotonDB in TLA+

PhotonDB is a small Redis in C++: one process, one thread, a `poll` loop, three
in-memory maps, an append-only file, and a parser for RDB snapshots. This
directory holds TLA+ modules translated from its source, TLC runs that check
them on small instances, and proofs checked by TLAPS. Paths below are those of
the repository.

## 1. Inventory

| Component | Source | State | Operations |
|---|---|---|---|
| Event loop | `src/main.cpp` 94-138 | `pagers`, loop index, `clients`, the kernel's sockets | `poll`, accept, receive, send, close |
| Router, sessions, transactions | `lib/request-router.cpp`, `multi-`, `exec-`, `discard-command-handler.cpp`, `client-state.h` | per connection `in_multi`, `tx_queue`; the request at work | route, queue, log, dispatch, MULTI, EXEC, DISCARD |
| String store | `lib/store.cpp`, `set-`, `get-`, `incr-`, `decr-command-handler.cpp` | `get_store()`: value and expiry per key | SET, GET, INCR, DECR |
| List store | `lib/store.cpp`, `rpush-handler.cpp`, `list-commands/` | `get_lists()` | RPUSH, LPUSH, LPOP, LRANGE, LLEN |
| Stream store | `lib/stream-store.cpp`, `xadd-`, `xrange-`, `xread-command-handler.cpp` | `get_streams()`: entries and `last_id`; the locals of a sleeping XREAD | XADD, XRANGE, XREAD |
| TYPE | `type-command-handler.cpp` | none; reads the maps | TYPE |
| Append-only file | `src/aof.cpp` | the file, `m_writeBuffer`, the descriptor | start, append, flush, stop |
| Recovery | `src/aof.cpp` 113-171, `src/main.cpp` 41-49 | the string store | replayLog |
| RDB parser | `lib/RdbParser.cpp` | the input file, entries and expiry at hand | parse header, parse entries |
| RESP parser and encoders | `lib/resp-parser.cpp` | none | text to arguments, replies to text |
| Qt frontend | `frontend/Mainwindow.cpp` | one socket, its log | connect, disconnect, send, show what arrives |
| Configuration | `src/config.cpp`, `src/aofconfig.cpp` | unused values | parse arguments |
| Command line client | `tools/client.cpp` | one socket | send one request, print the reply |

How they interact. `main` opens the log, replays it into the string store, and
parses `dump.rdb` and drops what it parsed. Then the loop hands every chunk it
receives to `request_router`. Inside MULTI the router queues; otherwise
`dispatch_command` first appends the command to the log, then calls its handler;
EXEC calls `dispatch_command` again for every queued command. Handlers are plain
calls on global maps. XREAD BLOCK sleeps inside its handler and so holds up the
loop, and so does `send` while a client does not read. There is no other thread:
the mutex around the streams is never contended. Between client and server there
is a stream of characters without borders; the server takes one `recv` for one
request, and the window one `readAll` for one answer.

What makes it hard. Concurrency is that of connections: their requests
interleave, peers disappear, descriptors are reused, and the vector of
descriptors changes while it is walked. Failure is that of the process: it can be
killed between the log and the handler, between two commands of an EXEC, or
inside a write, and `std::stol` in SET and SIGPIPE in `send` end it from within.
Time enters twice: the steady clock decides about expiry, the wall clock about
stream ids, and the latter may be set back.

What makes each part correct. Event loop: no ready client skipped or met twice,
no state carried over to a reused descriptor, everybody served. Transactions: the
queue EXEC walks through is not disturbed, nothing queued outlives its
transaction. Strings: counters stay in range, lazy expiry cannot be seen. Lists:
the commands are those of deques, whatever the indices. Streams: ids increase,
entries stay, readers miss and repeat nothing. Log: file and buffer hold what was
appended, in order. Recovery: a restart brings back what the log tells. RDB
parser: what is called loaded is what was written. Wire: what is served is what
was typed, and what is shown is the answer to it.

## 2. Modules

| Module | What it is |
|---|---|
| `ExpiringMap`, `StringStore` | what the string commands promise; the handlers, shown to implement it |
| `Deques`, `ListStore` | what the list commands promise; the handlers, shown to implement it |
| `StreamStore` | the stream handlers, with both clocks and the sleeping XREAD |
| `Replies` | the answers of all handlers, without their text |
| `Keyspace` | composes the three stores over the same keys; TYPE, PING, ECHO, COMMAND; the dispatch of data commands |
| `Aof` | file, buffer, short writes, end of the process |
| `Resp` | the encoders and the parser of RESP text |
| `AofFormat` | `serializeToRESP` (over `Resp`) and the parser of `replayLog`, character by character |
| `AofRecovery` | composes `Aof` and `AofFormat` over several processes |
| `Server` | composes `Aof` and `Keyspace` with router, sessions, transactions, crash and restart |
| `EventLoop` | the loop of `main` over the kernel's sockets |
| `Conversation` | composes `Resp` with the Qt window and the buffer of `recv` over one TCP connection |
| `RdbParser` | the parser of `dump.rdb` over files written by a model of the format |
| `MC*` | constants for TLC |
| `*_proofs` | theorems about `Aof`, `AofRecovery`, the three stores (`Keyspace_proofs`), `Server`, `EventLoop`, `Resp`, `Conversation` and `RdbParser` |

Handlers keep their names. An action is one handler, except where the program can
be interrupted inside one: `Server` has `Log` and `Handle` for the two halves of
`dispatch_command` and one such pair per queued command of an EXEC, because the
process may die in between, and `Sleep` for a turn of the loop of XREAD BLOCK
(`xread_loop` of `StreamStore`); `EventLoop` has one action per element of `pagers` because clients act
between two system calls. `reply` is the answer of the last handler. Operators
such as `Accepts_equal` or `Erase_next`, placed in front of the definition whose
name they extend, are variants of that definition with a plausible mistake in it;
no specification uses them, they serve to confirm that the properties notice.

**StringStore.** `store` is `get_store()` with `NoEntry` for a missing key. Values
are numbers (texts `std::stoll` reads completely, printed back by
`std::to_string`) or words. An expired entry stays until GET erases it or a write
replaces it. `SET key value flag` without a number is taken by the router as a SET
without options. `SetOptions` holds durations whose deadlines fit; the overflow of
larger ones is a hazard not modelled yet.

**ListStore.** The two clamps of LRANGE are `RangeStart` and `RangeEnd`, in the
code's order and leaving a negative end negative. LLEN goes through `operator[]`
and so creates an empty list, which `Deques` cannot tell from none.

**StreamStore.** Halves of ids are numbers modulo `UINT64_MAX + 1`. `*` reads
`clock`, which `ClockJump` sets to anything. A refused XADD still leaves a stream
behind. While `xread` is not `Awake` no other command runs.

**Keyspace.** A command is a tuple of its name and arguments; the number and the
flag of a SET are one argument, as are the keys and ids of an XREAD. Names come in
capitals: `upper` and the case of names are left out. DEL belongs to the commands
nobody knows; only `replayLog` carries it out.

**Aof.** `flushBuffer` lets `write(2)` take any number of symbols; the rest stays
in the buffer. `Die` is the end of the process by a signal or an abort, `stop` the
end by a return from `main`, whose destructor flushes once more: the file remains.
The variables `boot` and `logged` are history. What `write(2)` took is taken to be
in the file: the page cache survives the process; a power failure before `fsync`
is not modelled. A `start` that fails ends `main` and changes none of this.

**Resp.** `int_parser` is a function from positions to a value and the position
behind it. `resp_to_text` stops nowhere: a count or a length that is larger than
the text makes the code read memory behind it, which the operator reports as
`beyond`. A count above the length of the text is cut to that length, which is
enough to go beyond.

**AofFormat.** Each stream extraction is an operator from a position and a status
to a value, a new position and a new status, as the standard defines it, including
the rule that a failed stream leaves the variable alone. `replayLog` does not
initialise its three variables; their values in that case are the record `junk`,
over which `Boot` quantifies. Lengths have one digit.

**Server.** `session` is `clients`, `task` the request being served: the commands
still to dispatch, the half of `dispatch_command` it is at, whether they come from
EXEC, and the replies so far. A record of the log is one symbol here. `Abort` is a
SET whose duration `std::stol` rejects. Time passes between any two steps. After an
XREAD has gone to sleep nothing but `Sleep`, time and death can happen.

**EventLoop.** `pagers` is the vector with the `revents` of the last poll, `i` the
index counted from 1. `sock` and `backlog` are the kernel's; `accept` gives the
lowest free descriptor and fails when there is none, upon which -1 is pushed to
the vector as the code does. `serving` is a request in its handler, which may nap.
`send` waits while `unread` answers fill the buffers of an open connection, turns a
closed one into a reset one, and to a reset one ends the process. `due` is history.

**Conversation.** `toServer` and `toClient` are the texts under way, with the places
where writes end. A `recv` or `readAll` gives any beginning of them, `recv` at most
`BufferSize - 1` characters. The router answers with any of `Answers`. A request that
makes the parser read beyond its text is answered with anything or ends the process.
`cut` is history: it tells the connections on which a read ended within a request or
an answer; the other histories only count from then on. The log of the window is
`shown`.

**RdbParser.** A byte has `4 * Low` values, so that the forms of a length, told
apart by two bits, are all needed by short strings; `Low` is 64 in the code. A
read gives a value and a position, `Thrown` when it was checked and failed; an
unchecked one leaves zeros or something uninitialised. `Write` is the format as
its writers use it, over databases of strings; the file is a prefix of that.

## 3. Runs

| Run | Checks | Bounds |
|---|---|---|
| `transactions` | `ExecWalksItsQueue`, `QueueOnlyInMulti`, `RequestsAnswered` | 2 connections, 1 key that may be a list and a stream, queues of 2, naps of 1 and for ever, a log that is off |
| `durability` | `LogMirrorsMemory`, `LogInOrder`, `FileOnlyGrows`, `TypesChangeForAReason` | 1 connection, 1 key that may be a string with expiry and a list, queues of 2, 4 records, 1 kill, 2 instants |
| `aof_recovery` | `RestoresMemory` | 3 SETs on 2 keys and a GET, 56 characters, 1 kill |
| `string_store` | `StoreTypeOK`, `LazyExpiryUnobservable` | 2 keys, counters in -1..2, 4 instants |
| `streams` | `StreamTypeOK`, `StreamsOrdered`, `PagingIsLossless`, `AutoIdUsable`, `StreamsAppendOnly`, `SleepDeliversNothing`, `BlockedXReadReturns` | 2 streams of 2 entries, halves in 0..2, naps up to 2 and for ever |
| `list_store` | `PopsLeaveNoEmptyList`, `ListsAreDeques` | 4 elements, indices in -6..6 |
| `event_loop` | `BatchServesReadyOnce`, `ConnectionsAgree`, `DataIsServed`, `ClosedIsReclaimed` | 2 descriptors, 2 chunks per socket, 4 elements, 1 nap, 1 unread answer |
| `wire` | `PatientTalk`, `NothingInvented`, `PatientIsAnswered` | 2 requests per connection, 5 answers, a buffer of 23 |
| `rdb` | `LoadedIsRead`, `CutIsRefused`, `ParserEnds` | all databases of up to 2 of 15 entries, cut anywhere |
| `torn_twice`, `restart`, `rdb_long` | a claim of the source the code does not keep | as the runs above; one string of `Low * Byte` characters |

Why these bounds are enough. Counters and id halves of three or four values
contain both ends, a wrap and an ordinary step. Lists of four with indices to two
beyond both ends show every order of start, end and length. A queue of two has a
first and a last. Two descriptors with a third connection waiting
reach the limit on open files and the reuse of a descriptor in one batch. In
`durability` one kill gives two processes on one file, and more lives only repeat
what `Die` and `start` do; four records hold a write, a transaction and a write
behind it. 56 characters are two records of `aof_recovery`. Into a buffer of 23 a
request of one word fits twice, one of two words once, and the longest line of the
run does not fit; two requests are the fewest that can arrive together. Two
entries are the fewest whose neighbour could get an expiry, and the strings of the
`rdb` runs take each form of a length and each width of a number.
The log, lists and streams are never full while a request of `Server` is at work:
`Room` admits a request only if they can take all it may run.

The violations. `torn_twice`: nothing cuts a torn record off the file, so the next
process appends right behind it. In the trace a kill leaves a lone `*`, the next
process writes a whole SET behind it, and on the start after that the extraction of
the array size meets the second `*` and fails; a failed stream ends the replay, and
the SET is lost. Other cuts lose it in other ways. `restart`: INCR is logged, done,
and passed over by replay; the same holds for DECR, lists and streams, and DEL, which
the server logs and refuses, is carried out by replay. `rdb_long`: `read_length`
compares two bits with the decimal number ten, so the 32-bit form of a length is taken
for an encoded number and the bytes of a long string for opcodes; main calls the file
loaded.

How the recovery properties differ. `LogMirrorsMemory` says that log and memory
agree in the sense of the replay, for the strings and for the commands replay knows,
and holds; its one exception is a key whose expiry has come, which a replay brings
back, because it drops the option of the SET. `RestoresMemory` says it about the text
of the log, for one kill, and holds, with the key of the cut record excepted;
`WholeRecordsSurvive` says it for several kills, and fails.

How the wire properties differ. `PatientTalk` is about a user who waits for each
answer: request and answer then never meet another one in a buffer, and the
connection is a remote call. An impatient user gets less: of requests that arrive
together only the first is served, and answers that arrive together are shown as
one. `NothingInvented` says what is left, that a served request is one that was
typed, in the order typed. Both except connections on which a read ended within a
request or an answer, be it that TCP gave no more or that the buffer was full: the
server then answers the pieces of a request as if they were requests, and the window
shows the pieces of an answer. `PatientIsAnswered` holds for those too.

## 4. Fairness

`ServerFairSpec` and `LoopFairSpec` assume that the one thread keeps running: weak
fairness of the steps of the request at work, or of the loop, as one action. That is
all the scheduler of the operating system gives, and it is not given once the process
is dead. `StreamFairSpec` assumes that a thread in `sleep_for` wakes up again.
`RdbSpec` assumes that the parser, which nothing interrupts, goes on. `TalkSpec`
assumes that the server receives what has arrived and that the event loop of Qt
delivers `readyRead`; whether connections break is left open.

Clients are under no fairness with one exception. `LoopFairSpec` has weak fairness
of `ClientReads` for each descriptor: a client with an unread answer reads it some
time, or goes. Without it one client that never reads stops the server, for `send`
blocks. A nap in `EventLoop` is finite, so XREAD BLOCK 0 is outside it: with it
nobody is served, which `SleepDeliversNothing` states and `RequestsAnswered` names
as its exception. `event_loop` runs without the deadlock check because SIGPIPE may
end the process for good, `rdb` because the parser ends; the other runs keep it.

## 5. Proofs

Every theorem below holds for all values of the constants that satisfy the
assumptions the modules name, which TLC evaluates on every run. Where an inductive
invariant is stronger than what the runs check, TLC found it to hold on the
constants of the run before it was proved; `RecoveryInv`, which asks for a sequence of
commands that TLC cannot enumerate, is the exception.

* `Aof_proofs`: `AofCorrect`, `AofAppendOnly`. The invariant is `AofTypeOK /\
  LogInOrder`; the half of the type invariant that says a closed log has nothing
  in its buffer is what makes `start` keep the order. The heart of it is that a
  flush moves a prefix of the buffer to the end of the file, whose concatenation
  with the rest is the same (`ShortWriteKeepsOrder`); the last flush of `stop` is
  one more case.
* `Keyspace_proofs`, of strings: `StoreTyped`, `StoreRefinesExpiringMap`. Under the type
  invariant each handler maps to the eager map's action: SET to `Put` with its
  lifetime, GET of an expired entry to `Get` of an absent key, INCR and DECR to
  `Add`, and `Tick` to `Elapse`, which removes exactly the keys whose deadline is
  the next instant.
* `Keyspace_proofs`, of lists: `PopsClearTheKey`, `ListsImplementDeques`. The
  invariant under both is that the map holds sequences of elements (`ListTypeOK`).
  That a popped key has no empty list is shown for LPOP on the empty list of LLEN
  (`DropEmpty`) and on one with elements (`DropFirst`). The refinement rests on three lemmas about the index
  arithmetic: the positions `Slice` takes are those between the two clamps of LRANGE
  (`SliceIsSubSeq`, for indices however far outside), inserting one by one in front
  reverses (`PushedInFront`), and erasing a clamped number leaves a nonempty list or
  no key (`PopFacts`).
* `Keyspace_proofs`, of streams: `StreamsTyped`, `StreamsCorrect`, `StreamsOnlyGrow`,
  `AutoIdIsUsable`, `SleepersGetNothing`, `ReadersMissNothing`. The invariant is `StreamTypeOK /\
  StreamsOrdered`. The order of ids is a strict total order (lemmas), so an id
  greater than `last_id` is greater than all; `last_id` is the last entry's id, which
  needs the clause that an empty stream has `last_id` 0-0, since XADD takes a stream
  without history for one that accepts anything but 0-0. The wrap-around of the
  sequence half is covered because the check of XADD comes after it. For the sleeping
  XREAD the invariant adds that what it found when it went to sleep, nothing, is what
  it would find at any moment of the sleep. `ReadersMissNothing` needs that order
  too: an id cuts the ids in two, those up to it and those above it, and once an entry
  of an ordered stream is above, all later ones are. The loops of XRANGE and XREAD
  then split the stream (`SplitStream`, by induction on the entries they have passed).
* `Server_proofs`: `ExecRunsItsQueue` and `NoQueueOutlivesItsTransaction` for any
  number of connections. The two are inductive together (`TxInv`): the one says that
  a session whose queue runs is out of MULTI, the other that nobody else out of MULTI
  has a queue. What makes them survive a step is that a queue holds no MULTI, EXEC or
  DISCARD and that a request which is no EXEC is one command. `ServerImplementsLog`:
  every step of the server is a step of `AofSpec` or leaves the log alone, from which
  `ServerLogInOrder` and `ServerFileOnlyGrows` follow.
* `Server_proofs`, of the memory: `TheLogMirrorsTheMemory`, `TypesChangeWithWrites`.
  Replaying is a fold; `ReplayAppend` turns it into the equation that a record at the end is
  replayed on top of the rest, by induction on the positions. Between the two halves
  of `dispatch_command` the log is one command ahead of the memory, so the invariant
  `MirrorInv` compares the replay with the memory as it will be once the handler has
  run; the value of a key may differ only where the last SET had an option that the
  replay dropped. The first theorem is stated for `ReplayableCommands`: the log is on,
  and there are no INCR, DECR and DEL, for which it is false (`restart`). The second
  is stated for `KnownCommands`, those that have a handler. The constants of
  `durability` satisfy both.
* `EventLoop_proofs`: `ReadyClientsAreMetOnce`, `DescriptorsStayApart`. Neither
  property is inductive alone. That a batch is served once needs the descriptors in
  `pagers` to differ; they do because `accept` returns one that no socket has, and
  `ConnectionsAgree` says that those are the ones in `pagers`. `LoopInv` adds that a
  failed accept is never ready, that a socket in use has a peer, and that a request
  is served where the loop stands. Erasing an element moves those behind the
  index, which the walk, going down, has left behind (`RemoveAtProperties`).
* `Resp_proofs`: `RequestIsRead`, from the encoder of requests to the parser of the
  server: what `resp_to_text` finds in the text of `array_to_resp`, with any text
  behind it, are the words the encoder was given, and no position behind the text is
  read. `Laid` says where in a text the strings of an array lie. The encoder lays them
  out like that, by induction on the strings (`ArrayIsLaid`; `FlattenUnfolds` shows
  first that the function behind the concatenation exists); more text behind changes nothing
  (`LaidStays`); from a text laid out like that the parser's loop takes them, by
  induction on its turns (`LaidIsRead`). `Char` stands for the characters: the provers
  know of no string that it is in `STRING`.
* `Conversation_proofs`: `PatientUsersAreServed`, `RequestsAreNeverInvented`. As long
  as no read was cut, the connection of a patient user is in one of three states:
  nothing is under way, the one unserved request is, or the one unshown answer is
  (`TalkInv`); `RequestIsRead` and its counterpart for the window, `AnswerIsShown`,
  then say what each side makes of the whole text it reads. For an impatient user
  (`FlowInv`) what is under way are the requests behind the first p of those typed,
  with an end in the stream for each, and what was served are some of the first p in
  their order. A read takes some more of them, and of these the parser finds the
  first, which is where `RequestIsRead` is needed with text behind the request.
  Both rest on two assumptions of `Conversation`, which TLC evaluates for the
  constants of `wire`: `RequestAssumption`, that a request has at most nine words of
  at most nine characters, so that a length has one digit; and `AnswerAssumption`,
  the same for answers, and that these have no white space where the window trims it.
* `RdbParser_proofs`: `LoadedIsReadHolds`, `CutIsRefusedHolds`. `Lies` says where in
  the text of the whole file a piece lies, and the file is a beginning of that text.
  For each piece there is a lemma on its writer and one on its reader: `SignedIs`
  undoes two's complement, by induction on the bytes, and from `LengthIsRead` to
  `EntryIsRead` a read gives the value and the position behind it if all of it is in
  the file, or else throws or ends behind the last byte, where the next checked read
  throws. That is why the unchecked reads do no harm: after one that failed, the loop
  cannot meet the opcode of the end. `RdbInv` says where a turn begins: behind the last
  byte, at one of the fields that are dropped, or in front of entry k + 1 with the
  first k loaded. The hypothesis `ShortDatabases` is that the strings and the number of
  entries have less than `Low * Byte` members (16384 in the code), so that no length
  needs the 32-bit form, with which `LoadedIsRead` is false (`rdb_long`). The databases
  of `rdb` satisfy it.

* `AofRecovery_proofs`: `RestoresMemoryHolds`. The replay checks none of its reads, so
  the proof follows a stream that has ended through the rest of a record: every
  argument is then a word with its end cut and spaces for what is missing, or blank,
  whatever the uninitialised variables hold (`LostIsCut`, `RecordIsRead`). Every turn
  goes on behind where it was (`RecordOnward`), so the recursive function of `Parse`
  exists; by induction from the last record to the first, what it gives are the whole
  records in order and at most one command more, a cut one (`LogIsParsed`). Replaying
  the whole ones is executing their commands, by induction on the positions of the
  fold, and a cut one that still begins with SET and names a key in use is a cut SET
  of that key (`CutIsReplayed`). `RecoveryInv` says that a file without a process
  holds some first commands and a part of the next, which `kept` and `torn` name; at
  the kill this comes from `LogInOrder` of `Aof_proofs`. Two hypotheses. `OneKill`:
  after a second kill the statement about whole records is false (`torn_twice`).
  `RestorableCommands`: no DEL (section 3), and no name or key ends in a space, or
  else a longer one that is cut could be taken for it. Of the commands only SET has an
  effect here (`Executed`). `MCAofRecovery` assumes `RestorableCommands` of its
  constants, and TLC evaluates that. `RecoveryAssumption` holds lengths to one digit,
  as `Resp` does.

Only model-checked are the liveness properties, which are outside the prover's reach
under fairness.

## 6. Not modelled

Configuration (`config.cpp`, `aofconfig.cpp`): values nobody reads; `main` looks for
`--appendonly` itself, which is the constant `AppendOnly`. The command line client:
it sends one request and prints the answer, a patient user of `Conversation` with
one line. The wording of replies, widgets and the build.

What the models leave out of modelled parts, and assume:

* Commands come with the arguments they need. `dispatch_command` reads beyond the
  argument list of a short one.
* Deadlines of SET fit a `long` in nanoseconds.
* TCP ends a read within a write at most once in a connection of `Conversation`; a
  full buffer may do so again.
* `Conversation` has values without white space at the ends the window trims
  (`AnswerAssumption`), and lengths of one digit (`RequestAssumption`). Connections
  follow one another.
* The files of `RdbParser` hold strings only and use the shortest form of every
  length. An entry of another type is not skipped by the code but read as opcodes.
* The entries of `dump.rdb` go nowhere (`main.cpp` 56), so `Server` starts from the
  log alone.

## 7. Plan

Done: log and recovery, the server with its transactions over all three stores, the
stores themselves, the event loop with blocking sends, the wire between window and
server, the RDB parser.

Proved: every safety invariant, action property and refinement of the passing runs.

Next, proving more, in this order:

1. `CutIsRefused` for databases with the 32-bit form of a length.
2. Lengths of several digits in `Resp_proofs`, for which `to_string` has to write them.

And extending the model: deadline arithmetic of limited width in `StringStore`;
RDB entries of other types.
