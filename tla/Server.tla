-------------------------------- MODULE Server --------------------------------
(***************************************************************************)
(* The server process: lib/request-router.cpp with the MULTI, EXEC and     *)
(* DISCARD handlers, over all three maps (Keyspace) and the log (Aof).     *)
(* One thread serves one request at a time, but a request is not one step: *)
(* each command is logged before its handler runs, EXEC runs a queue of    *)
(* them, XREAD BLOCK sleeps in the middle, and the process may be killed   *)
(* in between and be started again on its log.  Here a record of the log   *)
(* is one symbol, the command itself; AofRecovery cuts records apart.      *)
(***************************************************************************)
EXTENDS Aof, Keyspace, SequencesExt

CONSTANTS
  Conns,      \* the connections of clients
  MaxQueue,   \* bound on tx_queue
  MaxCrashes, \* bound on the kills of the process
  BadOption,  \* the option part of a SET whose number std::stol rejects
  Closed, Idle, Down

\* What a connection and a request may be besides Closed, Idle and Down.
Sessions == [in_multi : BOOLEAN, tx_queue : Seq(Commands)]
Tasks    == [conn : Conns, todo : Seq(Commands), stage : {"log", "handle"},
             exec : BOOLEAN, replies : Nat]

ASSUME ServerAssumption ==
  /\ \A c \in Commands : c # <<>>
  /\ MaxQueue \in Nat /\ MaxCrashes \in Nat
  /\ Closed \notin Sessions
  /\ Idle # Down /\ Idle \notin Tasks /\ Down \notin Tasks

VARIABLES
  session,  \* clients in main: the ClientState of a connection, or Closed
  task,     \* the request being served, or Idle, or Down without a process
  crashes

serverVars == <<aofVars, keyspaceVars, session, task, crashes>>

FreshSession == [in_multi |-> FALSE, tx_queue |-> <<>>]
Control == {"MULTI", "EXEC", "DISCARD"}
Working == task \notin {Idle, Down}

\* The command dispatch_command is at, and the session it is for.
Current == Head(task.todo)
Mine    == session[task.conn]
At(stage) == Working /\ task.todo # <<>> /\ task.stage = stage

Connect(c) ==
  /\ task = Idle /\ session[c] = Closed
  /\ session' = [session EXCEPT ![c] = FreshSession]
  /\ UNCHANGED <<aofVars, keyspaceVars, task, crashes>>

Disconnect(c) ==
  /\ task = Idle /\ session[c] # Closed
  /\ session' = [session EXCEPT ![c] = Closed]
  /\ UNCHANGED <<aofVars, keyspaceVars, task, crashes>>

\* Bounds: log, lists and streams have room for the request and all it may
\* run (the commands of the runs add one element each).
Room(c, cmd) ==
  LET todo == Append(session[c].tx_queue, cmd)
      Adds(names, k) == Len(SelectSeq(todo, LAMBDA t : t[1] \in names /\ t[2] = k))
  IN  /\ Len(file) + Len(writeBuffer) + Len(todo) <= MaxLogged
      /\ \A k \in ListKeys : Len(ListAt(k)) + Adds({"RPUSH", "LPUSH"}, k) <= MaxList
      /\ \A k \in StreamKeys : Len(StreamAt(k).entries) + Adds({"XADD"}, k) <= MaxEntries

Queues(c, cmd) == session[c].in_multi /\ cmd[1] \notin Control

\* A request arrives: inside MULTI it is queued, otherwise it is dispatched.
request_router(c, cmd) ==
  /\ task = Idle /\ session[c] # Closed
  /\ \/ /\ Queues(c, cmd)
        /\ Len(session[c].tx_queue) < MaxQueue
        /\ session' = [session EXCEPT ![c].tx_queue = Append(@, cmd)]
        /\ reply' = <<"queued">>
        /\ UNCHANGED task
     \/ /\ ~Queues(c, cmd) /\ Room(c, cmd)
        /\ task' = [conn |-> c, todo |-> <<cmd>>, stage |-> "log",
                    exec |-> FALSE, replies |-> 0]
        /\ UNCHANGED <<session, reply>>
  /\ UNCHANGED <<aofVars, store, now, lists, streams, clock, xread, crashes>>

\* dispatch_command begins: the command goes to the log, whatever becomes of it.
Log ==
  /\ At("log")
  /\ appendCommand(Current)
  /\ task' = [task EXCEPT !.stage = "handle"]
  /\ UNCHANGED <<keyspaceVars, session, crashes>>

\* The next command of the queue, when there is one.
Advance_repeating == task' = [task EXCEPT !.stage = "log"]
Advance == task' = [task EXCEPT !.todo = Tail(@), !.stage = "log", !.replies = @ + 1]

multi_command_handler ==
  /\ reply' = IF Mine.in_multi THEN Error ELSE Ok
  /\ session' = [session EXCEPT ![task.conn].in_multi = TRUE]
  /\ Advance

\* EXEC leaves MULTI first and then dispatches the queue, which it goes
\* through in place and clears after the last command.
exec_in_multi ==
  \/ /\ ~Mine.in_multi
     /\ reply' = Error /\ Advance /\ UNCHANGED session
  \/ /\ Mine.in_multi
     /\ task' = [task EXCEPT !.todo = Mine.tx_queue, !.stage = "log", !.exec = TRUE]
     /\ UNCHANGED <<session, reply>>
exec_command_handler ==
  \/ /\ ~Mine.in_multi
     /\ reply' = Error /\ Advance /\ UNCHANGED session
  \/ /\ Mine.in_multi
     /\ session' = [session EXCEPT ![task.conn].in_multi = FALSE]
     /\ task' = [task EXCEPT !.todo = Mine.tx_queue, !.stage = "log", !.exec = TRUE]
     /\ UNCHANGED reply

discard_keeping_queue ==
  /\ reply' = IF Mine.in_multi THEN Ok ELSE Error
  /\ session' = [session EXCEPT ![task.conn].in_multi = FALSE]
  /\ Advance
discard_command_handler ==
  /\ reply' = IF Mine.in_multi THEN Ok ELSE Error
  /\ session' = [session EXCEPT ![task.conn] = IF @.in_multi THEN FreshSession ELSE @]
  /\ Advance

\* std::stol throws and nothing catches it.
Aborts(cmd) == cmd[1] = "SET" /\ Len(cmd) > 3 /\ cmd[4] = BadOption

\* The handler runs; an XREAD that blocks stays in its loop.
Handle ==
  /\ At("handle") /\ xread = Awake /\ ~Aborts(Current)
  /\ \/ /\ Current[1] \in Control
        /\ \/ Current[1] = "MULTI" /\ multi_command_handler
           \/ Current[1] = "EXEC" /\ exec_command_handler
           \/ Current[1] = "DISCARD" /\ discard_command_handler
        /\ UNCHANGED <<store, now, lists, streams, clock, xread>>
     \/ /\ Current[1] \notin Control
        /\ DataCommand(Current)
        /\ IF xread' = Awake THEN Advance ELSE UNCHANGED task
        /\ UNCHANGED session
  /\ UNCHANGED <<aofVars, crashes>>

Sleep ==
  /\ At("handle") /\ xread_loop
  /\ IF xread' = Awake THEN Advance ELSE UNCHANGED task
  /\ UNCHANGED <<aofVars, store, now, lists, session, crashes>>

\* The answer is sent; after an EXEC the queue has been cleared.
Answer ==
  /\ Working /\ task.todo = <<>>
  /\ session' = [session EXCEPT ![task.conn].tx_queue = IF task.exec THEN <<>> ELSE @]
  /\ task' = Idle
  /\ UNCHANGED <<aofVars, keyspaceVars, crashes>>

\* The process dies; the maps and the connections die with it.
Perish ==
  /\ Die
  /\ store' = [k \in Keys |-> NoEntry]
  /\ lists' = [k \in ListKeys |-> NoList]
  /\ streams' = [k \in StreamKeys |-> NoStream]
  /\ xread' = Awake
  /\ session' = [c \in Conns |-> Closed]
  /\ task' = Down
  /\ UNCHANGED <<now, clock, reply>>

\* It is killed at any moment, or a SET with a bad number aborts it.
Crash == task # Down /\ crashes < MaxCrashes /\ Perish /\ crashes' = crashes + 1
Abort ==
  /\ At("handle") /\ Aborts(Current)
  /\ Perish
  /\ UNCHANGED crashes

\* What replayLog does with one record: SET without its option, and DEL.
Replayed_first(entries, cmd) ==
  CASE cmd[1] = "SET" /\ entries[cmd[2]] = NoEntry ->
         [entries EXCEPT ![cmd[2]] = [value |-> cmd[3], expiry |-> NoExpiry]]
    [] OTHER -> entries
Replayed(entries, cmd) ==
  CASE cmd[1] = "SET" ->
         [entries EXCEPT ![cmd[2]] = [value |-> cmd[3], expiry |-> NoExpiry]]
    [] cmd[1] = "DEL" -> [entries EXCEPT ![cmd[2]] = NoEntry]
    [] OTHER -> entries

Replay(records) == FoldLeft(Replayed, [k \in Keys |-> NoEntry], records)

\* main: open the log, replay it, and wait for clients.
Boot ==
  /\ task = Down
  /\ start
  /\ store' = IF AppendOnly THEN Replay(file) ELSE store
  /\ task' = Idle
  /\ UNCHANGED <<now, lists, streams, clock, xread, reply, session, crashes>>

ServerInit ==
  /\ AofInit /\ KeyspaceInit
  /\ session = [c \in Conns |-> Closed]
  /\ task = Down /\ crashes = 0

ServerNext ==
  \/ \E c \in Conns : \/ Connect(c)
                      \/ Disconnect(c)
                      \/ \E cmd \in Commands : request_router(c, cmd)
  \/ Log \/ Handle \/ Sleep \/ Answer
  \/ Abort \/ Crash \/ Boot
  \/ Time /\ UNCHANGED <<aofVars, session, task, crashes>>

ServerSpec == ServerInit /\ [][ServerNext]_serverVars

\* The thread goes on with the request it has; nothing else holds it up.
ServerFairSpec ==
  ServerSpec /\ WF_serverVars(Log \/ Handle \/ Sleep \/ Abort \/ Answer)

-----------------------------------------------------------------------------
\* A command reaches the handlers only with the queue it came from intact:
\* while EXEC goes through tx_queue the session is out of MULTI, so nothing
\* is pushed to the vector it iterates over or clears it; what is left to
\* run is the end of the queue, and what ran has given one reply each.
ExecWalksItsQueue ==
  Working /\ task.exec =>
    /\ ~Mine.in_multi
    /\ IsSuffix(task.todo, Mine.tx_queue)
    /\ task.replies + Len(task.todo) = Len(Mine.tx_queue)

\* Outside MULTI, and unless its own EXEC is at work, a session has nothing
\* queued: no command survives DISCARD, EXEC or a reconnect to run later.
QueueOnlyInMulti ==
  \A c \in Conns :
    session[c] # Closed /\ ~session[c].in_multi /\ session[c].tx_queue # <<>> =>
      Working /\ task.exec /\ task.conn = c

\* Only a request that blocks without limit is not answered (unless the
\* process dies over it): a bounded BLOCK ends, inside EXEC too.
RequestsAnswered ==
  Working ~> (~Working \/ (xread # Awake /\ xread.naps = Forever))

\* The log mirrors the memory: replaying what is written and what waits in
\* the buffer gives the strings the process has, or will have as soon as the
\* handler of the command just logged has run.  The one difference, for the
\* replay keeps no expiry: a key that is gone because its time had come
\* would be back, as the last SET of it left it.
Strings(entries) ==
  [k \in Keys |-> IF entries[k] = NoEntry THEN NoEntry ELSE entries[k].value]

Sets(cmd, k) == cmd[1] = "SET" /\ cmd[2] = k
LastSetHasOption(records, k) ==
  \E i \in DOMAIN records :
    /\ Sets(records[i], k) /\ Len(records[i]) > 3
    /\ \A j \in i+1..Len(records) : ~Sets(records[j], k)

MemoryToBe == IF At("handle") THEN Replayed(store, Current) ELSE store

LogMirrorsMemory ==
  task # Down =>
    LET log == file \o writeBuffer
    IN  \A k \in Keys :
          Strings(Replay(log))[k] # Strings(MemoryToBe)[k] =>
            MemoryToBe[k] = NoEntry /\ LastSetHasOption(log, k)

\* "Replay log files to restore memory state on startup" (main.cpp:48): a
\* process killed between two requests, with nothing left in the buffer,
\* comes back with the strings it had.
RestartRestoresMemory ==
  task = Idle /\ writeBuffer = <<>> => Strings(Replay(file)) = Strings(store)

\* What TYPE says of a key changes only while a command runs that writes
\* the string or the list of this key, because the time of its string has
\* come, or with the process.  Whether a string that has expired is still in
\* its map, hiding a list, makes no difference, so the GET that clears it
\* away is not seen.
TypesChangeForAReason ==
  [][\A k \in Keys \cap ListKeys :
       TypeOf(k)' # TypeOf(k) =>
         \/ task = Down \/ task' = Down
         \/ now' # now /\ TypeOf(k) = "string" /\ ~Live(k)'
         \/ /\ At("handle") /\ Current[2] = k
            /\ Current[1] \in {"SET", "INCR", "DECR", "RPUSH", "LPUSH", "LPOP", "LLEN"}
    ]_serverVars
=============================================================================
