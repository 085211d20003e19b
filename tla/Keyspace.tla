------------------------------- MODULE Keyspace -------------------------------
(***************************************************************************)
(* The three maps of the server side by side, and dispatch_command of      *)
(* lib/request-router.cpp over them: each command reaches the handler of   *)
(* its component and leaves the other components alone.  Strings, lists    *)
(* and streams are kept apart, so a key may be in all of them at once, and *)
(* TYPE has to say which one it means.                                     *)
(*                                                                         *)
(* A command is <<name, argument, ...>>.  The option part of SET is one    *)
(* argument, so are the list of a push and the keys and ids of XREAD.      *)
(***************************************************************************)
EXTENDS StringStore, ListStore, StreamStore

keyspaceVars == <<store, now, lists, streams, clock, xread, reply>>

\* TYPE looks at the strings, then at the lists.
TypeOf_unexpired(k) ==
  IF store[k] # NoEntry THEN IF is_expired(store[k]) THEN "none" ELSE "string"
  ELSE IF lists[k] # NoList THEN "list" ELSE "none"
TypeOf(k) ==
  IF Live(k) THEN "string" ELSE IF lists[k] # NoList THEN "list" ELSE "none"

type_command_handler(k) ==
  /\ reply' = <<"type", TypeOf(k)>>
  /\ UNCHANGED <<store, now, lists, streams, clock, xread>>

OnStrings(cmd) ==
  /\ \/ /\ cmd[1] = "SET"
        /\ set_command_handler(cmd[2], cmd[3], IF Len(cmd) > 3 THEN cmd[4] ELSE NoOption)
     \/ cmd[1] = "GET" /\ get_command_handler(cmd[2])
     \/ cmd[1] = "INCR" /\ incr_command_handler(cmd[2])
     \/ cmd[1] = "DECR" /\ decr_command_handler(cmd[2])
  /\ UNCHANGED <<lists, streams, clock, xread>>

OnLists(cmd) ==
  /\ \/ cmd[1] = "RPUSH" /\ handle_rpush(cmd[2], cmd[3])
     \/ cmd[1] = "LPUSH" /\ handle_lpush(cmd[2], cmd[3])
     \/ cmd[1] = "LRANGE" /\ lrange_command_handler(cmd[2], cmd[3], cmd[4])
     \/ cmd[1] = "LLEN" /\ llen_command_handler(cmd[2])
     \/ cmd[1] = "LPOP" /\ Len(cmd) = 2 /\ lpop_command_handler(cmd[2])
     \/ cmd[1] = "LPOP" /\ Len(cmd) = 3 /\ lpop_count(cmd[2], cmd[3])
  /\ UNCHANGED <<store, now, streams, clock, xread>>

OnStreams(cmd) ==
  /\ \/ cmd[1] = "XADD" /\ xadd_command_handler(cmd[2], cmd[3], cmd[4])
     \/ cmd[1] = "XRANGE" /\ xrange_command_handler(cmd[2], cmd[3], cmd[4])
     \/ cmd[1] = "XREAD" /\ xread_command_handler(cmd[2], cmd[3])
  /\ UNCHANGED <<store, now, lists>>

\* Commands that touch no map.  DEL is among those nobody knows: it is only
\* replayLog that does.  COMMAND answers as PING does.
Stateless(cmd) ==
  /\ reply' = CASE cmd[1] \in {"PING", "COMMAND"} -> <<"pong">>
                [] cmd[1] = "ECHO"                -> <<"simple", cmd[2]>>
                [] cmd[1] = "DEL"                 -> Error
  /\ UNCHANGED <<store, now, lists, streams, clock, xread>>

DataCommand(cmd) ==
  CASE cmd[1] \in {"SET", "GET", "INCR", "DECR"}                    -> OnStrings(cmd)
    [] cmd[1] \in {"RPUSH", "LPUSH", "LRANGE", "LLEN", "LPOP"}      -> OnLists(cmd)
    [] cmd[1] \in {"XADD", "XRANGE", "XREAD"}                       -> OnStreams(cmd)
    [] cmd[1] = "TYPE"                                              -> type_command_handler(cmd[2])
    [] cmd[1] \in {"PING", "COMMAND", "ECHO", "DEL"}                -> Stateless(cmd)

KeyspaceInit == StoreInit /\ InitLists /\ InitStreams

\* Time passes: the steady clock that expires strings, and the wall clock
\* that names stream entries.
Time ==
  \/ Tick /\ UNCHANGED <<lists, streams, clock, xread>>
  \/ ClockJump /\ UNCHANGED <<store, now, lists>>
=============================================================================
