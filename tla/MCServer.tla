------------------------------- MODULE MCServer -------------------------------
(* The log at the level of records, and the commands of the runs.  One key *)
(* k may be a string, a list and a stream at once.                         *)
EXTENDS Server

CONSTANTS k, v, w

MCRecord(cmd) == <<cmd>>
MCMin == -1
MCNone == {}
MCOptions == {NoOption, [flag |-> "PX", num |-> 1]}

Transactions == {<<"MULTI">>, <<"EXEC">>, <<"DISCARD">>}
MCMixed == Transactions \cup
  {<<"RPUSH", k, <<v>>>>, <<"SET", k, w, BadOption>>, <<"XADD", k, [form |-> "auto"], v>>,
   <<"XREAD", <<[key |-> k, from |-> Zero]>>, 1>>,
   <<"XREAD", <<[key |-> k, from |-> Dollar]>>, Forever>>}
MCWrites ==
  {<<"MULTI">>, <<"EXEC">>, <<"SET", k, v>>, <<"SET", k, w, [flag |-> "PX", num |-> 1]>>,
   <<"GET", k>>, <<"RPUSH", k, <<v>>>>, <<"LPOP", k>>}
MCCounters == {<<"SET", k, v>>, <<"INCR", k>>, <<"DECR", k>>, <<"DEL", k>>}
=============================================================================
