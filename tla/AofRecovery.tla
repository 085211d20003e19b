----------------------------- MODULE AofRecovery -----------------------------
(***************************************************************************)
(* The life of the log over several processes: src/src/main.cpp opens it,  *)
(* replays it and then appends to it while it serves commands; the process *)
(* is killed at any moment, possibly with the tail of a record unwritten,  *)
(* and is started again on the file it left.  Here the log is at the level *)
(* of characters, so that a record can be cut anywhere.                    *)
(***************************************************************************)
EXTENDS Aof, AofFormat

CONSTANTS
  Junk,       \* the uninitialised values a replay may meet
  MaxCrashes  \* bound on the number of kills

\* Commands have their name, a SET has its key and its value, and no length
\* takes more than one digit.
ASSUME RecoveryAssumption ==
  /\ \A c \in Commands :
       /\ Serialize(c) = serializeToRESP(c)
       /\ c \in Seq(DOMAIN Bytes) /\ Len(c) \in 1..9
       /\ c[1] = "SET" => Len(c) >= 3
       /\ \A i \in 1..Len(c) : Bytes[c[i]] \in Seq(STRING) /\ Len(Bytes[c[i]]) <= 9
  /\ \A junk \in Junk : junk.arraySize \in Int /\ junk.stringLength \in Int
  /\ MaxCrashes \in Nat

VARIABLES
  memory,   \* get_store() without expiry: a map from keys to values
  issued,   \* history: the commands this process appended
  kept,     \* history: older commands whose whole record is in the file
  torn,     \* history: the commands of which the file has a part
  crashes

recoveryVars == <<aofVars, memory, issued, kept, torn, crashes>>

\* main: start, then replayLog.  When the replay throws there is no process.
Boot ==
  \E junk \in Junk :
    \/ /\ ~Parse(file, junk).throws
       /\ start
       /\ memory' = Replay(file, junk)
       /\ UNCHANGED <<issued, kept, torn, crashes>>
    \/ /\ fd = "closed" /\ Parse(file, junk).throws
       /\ UNCHANGED recoveryVars

\* What executing a command does to the keyspace.
Executed(map, cmd) ==
  IF cmd[1] = "SET" THEN Put(map, Bytes[cmd[2]], Bytes[cmd[3]]) ELSE map

\* dispatch_command: log first, then the handler.
Serve(cmd) ==
  /\ fd = "open"
  /\ appendCommand(cmd)
  /\ memory' = Executed(memory, cmd)
  /\ issued' = IF Appends(cmd) THEN Append(issued, cmd) ELSE issued
  /\ UNCHANGED <<kept, torn, crashes>>

\* How many of the first n commands of this process fill the file so far.
Span(n) == Len(FlattenSeq([i \in 1..n |-> serializeToRESP(issued[i])]))

Kill ==
  LET written == Len(file) - Len(boot)
      whole   == Max({n \in 0..Len(issued) : Span(n) <= written})
  IN  /\ fd = "open" /\ crashes < MaxCrashes
      /\ Die
      /\ memory' = NoKeys
      /\ issued' = <<>>
      /\ kept' = kept \o SubSeq(issued, 1, whole)
      /\ torn' = torn \cup (IF Span(whole) < written THEN {issued[whole + 1]} ELSE {})
      /\ crashes' = crashes + 1

RecoveryInit ==
  /\ AofInit
  /\ memory = NoKeys
  /\ issued = <<>> /\ kept = <<>> /\ torn = {}
  /\ crashes = 0

RecoveryNext == Boot \/ (\E c \in Commands : Serve(c)) \/ Kill

RecoverySpec == RecoveryInit /\ [][RecoveryNext]_recoveryVars

-----------------------------------------------------------------------------
Lookup(map, k) == IF k \in DOMAIN map THEN <<map[k]>> ELSE <<>>

\* What the kept records say a key holds.
Expected(k) == Lookup(FoldLeft(Executed, NoKeys, kept), k)

\* A beginning of value with spaces for the characters that are missing.
CutShort(found, value) ==
  /\ found # <<>>
  /\ \A i \in DOMAIN found[1] :
       found[1][i] = " " \/ (i <= Len(value) /\ found[1][i] = value[i])

JustReplayed == fd = "open" /\ issued = <<>>
KeysUsed     == {Bytes[c[2]] : c \in {d \in Commands : Len(d) > 1}}

\* "Replay log files to restore memory state on startup" (main.cpp:48),
\* whatever the kill left of the last record: every key has the value of the
\* last SET whose record is whole in the file, but for the key of the cut
\* record, which may have a cut value instead.
RestoresMemory ==
  JustReplayed =>
    \A k \in KeysUsed :
      \/ Lookup(memory, k) = Expected(k)
      \/ \E c \in torn : Bytes[c[2]] = k /\ CutShort(Lookup(memory, k), Bytes[c[3]])

\* The same, for the keys no cut record names: a SET that is whole in the
\* file is not lost to a kill, however many came before.
WholeRecordsSurvive ==
  JustReplayed =>
    \A k \in KeysUsed \ {Bytes[c[2]] : c \in torn} : Lookup(memory, k) = Expected(k)

-----------------------------------------------------------------------------
(* What the proof of RestoresMemory takes for granted *)

\* The process is killed at most once.  The next one appends right behind the
\* record that was cut, and the replay after a second kill may lose what it has
\* appended.
OneKill == MaxCrashes <= 1

\* A word that no cut word can be taken for.
Entire(v) == v # <<>> /\ v[Len(v)] # " "

\* There is no DEL, which the server logs and refuses and replayLog carries out,
\* and no name is written like that of another command.  A name or a key that
\* ends in a space could be a cut one with the spaces the replay puts for what
\* is missing.
RestorableCommands ==
  /\ Entire(Bytes["SET"]) /\ Entire(Bytes["DEL"])
  /\ \A k \in KeysUsed : Entire(k)
  /\ \A c \in Commands :
       (Bytes[c[1]] = Bytes["SET"] <=> c[1] = "SET") /\ Bytes[c[1]] # Bytes["DEL"]
=============================================================================
