--------------------------------- MODULE Aof ---------------------------------
(***************************************************************************)
(* The append-only file of src/src/aof.cpp: a file opened O_APPEND and a   *)
(* write buffer in front of it.  appendCommand puts the serialized command *)
(* at the end of the buffer and writes once; what write(2) did not take    *)
(* stays in the buffer for the next append, and is lost with the process.  *)
(* A command is a sequence whose first element is its name.                *)
(***************************************************************************)
EXTENDS Integers, Sequences

CONSTANTS
  Commands,       \* the commands that may be logged
  Serialize(_),   \* the symbols serializeToRESP makes of a command
  Symbols,
  AppendOnly,     \* m_appendOnlyEnabled: --appendonly yes
  MaxLogged       \* bound on the symbols in the file and the buffer

ASSUME AofAssumption ==
  /\ \A c \in Commands : Serialize(c) \in Seq(Symbols)
  /\ AppendOnly \in BOOLEAN
  /\ MaxLogged \in Nat

VARIABLES
  file,         \* the contents of the append-only file
  writeBuffer,  \* m_writeBuffer
  fd,           \* m_aofFileDescriptor: "open", or "closed" for -1
  boot,         \* history: the file when this process opened it
  logged        \* history: all this process was asked to append

aofVars == <<file, writeBuffer, fd, boot, logged>>

\* Every command the list does not name is taken for a mutation.
isMutatingCommand(name) == name \notin {"GET", "PING", "ECHO", "INFO"}

\* write(2) takes n of the symbols, 0 when it fails; only those leave the
\* buffer.  fsync then makes them durable.
flushBuffer_clearing(pending, n) ==
  /\ file' = file \o SubSeq(pending, 1, n)
  /\ writeBuffer' = <<>>
flushBuffer(pending, n) ==
  /\ file' = file \o SubSeq(pending, 1, n)
  /\ writeBuffer' = SubSeq(pending, n + 1, Len(pending))

\* When a command reaches the file at all.
Appends_unchecked(cmd) == AppendOnly /\ isMutatingCommand(cmd[1])
Appends(cmd) == AppendOnly /\ fd = "open" /\ isMutatingCommand(cmd[1])

appendCommand(cmd) ==
  \/ ~Appends(cmd) /\ UNCHANGED aofVars
  \/ /\ Appends(cmd)
     /\ Len(file) + Len(writeBuffer) + Len(Serialize(cmd)) <= MaxLogged
     /\ LET pending == writeBuffer \o Serialize(cmd)
        IN  \E n \in 0..Len(pending) : flushBuffer(pending, n)
     /\ logged' = logged \o Serialize(cmd)
     /\ UNCHANGED <<fd, boot>>

\* open(2) with O_APPEND | O_CREAT: what is there stays there.  When it, the
\* directory or the manifest cannot be made, main ends and nothing has changed.
start_truncating ==
  /\ fd = "closed" /\ fd' = "open"
  /\ file' = <<>> /\ boot' = <<>>
  /\ UNCHANGED <<writeBuffer, logged>>
start ==
  /\ fd = "closed"
  /\ fd' = IF AppendOnly THEN "open" ELSE "closed"
  /\ boot' = file
  /\ UNCHANGED <<file, writeBuffer, logged>>

\* main returns: the destructor gives the buffer one last write(2), and what
\* that does not take goes with the process.
stop ==
  /\ fd = "open" /\ fd' = "closed"
  /\ \E n \in 0..Len(writeBuffer) : file' = file \o SubSeq(writeBuffer, 1, n)
  /\ writeBuffer' = <<>> /\ logged' = <<>>
  /\ boot' = file'

\* The process is ended: the file is all that is left of it.
Die ==
  /\ fd' = "closed"
  /\ writeBuffer' = <<>>
  /\ logged' = <<>>
  /\ boot' = file
  /\ UNCHANGED file

AofInit ==
  /\ file = <<>> /\ writeBuffer = <<>> /\ fd = "closed"
  /\ boot = <<>> /\ logged = <<>>

AofNext ==
  \/ \E c \in Commands : appendCommand(c)
  \/ start \/ stop
  \/ fd = "open" /\ Die

AofSpec == AofInit /\ [][AofNext]_aofVars

-----------------------------------------------------------------------------
\* Types; and nothing waits in the buffer of a log that is not open, where
\* no flush would ever reach it.
AofTypeOK ==
  /\ file \in Seq(Symbols) /\ writeBuffer \in Seq(Symbols)
  /\ boot \in Seq(Symbols) /\ logged \in Seq(Symbols)
  /\ fd \in {"open", "closed"}
  /\ fd = "closed" => writeBuffer = <<>> /\ logged = <<>>

\* Whatever write(2) refuses or cuts short, file and buffer together are what
\* was in the file at the start followed by everything appended since, in
\* order: nothing is dropped, repeated or overtaken while the process lives.
LogInOrder == file \o writeBuffer = boot \o logged

\* The file only grows at its end, across crashes and restarts too.
FileOnlyGrows ==
  [][/\ Len(file') >= Len(file)
     /\ SubSeq(file', 1, Len(file)) = file]_aofVars
=============================================================================
