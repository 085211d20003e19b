------------------------------ MODULE Aof_proofs ------------------------------
(***************************************************************************)
(* Proofs about the append-only file, for every set of commands, every     *)
(* serialization and every pattern of short writes, crashes and restarts.  *)
(* The inductive invariant is AofTypeOK with LogInOrder: the order of the  *)
(* log speaks of the buffer, and that a closed log has an empty buffer is  *)
(* what carries it over a restart.                                         *)
(***************************************************************************)
EXTENDS Aof, SequenceTheorems, TLAPS

\* A short write moves symbols from the front of the buffer to the end of
\* the file: put one after the other, they are what they were.
LEMMA ShortWriteKeepsOrder ==
  ASSUME NEW S, NEW f \in Seq(S), NEW p \in Seq(S), NEW n \in 0..Len(p)
  PROVE  /\ f \o SubSeq(p, 1, n) \in Seq(S)
         /\ SubSeq(p, n + 1, Len(p)) \in Seq(S)
         /\ (f \o SubSeq(p, 1, n)) \o SubSeq(p, n + 1, Len(p)) = f \o p
<1> DEFINE front == SubSeq(p, 1, n)
           rest  == SubSeq(p, n + 1, Len(p))
<1>0. Len(p) \in Nat /\ n \in Nat /\ n <= Len(p) /\ \A m \in 1..Len(p) : p[m] \in S
  BY ElementOfSeq, LenProperties
<1>1. front \in Seq(S)
  BY <1>0, SubSeqProperties
<1>2. rest \in Seq(S)
  BY <1>0, SubSeqProperties
<1>3. front \o rest = p
  <2>1. 1 \in 1..Len(p) + 1 /\ n \in (1 - 1)..Len(p) /\ Len(p) \in n..Len(p)
    BY <1>0
  <2>2. front \o rest = SubSeq(p, 1, Len(p))
    BY <2>1, ConcatAdjacentSubSeq, Zenon
  <2> QED
    BY <2>2, SubSeqFull
<1> HIDE DEF front, rest
<1>4. f \o front \in Seq(S)
  BY <1>1, ConcatProperties
<1>5. (f \o front) \o rest = f \o (front \o rest)
  <2>1. \A s, t, u \in Seq(S) : (s \o t) \o u = s \o (t \o u)
    <3> TAKE s, t, u \in Seq(S)
    <3> QED
      BY ConcatAssociative, SMTT(60)
  <2> QED
    BY <1>1, <1>2, <2>1, Zenon
<1> QED
  BY <1>2, <1>3, <1>4, <1>5 DEF front, rest

AofInv == AofTypeOK /\ LogInOrder

LEMMA AofInvInit == AofInit => AofInv
BY EmptySeq DEF AofInit, AofInv, AofTypeOK, LogInOrder

\* Appending a command, whatever part of the buffer is written.
LEMMA AppendKeepsInv ==
  ASSUME AofInv, NEW c \in Commands, appendCommand(c)
  PROVE  AofInv'
<1>1. CASE ~Appends(c) /\ UNCHANGED aofVars
  BY <1>1 DEF AofInv, AofTypeOK, LogInOrder, aofVars
<1>2. CASE Appends(c) /\ ~(UNCHANGED aofVars)
  <2> DEFINE text == Serialize(c)
             pending == writeBuffer \o text
  <2>1. text \in Seq(Symbols)
    BY AofAssumption
  <2>2. /\ file \in Seq(Symbols) /\ writeBuffer \in Seq(Symbols)
        /\ boot \in Seq(Symbols) /\ logged \in Seq(Symbols)
    BY DEF AofInv, AofTypeOK
  <2>3. PICK n \in 0..Len(pending) : flushBuffer(pending, n)
    BY <1>2 DEF appendCommand, Appends
  <2>4. /\ fd = "open" /\ logged' = logged \o text /\ UNCHANGED <<fd, boot>>
    BY <1>2 DEF appendCommand, Appends
  <2>5. pending \in Seq(Symbols) /\ logged' \in Seq(Symbols)
    BY <2>1, <2>2, <2>4, ConcatProperties
  <2>6. file' = file \o SubSeq(pending, 1, n) /\ writeBuffer' = SubSeq(pending, n + 1, Len(pending))
    BY <2>3 DEF flushBuffer
  <2> HIDE DEF text, pending
  <2>7. /\ file' \in Seq(Symbols) /\ writeBuffer' \in Seq(Symbols)
        /\ file' \o writeBuffer' = file \o pending
    BY <2>2, <2>5, <2>6, ShortWriteKeepsOrder
  <2>8. file \o pending = boot \o logged'
    <3>0. \A s, t, u \in Seq(Symbols) : (s \o t) \o u = s \o (t \o u)
      <4> TAKE s, t, u \in Seq(Symbols)
      <4> QED
        BY ConcatAssociative, SMTT(60)
    <3>1. (file \o writeBuffer) \o text = file \o (writeBuffer \o text)
      BY <2>1, <2>2, <3>0, Zenon
    <3>2. (boot \o logged) \o text = boot \o (logged \o text)
      BY <2>1, <2>2, <3>0, Zenon
    <3> QED
      BY <2>4, <3>1, <3>2 DEF AofInv, LogInOrder, pending
  <2> QED
    BY <2>2, <2>4, <2>5, <2>7, <2>8 DEF AofInv, AofTypeOK, LogInOrder
<1> QED
  BY <1>1, <1>2 DEF AofInv, AofTypeOK, LogInOrder, aofVars, appendCommand

\* Nor does the last write of a process that ends.
LEMMA StopKeepsInv == ASSUME AofInv, stop PROVE AofInv'
<1>1. PICK n \in 0..Len(writeBuffer) : file' = file \o SubSeq(writeBuffer, 1, n)
  BY DEF stop
<1>2. file' \in Seq(Symbols)
  BY <1>1, ShortWriteKeepsOrder DEF AofInv, AofTypeOK
<1>3. writeBuffer' = <<>> /\ logged' = <<>> /\ boot' = file' /\ fd' = "closed"
  BY DEF stop
<1> QED
  BY <1>2, <1>3, EmptySeq DEF AofInv, AofTypeOK, LogInOrder

LEMMA AofInvStep == AofInv /\ [AofNext]_aofVars => AofInv'
<1> SUFFICES ASSUME AofInv, [AofNext]_aofVars PROVE AofInv'
  OBVIOUS
<1>1. ASSUME NEW c \in Commands, appendCommand(c) PROVE AofInv'
  BY <1>1, AppendKeepsInv
<1>2. CASE start
  <2>1. writeBuffer = <<>> /\ logged = <<>> /\ file \in Seq(Symbols)
    BY <1>2 DEF start, AofInv, AofTypeOK
  <2> QED
    BY <1>2, <2>1, ConcatEmptySeq, EmptySeq DEF start, AofInv, AofTypeOK, LogInOrder
<1>3. CASE fd = "open" /\ Die
  BY <1>3, ConcatEmptySeq, EmptySeq DEF Die, AofInv, AofTypeOK, LogInOrder
<1>4. CASE UNCHANGED aofVars
  BY <1>4 DEF aofVars, AofInv, AofTypeOK, LogInOrder
<1>5. CASE stop
  BY <1>5, StopKeepsInv
<1> QED
  BY <1>1, <1>2, <1>3, <1>4, <1>5 DEF AofNext

\* While a process lives, file and buffer hold exactly what was in the file
\* at its start and what it appended since, in that order.
THEOREM AofCorrect == AofSpec => []AofTypeOK /\ []LogInOrder
<1>1. AofInv => AofTypeOK /\ LogInOrder
  BY DEF AofInv
<1> QED
  BY <1>1, AofInvInit, AofInvStep, PTL DEF AofSpec

\* The file only grows at its end: no step, crash and restart included,
\* takes back a symbol that was written.
THEOREM AofAppendOnly == AofSpec => FileOnlyGrows
<1> DEFINE Grows == Len(file') >= Len(file) /\ SubSeq(file', 1, Len(file)) = file
<1>1. ASSUME AofInv, AofNext PROVE Grows
  <2>0. file \in Seq(Symbols) /\ Len(file) \in Nat /\ writeBuffer \in Seq(Symbols)
    BY <1>1, LenProperties DEF AofInv, AofTypeOK
  <2>1. CASE file' = file
    BY <2>0, <2>1, SubSeqFull
  <2>2. CASE \E t \in Seq(Symbols) : file' = file \o t
    <3>1. PICK t \in Seq(Symbols) : file' = file \o t
      BY <2>2
    <3>2. Len(file') = Len(file) + Len(t) /\ Len(t) \in Nat
      BY <2>0, <3>1, ConcatProperties, LenProperties
    <3>3. SubSeq(file', 1, Len(file)) = file
      <4>1. CASE Len(file) = 0
        BY <2>0, <4>1, SubSeqEmpty, EmptySeq
      <4>2. CASE Len(file) # 0
        BY <2>0, <3>1, <4>2, SubSeqOfConcat1, SubSeqFull
      <4> QED BY <4>1, <4>2
    <3> QED BY <2>0, <3>2, <3>3
  <2>3. ASSUME NEW c \in Commands, appendCommand(c), file' # file
        PROVE  \E t \in Seq(Symbols) : file' = file \o t
    <3> DEFINE pending == writeBuffer \o Serialize(c)
    <3>1. PICK n \in 0..Len(pending) : file' = file \o SubSeq(pending, 1, n)
      BY <2>3 DEF appendCommand, flushBuffer, aofVars
    <3>2. pending \in Seq(Symbols)
      BY <2>0, AofAssumption, ConcatProperties
    <3> HIDE DEF pending
    <3>3. SubSeq(pending, 1, n) \in Seq(Symbols)
      BY <3>2, LenProperties, ElementOfSeq, SubSeqProperties
    <3> QED BY <3>1, <3>3
  <2>4. CASE start \/ Die
    BY <2>1, <2>4 DEF start, Die
  <2>5. CASE stop
    <3>1. PICK n \in 0..Len(writeBuffer) : file' = file \o SubSeq(writeBuffer, 1, n)
      BY <2>5 DEF stop
    <3>2. SubSeq(writeBuffer, 1, n) \in Seq(Symbols)
      BY <2>0, LenProperties, ElementOfSeq, SubSeqProperties
    <3> QED BY <2>2, <3>1, <3>2
  <2> QED
    BY <1>1, <2>1, <2>2, <2>3, <2>4, <2>5 DEF AofNext
<1>2. AofInv /\ [AofNext]_aofVars => [Grows]_aofVars
  BY <1>1
<1> QED
  BY <1>2, AofInvInit, AofInvStep, PTL DEF AofSpec, FileOnlyGrows
=============================================================================
