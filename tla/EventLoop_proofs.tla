--------------------------- MODULE EventLoop_proofs ---------------------------
(***************************************************************************)
(* Proofs about the event loop, for any limit on open files and any number *)
(* of connections.                                                         *)
(*                                                                         *)
(* The two invariants the runs check hold together: that the batch is      *)
(* served once needs the descriptors in pagers to be different, and they   *)
(* are because accept returns one that no element of pagers has, which is  *)
(* what ConnectionsAgree says.                                             *)
(***************************************************************************)
EXTENDS EventLoop, SequenceTheorems, WellFoundedInduction, TLAPS

Pager   == [fd : Fds \cup {server_fd, Bad}, ready : BOOLEAN]
Sockets == [peer : {"none", "open", "closed", "reset"}, inbox : Nat, unread : Nat,
            spoken : BOOLEAN]

LoopTyped ==
  /\ pagers \in Seq(Pager) /\ i \in 0..Len(pagers)
  /\ serving \in [fd : Fds, naps : Nat] \cup {Nobody}
  /\ sock \in [Fds -> Sockets] /\ backlog \in Int

\* A failed accept is never ready, a socket that is in use has a peer, and a
\* request is served where the loop stands.
InUse ==
  /\ \A j \in DOMAIN pagers : pagers[j].ready => pagers[j].fd # Bad
  /\ \A f \in Fds : sock[f] # Free => sock[f].peer # "none"
  /\ serving # Nobody => i > 0 /\ pagers[i].ready /\ pagers[i].fd = serving.fd

LoopInv == LoopTyped /\ InUse /\ BatchServesReadyOnce /\ ConnectionsAgree

-----------------------------------------------------------------------------
(* The operators of the loop *)

LEMMA LeastElement ==
  ASSUME NEW T \in SUBSET Nat, T # {}
  PROVE  Min(T) \in T
<1>1. PICK n \in T : \A m \in T : ~(<<m, n>> \in OpToRel(<, Nat))
  BY NatLessThanWellFounded, WFMin, Zenon
<1>2. \A m \in T : ~(m < n)
  BY <1>1 DEF OpToRel
<1>3. \A m \in T : n =< m
  BY <1>2
<1> QED
  BY <1>3, Zenon DEF Min

\* Erasing an element moves those behind it one place forward.
LEMMA RemoveAtProperties ==
  ASSUME NEW S, NEW s \in Seq(S), NEW n \in 1..Len(s)
  PROVE  /\ RemoveAt(s, n) \in Seq(S) /\ Len(RemoveAt(s, n)) = Len(s) - 1
         /\ \A j \in 1..Len(s) - 1 : RemoveAt(s, n)[j] = IF j < n THEN s[j] ELSE s[j + 1]
<1> DEFINE front == SubSeq(s, 1, n - 1)
           rest  == SubSeq(s, n + 1, Len(s))
<1>1. Len(s) \in Nat /\ n \in Nat /\ \A j \in 1..Len(s) : s[j] \in S
  BY ElementOfSeq, LenProperties
<1>2. /\ front \in Seq(S) /\ Len(front) = n - 1
      /\ \A j \in 1..n - 1 : front[j] = s[j]
  BY <1>1, SubSeqProperties
<1>3. /\ rest \in Seq(S) /\ Len(rest) = Len(s) - n
      /\ \A j \in 1..Len(s) - n : rest[j] = s[n + j]
  BY <1>1, SubSeqProperties
<1> HIDE DEF front, rest
<1>4. /\ front \o rest \in Seq(S) /\ Len(front \o rest) = Len(s) - 1
      /\ \A j \in 1..Len(s) - 1 :
           (front \o rest)[j] = IF j <= n - 1 THEN front[j] ELSE rest[j - (n - 1)]
  BY <1>1, <1>2, <1>3, ConcatProperties
<1>5. ASSUME NEW j \in 1..Len(s) - 1
      PROVE  (front \o rest)[j] = IF j < n THEN s[j] ELSE s[j + 1]
  <2>1. CASE j < n
    BY <1>1, <1>2, <1>4, <2>1
  <2>2. CASE ~(j < n)
    <3>1. j - (n - 1) \in 1..Len(s) - n /\ n + (j - (n - 1)) = j + 1 /\ ~(j <= n - 1)
      BY <1>1, <2>2
    <3>2. rest[j - (n - 1)] = s[n + (j - (n - 1))] /\ (front \o rest)[j] = rest[j - (n - 1)]
      BY <1>3, <1>4, <3>1
    <3> QED BY <2>2, <3>1, <3>2
  <2> QED BY <2>1, <2>2
<1> QED
  BY <1>4, <1>5 DEF RemoveAt, front, rest

\* accept returns a descriptor nobody has.
LEMMA AcceptedIsFree == FreeFds # {} => Min(FreeFds) \in Fds /\ sock[Min(FreeFds)] = Free
<1> SUFFICES ASSUME FreeFds # {} PROVE Min(FreeFds) \in FreeFds
  BY DEF FreeFds
<1>1. FreeFds \in SUBSET Nat
  BY EventLoopAssumption DEF FreeFds, Fds
<1> QED
  BY <1>1, LeastElement

\* What the invariant says of an element the loop may stand at.
LEMMA PagerFacts ==
  ASSUME LoopInv, NEW j \in DOMAIN pagers
  PROVE  /\ Len(pagers) \in Nat /\ DOMAIN pagers = 1..Len(pagers)
         /\ pagers[j] \in Pager /\ i \in Nat
         /\ pagers[j].fd \in Fds => sock[pagers[j].fd] # Free /\ pagers[j].fd \in DOMAIN clients
<1>1. pagers \in Seq(Pager) /\ Len(pagers) \in Nat /\ DOMAIN pagers = 1..Len(pagers) /\ i \in Nat
  BY LenProperties DEF LoopInv, LoopTyped
<1>2. pagers[j] \in Pager
  BY <1>1, ElementOfSeq
<1>3. ASSUME pagers[j].fd \in Fds
      PROVE  sock[pagers[j].fd] # Free /\ pagers[j].fd \in DOMAIN clients
  <2>1. pagers[j].fd \notin {server_fd, Bad}
    BY <1>3, EventLoopAssumption DEF Fds, server_fd, Bad
  <2>2. pagers[j].fd \in Taken
    BY <2>1 DEF LoopInv, ConnectionsAgree
  <2> QED BY <2>2 DEF LoopInv, ConnectionsAgree, Taken, FreeFds
<1> QED
  BY <1>1, <1>2, <1>3

LEMMA FdsAreNumbers ==
  Fds \in SUBSET (Nat \ {0}) /\ server_fd \notin Fds /\ Bad \notin Fds /\ server_fd # Bad
  /\ Nobody \notin [fd : Fds, naps : Nat]
BY EventLoopAssumption DEF Fds, server_fd, Bad, Nobody

LEMMA LoopInvInit == LoopInit => LoopInv
<1> SUFFICES ASSUME LoopInit PROVE LoopInv
  OBVIOUS
<1>1. /\ pagers \in Seq(Pager) /\ Len(pagers) = 1 /\ DOMAIN pagers = {1}
      /\ pagers[1].fd = server_fd /\ ~pagers[1].ready
  BY DEF LoopInit, Pager
<1>2. \A f \in Fds : sock[f] = Free
  BY DEF LoopInit
<1>3. Free \in Sockets
  BY DEF Free, Sockets
<1>4. LoopTyped
  BY <1>1, <1>3 DEF LoopInit, LoopTyped
<1>5. InUse
  BY <1>1, <1>2 DEF LoopInit, InUse
<1>6. BatchServesReadyOnce
  BY <1>1 DEF LoopInit, BatchServesReadyOnce
<1>7. Taken = {} /\ DOMAIN clients = {}
  BY <1>2 DEF LoopInit, Taken, FreeFds
<1>8. ConnectionsAgree
  BY <1>1, <1>7 DEF ConnectionsAgree
<1> QED
  BY <1>4, <1>5, <1>6, <1>8 DEF LoopInv

-----------------------------------------------------------------------------
(* The steps *)

\* Steps that change no connection and no element of pagers.
LEMMA SameConnections ==
  ASSUME LoopInv, UNCHANGED <<pagers, clients>>, Taken' = Taken,
         \A f \in Taken : sock'[f].spoken = sock[f].spoken
  PROVE  ConnectionsAgree'
BY DEF LoopInv, ConnectionsAgree

LEMMA PollKeepsInv == ASSUME LoopInv, poll PROVE LoopInv'
<1>0. /\ Len(pagers) \in Nat /\ DOMAIN pagers = 1..Len(pagers) /\ pagers \in Seq(Pager)
      /\ \A j \in DOMAIN pagers : pagers[j] \in Pager
  BY LenProperties, ElementOfSeq DEF LoopInv, LoopTyped
<1>1. /\ i = 0 /\ alive /\ i' = Len(pagers) /\ serving' = serving /\ sock' = sock
      /\ clients' = clients /\ alive' = alive
      /\ due' = {f \in Fds : Readable(f) /\ \E j \in DOMAIN pagers : pagers[j].fd = f}
      /\ pagers' = [j \in DOMAIN pagers |-> [pagers[j] EXCEPT !.ready = Readable(pagers[j].fd)]]
  BY DEF poll
<1>2. serving = Nobody
  BY <1>1 DEF LoopInv, InUse
<1>3. ASSUME NEW f \in Fds \cup {server_fd, Bad} PROVE Readable(f) \in BOOLEAN
  <2>1. CASE f = server_fd
    <3>1. (backlog > 0) \in BOOLEAN
      OBVIOUS
    <3> QED BY <2>1, <3>1 DEF Readable
  <2>2. CASE f \in Fds
    BY <2>2, FdsAreNumbers DEF Readable, LoopInv, LoopTyped, Sockets
  <2>3. CASE f = Bad
    BY <2>3, FdsAreNumbers DEF Readable
  <2> QED BY <2>1, <2>2, <2>3
<1>4. Readable(Bad) = FALSE
  BY FdsAreNumbers DEF Readable
<1>5. ASSUME NEW j \in 1..Len(pagers)
      PROVE  /\ pagers'[j] \in Pager /\ pagers'[j].fd = pagers[j].fd
             /\ pagers'[j].ready = Readable(pagers[j].fd)
  <2>1. pagers[j] \in Pager /\ pagers[j].fd \in Fds \cup {server_fd, Bad}
    BY <1>0 DEF Pager
  <2>2. pagers'[j] = [pagers[j] EXCEPT !.ready = Readable(pagers[j].fd)]
    BY <1>0, <1>1
  <2>3. Readable(pagers[j].fd) \in BOOLEAN
    BY <1>3, <2>1
  <2> QED BY <2>1, <2>2, <2>3 DEF Pager
<1>6. /\ pagers' \in Seq(Pager) /\ Len(pagers') = Len(pagers) /\ DOMAIN pagers' = 1..Len(pagers)
      /\ DOMAIN pagers = 1..Len(pagers)
  <2>1. pagers' \in [1..Len(pagers) -> Pager]
    BY <1>0, <1>1, <1>5
  <2> QED BY <1>0, <2>1
<1>7. LoopTyped'
  <2>1. backlog' = backlog
    BY DEF poll
  <2> QED BY <1>0, <1>1, <1>6, <2>1 DEF LoopInv, LoopTyped
<1>8. InUse'
  BY <1>1, <1>2, <1>4, <1>5, <1>6 DEF LoopInv, InUse
<1>9. BatchServesReadyOnce'
  <2>1. due' = {pagers'[j].fd : j \in {n \in 1..Len(pagers) : pagers'[n].ready}}
               \ {server_fd, Bad}
    <3>1. ASSUME NEW f \in due'
          PROVE  f \notin {server_fd, Bad} /\ \E j \in 1..Len(pagers) : pagers'[j].ready /\ pagers'[j].fd = f
      BY <1>0, <1>1, <1>5, FdsAreNumbers
    <3>2. ASSUME NEW j \in 1..Len(pagers), pagers'[j].ready, pagers'[j].fd \notin {server_fd, Bad}
          PROVE  pagers'[j].fd \in due'
      BY <1>0, <1>1, <1>5, <3>2 DEF Pager
    <3> QED BY <3>1, <3>2
  <2>2. \A j, m \in DOMAIN pagers' : pagers'[j].fd = pagers'[m].fd => j = m \/ pagers'[j].fd = Bad
    BY <1>5, <1>6 DEF LoopInv, BatchServesReadyOnce
  <2> QED BY <1>1, <1>2, <2>1, <2>2 DEF BatchServesReadyOnce, Nobody
<1>10. ConnectionsAgree'
  <2>1. {pagers'[j].fd : j \in DOMAIN pagers'} = {pagers[j].fd : j \in DOMAIN pagers}
    BY <1>5, <1>6
  <2> QED BY <1>1, <2>1 DEF LoopInv, ConnectionsAgree, Taken, FreeFds
<1> QED
  BY <1>7, <1>8, <1>9, <1>10 DEF LoopInv

LEMMA SkipKeepsInv == ASSUME LoopInv, Skip PROVE LoopInv'
<1>1. /\ ~pagers[i].ready /\ i > 0 /\ i' = i - 1 /\ serving = Nobody
      /\ UNCHANGED <<pagers, serving, clients, sock, backlog, alive, due>>
  BY DEF Skip, At
<1>2. i \in Nat /\ i <= Len(pagers) /\ Len(pagers) \in Nat
  BY LenProperties DEF LoopInv, LoopTyped
<1>3. LoopTyped' /\ InUse' /\ ConnectionsAgree'
  BY <1>1, <1>2 DEF LoopInv, LoopTyped, InUse, ConnectionsAgree, Taken, FreeFds
<1>4. {n \in 1..i - 1 : pagers[n].ready} = {n \in 1..i : pagers[n].ready}
  BY <1>1, <1>2
<1>5. BatchServesReadyOnce'
  BY <1>1, <1>4 DEF LoopInv, BatchServesReadyOnce
<1> QED
  BY <1>3, <1>5 DEF LoopInv

LEMMA NapKeepsInv == ASSUME LoopInv, Nap PROVE LoopInv'
<1>1. /\ serving' = [serving EXCEPT !.naps = @ - 1] /\ serving.naps > 0
      /\ UNCHANGED <<pagers, i, clients, sock, backlog, alive, due>>
  BY DEF Nap
<1>2. serving \in [fd : Fds, naps : Nat] /\ serving # Nobody
  BY <1>1 DEF LoopInv, LoopTyped, Nobody
<1>3. serving' \in [fd : Fds, naps : Nat] /\ serving'.fd = serving.fd
  BY <1>1, <1>2
<1>4. LoopTyped' /\ InUse'
  BY <1>1, <1>2, <1>3 DEF LoopInv, LoopTyped, InUse
<1>5. BatchServesReadyOnce' /\ ConnectionsAgree'
  BY <1>1, <1>3 DEF LoopInv, BatchServesReadyOnce, ConnectionsAgree, Taken, FreeFds
<1> QED
  BY <1>4, <1>5 DEF LoopInv

LEMMA ReceiveKeepsInv == ASSUME LoopInv, Receive PROVE LoopInv'
<1> DEFINE fd == pagers[i].fd
<1>0. /\ i > 0 /\ serving = Nobody /\ pagers[i].ready /\ fd # server_fd /\ alive
      /\ i \in DOMAIN pagers
  BY LenProperties DEF Receive, ReadyClient, At, LoopInv, LoopTyped
<1>1. fd \in Fds /\ sock[fd] # Free /\ fd \in DOMAIN clients
  BY <1>0, PagerFacts DEF LoopInv, InUse, Pager
<1>2. /\ sock' = [sock EXCEPT ![fd].inbox = @ - 1, ![fd].spoken = TRUE] /\ sock[fd].inbox > 0
      /\ clients' = [clients EXCEPT ![fd] = "used"] /\ due' = due \ {fd}
      /\ UNCHANGED <<pagers, i, backlog, alive>>
      /\ \E n \in 0..MaxNaps : serving' = [fd |-> fd, naps |-> n]
  BY DEF Receive
<1>3. sock[fd] \in Sockets /\ sock \in [Fds -> Sockets] /\ sock[fd].peer # "none"
  BY <1>1 DEF LoopInv, LoopTyped, InUse
<1> HIDE DEF fd
<1>4. /\ sock' \in [Fds -> Sockets] /\ \A f \in Fds : f # fd => sock'[f] = sock[f]
      /\ sock'[fd].peer = sock[fd].peer /\ sock'[fd].spoken = TRUE
  <2> DEFINE a == [sock[fd] EXCEPT !.inbox = @ - 1]
             r == [a EXCEPT !.spoken = TRUE]
             s == [sock EXCEPT ![fd] = a]
  <2>0. a \in Sockets /\ a.peer = sock[fd].peer
    BY <1>2, <1>3 DEF Sockets
  <2> HIDE DEF a
  <2>1. r \in Sockets /\ r.peer = sock[fd].peer /\ r.spoken = TRUE
    BY <2>0 DEF Sockets
  <2>2. sock' = [sock EXCEPT ![fd] = r]
    <3>1. s[fd] = a /\ sock' = [s EXCEPT ![fd] = [s[fd] EXCEPT !.spoken = TRUE]]
      BY <1>1, <1>2, <1>3 DEF a
    <3> HIDE DEF r
    <3>2. sock' = [s EXCEPT ![fd] = r]
      BY <3>1 DEF r
    <3> QED BY <1>1, <1>3, <3>2
  <2> HIDE DEF r
  <2> QED BY <1>1, <1>3, <2>1, <2>2
<1>5. sock'[fd] # Free
  BY <1>3, <1>4 DEF Free
<1>6. Taken' = Taken
  BY <1>1, <1>4, <1>5 DEF Taken, FreeFds
<1>7. serving' \in [fd : Fds, naps : Nat] /\ serving'.fd = fd
  BY <1>1, <1>2, EventLoopAssumption
<1>8. LoopTyped'
  BY <1>2, <1>4, <1>7 DEF LoopInv, LoopTyped
<1>9. InUse'
  BY <1>0, <1>2, <1>3, <1>4, <1>7 DEF LoopInv, InUse, fd
<1>10. BatchServesReadyOnce'
  <2> DEFINE P == {pagers[j].fd : j \in {n \in 1..i : pagers[n].ready}}
  <2>1. due = P \ {server_fd, Bad}
    BY <1>0 DEF LoopInv, BatchServesReadyOnce, Nobody
  <2>2. Bad \notin P
    BY <1>0, PagerFacts DEF LoopInv, InUse, LoopTyped
  <2> HIDE DEF P
  <2>3. due' = P \ {server_fd, fd}
    BY <1>2, <2>1, <2>2
  <2> QED BY <1>2, <1>7, <2>3 DEF LoopInv, BatchServesReadyOnce, P
<1>11. ConnectionsAgree'
  <2>1. DOMAIN clients' = DOMAIN clients /\ \A f \in DOMAIN clients : f # fd => clients'[f] = clients[f]
    BY <1>2
  <2> QED BY <1>2, <1>4, <1>6, <2>1 DEF LoopInv, ConnectionsAgree, Taken
<1> QED
  BY <1>8, <1>9, <1>10, <1>11 DEF LoopInv

\* The positions in front of the index, one less.
LEMMA BatchWithout ==
  ASSUME LoopInv, i > 0
  PROVE  {pagers[j].fd : j \in {n \in 1..i - 1 : pagers[n].ready}} \ {server_fd, Bad}
           = {pagers[j].fd : j \in {n \in 1..i : pagers[n].ready}}
             \ {server_fd, Bad, pagers[i].fd}
<1>1. /\ i \in 1..Len(pagers) /\ Len(pagers) \in Nat /\ DOMAIN pagers = 1..Len(pagers)
      /\ i \in Nat
  BY LenProperties DEF LoopInv, LoopTyped
<1>2. ASSUME NEW j \in 1..i - 1, pagers[j].fd = pagers[i].fd PROVE pagers[j].fd = Bad
  <2>1. j \in DOMAIN pagers /\ i \in DOMAIN pagers /\ j # i
    BY <1>1
  <2> QED BY <1>2, <2>1 DEF LoopInv, BatchServesReadyOnce
<1>3. 1..i = (1..i - 1) \cup {i}
  BY <1>1
<1> QED
  BY <1>2, <1>3

LEMMA SendKeepsInv == ASSUME LoopInv, Send PROVE LoopInv'
<1> DEFINE fd == serving.fd
           s == sock[fd]
           new == AfterSend(s)
<1>0. /\ serving # Nobody /\ serving' = Nobody /\ i' = i - 1
      /\ UNCHANGED <<pagers, clients, backlog, due>> /\ alive
  BY DEF Send, Sends
<1>00. sock' = [sock EXCEPT ![fd] = new]
  BY DEF Send, Sends
<1>1. /\ i > 0 /\ pagers[i].fd = fd /\ fd \in Fds /\ i \in DOMAIN pagers
      /\ i \in Nat /\ i <= Len(pagers) /\ Len(pagers) \in Nat
  BY <1>0, LenProperties DEF LoopInv, LoopTyped, InUse
<1>2. s \in Sockets /\ s # Free /\ s.peer # "none" /\ sock \in [Fds -> Sockets]
  BY <1>1, PagerFacts DEF LoopInv, LoopTyped, InUse
<1>3. new \in Sockets /\ new.peer # "none" /\ new.spoken = s.spoken
  <2>1. CASE s.peer = "open"
    BY <1>2, <2>1 DEF Sockets, AfterSend
  <2>2. CASE s.peer = "closed"
    BY <1>2, <2>2 DEF Sockets, AfterSend
  <2>3. CASE s.peer \notin {"open", "closed"}
    BY <1>2, <2>3 DEF Sockets, AfterSend
  <2> QED BY <2>1, <2>2, <2>3
<1>4. new # Free
  BY <1>3 DEF Free
<1> HIDE DEF new, s, fd
<1>5. /\ sock' \in [Fds -> Sockets] /\ sock'[fd] = new
      /\ \A f \in Fds : f # fd => sock'[f] = sock[f]
  BY <1>00, <1>1, <1>2, <1>3
<1>6. Taken' = Taken
  BY <1>1, <1>2, <1>4, <1>5 DEF Taken, FreeFds, s
<1>7. LoopTyped'
  BY <1>0, <1>1, <1>5 DEF LoopInv, LoopTyped
<1>8. InUse'
  BY <1>0, <1>2, <1>3, <1>5 DEF LoopInv, InUse
<1>9. BatchServesReadyOnce'
  <2> DEFINE P(n) == {pagers[j].fd : j \in {m \in 1..n : pagers[m].ready}}
  <2>1. due = P(i) \ {server_fd, fd}
    BY <1>0 DEF LoopInv, BatchServesReadyOnce, fd
  <2>2. P(i - 1) \ {server_fd, Bad} = P(i) \ {server_fd, Bad, fd}
    BY <1>1, BatchWithout
  <2>3. Bad \notin P(i)
    BY <1>1, PagerFacts DEF LoopInv, InUse, LoopTyped
  <2> HIDE DEF P
  <2>4. due = P(i - 1) \ {server_fd, Bad}
    BY <2>1, <2>2, <2>3
  <2> QED BY <1>0, <2>4 DEF LoopInv, BatchServesReadyOnce, Nobody, P
<1>10. ConnectionsAgree'
  BY <1>0, <1>3, <1>5, <1>6, SameConnections DEF s, Taken
<1> QED
  BY <1>7, <1>8, <1>9, <1>10 DEF LoopInv

LEMMA ClientKeepsInv ==
  ASSUME LoopInv, ClientStep \/ \E f \in Fds : ClientReads(f)
  PROVE  LoopInv'
<1>1. /\ UNCHANGED <<pagers, i, serving, clients, alive, due>> /\ backlog' \in Int
      /\ \/ UNCHANGED sock
         \/ \E f \in Fds, t \in Sockets :
              /\ sock[f].peer # "none" /\ t.peer # "none" /\ t.spoken = sock[f].spoken
              /\ sock' = [sock EXCEPT ![f] = t]
  <2>1. ASSUME NEW f \in Taken, sock[f].peer = "open",
               \/ sock' = [sock EXCEPT ![f].inbox = @ + 1]
               \/ sock' = [sock EXCEPT ![f].peer = "closed", ![f].unread = 0]
        PROVE  \E t \in Sockets :
                 /\ sock[f].peer # "none" /\ t.peer # "none" /\ t.spoken = sock[f].spoken
                 /\ sock' = [sock EXCEPT ![f] = t]
    <3>1. f \in Fds /\ sock \in [Fds -> Sockets] /\ sock[f] \in Sockets
      BY <2>1 DEF Taken, LoopInv, LoopTyped
    <3>2. CASE sock' = [sock EXCEPT ![f].inbox = @ + 1]
      <4> DEFINE t == [sock[f] EXCEPT !.inbox = @ + 1]
      <4>1. t \in Sockets /\ t.peer = sock[f].peer /\ t.spoken = sock[f].spoken
        BY <3>1 DEF Sockets
      <4>2. sock' = [sock EXCEPT ![f] = t]
        BY <3>1, <3>2
      <4> HIDE DEF t
      <4> QED BY <2>1, <4>1, <4>2
    <3>3. CASE sock' = [sock EXCEPT ![f].peer = "closed", ![f].unread = 0]
      <4> DEFINE a == [sock[f] EXCEPT !.peer = "closed"]
                 t == [a EXCEPT !.unread = 0]
                 s == [sock EXCEPT ![f] = a]
      <4>1. a \in Sockets /\ a.peer = "closed" /\ a.spoken = sock[f].spoken
        BY <3>1 DEF Sockets
      <4> HIDE DEF a
      <4>2. t \in Sockets /\ t.peer = "closed" /\ t.spoken = sock[f].spoken
        BY <4>1 DEF Sockets
      <4>3. s[f] = a /\ sock' = [s EXCEPT ![f] = [s[f] EXCEPT !.unread = 0]]
        BY <3>1, <3>3 DEF a
      <4> HIDE DEF t
      <4>4. sock' = [s EXCEPT ![f] = t]
        BY <4>3 DEF t
      <4>5. sock' = [sock EXCEPT ![f] = t]
        BY <3>1, <4>4
      <4> QED BY <2>1, <4>2, <4>5
    <3> QED BY <2>1, <3>2, <3>3
  <2>2. ASSUME NEW f \in Fds, ClientReads(f)
        PROVE  \E t \in Sockets :
                 /\ sock[f].peer # "none" /\ t.peer # "none" /\ t.spoken = sock[f].spoken
                 /\ sock' = [sock EXCEPT ![f] = t]
    <3> DEFINE t == [sock[f] EXCEPT !.unread = 0]
    <3>1. sock[f] \in Sockets /\ sock[f].peer # "none"
      BY <2>2 DEF ClientReads, Free, LoopInv, LoopTyped, InUse
    <3>2. t \in Sockets /\ t.peer = sock[f].peer /\ t.spoken = sock[f].spoken
      BY <3>1 DEF Sockets
    <3>3. sock' = [sock EXCEPT ![f] = t]
      BY <2>2 DEF ClientReads, LoopInv, LoopTyped
    <3> HIDE DEF t
    <3> QED BY <3>1, <3>2, <3>3
  <2>3. UNCHANGED <<pagers, i, serving, clients, alive, due>>
    BY DEF ClientStep, ClientReads
  <2>4. CASE ClientStep
    <3>0. backlog \in Int /\ (backlog' = backlog + 1 \/ backlog' = backlog)
      BY <2>4 DEF ClientStep, LoopInv, LoopTyped
    <3>1. backlog' \in Int
      BY <3>0
    <3>2. UNCHANGED sock \/ \E f \in Taken : /\ sock[f].peer = "open"
                                           /\ \/ sock' = [sock EXCEPT ![f].inbox = @ + 1]
                                              \/ sock' = [sock EXCEPT ![f].peer = "closed",
                                                                     ![f].unread = 0]
      BY <2>4 DEF ClientStep
    <3> QED BY <2>1, <2>3, <3>1, <3>2 DEF Taken
  <2>5. CASE \E f \in Fds : ClientReads(f)
    <3>0. backlog \in Int /\ backlog' = backlog
      BY <2>5, Zenon DEF ClientReads, LoopInv, LoopTyped
    <3>1. backlog' \in Int
      BY <3>0
    <3> QED BY <2>2, <2>3, <2>5, <3>1
  <2> QED BY <2>4, <2>5
<1>2. /\ sock' \in [Fds -> Sockets]
      /\ \A f \in Fds : /\ sock'[f].spoken = sock[f].spoken
                        /\ sock'[f] = sock[f] \/ (sock[f].peer # "none" /\ sock'[f].peer # "none")
  BY <1>1 DEF LoopInv, LoopTyped
<1>3. Taken' = Taken
  BY <1>2 DEF Taken, FreeFds, Free
<1>4. LoopTyped' /\ BatchServesReadyOnce'
  BY <1>1, <1>2 DEF LoopInv, LoopTyped, BatchServesReadyOnce
<1>5. InUse'
  BY <1>1, <1>2 DEF LoopInv, InUse, Free
<1>6. ConnectionsAgree'
  BY <1>1, <1>2, <1>3, SameConnections DEF Taken
<1> QED
  BY <1>4, <1>5, <1>6 DEF LoopInv

\* What pushing an element, or not, leaves of a vector.
Pushed(S, s, e, t) ==
  /\ t \in Seq(S) /\ Len(t) \in {Len(s), Len(s) + 1} /\ DOMAIN t = 1..Len(t)
  /\ t = Append(s, e) => Len(t) = Len(s) + 1
  /\ \A j \in 1..Len(s) : t[j] = s[j]
  /\ \A j \in DOMAIN t : j \notin 1..Len(s) => j = Len(s) + 1 /\ t[j] = e

LEMMA PushOrNot ==
  ASSUME NEW S, NEW s \in Seq(S), NEW e \in S, NEW t, t = s \/ t = Append(s, e)
  PROVE  Pushed(S, s, e, t)
<1> USE DEF Pushed
<1>0. Len(s) \in Nat /\ DOMAIN s = 1..Len(s)
  BY LenProperties
<1>1. CASE t = s
  <2>1. s # Append(s, e)
    <3>1. Len(Append(s, e)) = Len(s) + 1
      BY AppendProperties
    <3>2. \A k \in Nat : k # k + 1
      OBVIOUS
    <3> QED BY <1>0, <3>1, <3>2, Zenon
  <2>2. t # Append(s, e)
    BY <1>1, <2>1, Zenon
  <2>3. t \in Seq(S) /\ Len(t) = Len(s) /\ DOMAIN t = 1..Len(s)
    BY <1>0, <1>1, Zenon
  <2>4. \A j \in 1..Len(s) : t[j] = s[j]
    BY <1>1, Zenon
  <2> HIDE <1>1
  <2>5. Len(t) \in {Len(s), Len(s) + 1} /\ DOMAIN t = 1..Len(t)
    BY <2>3, Zenon
  <2>6. \A j \in DOMAIN t : j \in 1..Len(s)
    BY <2>3, Zenon
  <2> QED BY <2>2, <2>3, <2>4, <2>5, <2>6, Zenon
<1>2. CASE t = Append(s, e)
  <2>1. /\ t \in Seq(S) /\ Len(t) = Len(s) + 1 /\ t[Len(s) + 1] = e
        /\ \A j \in 1..Len(s) : t[j] = s[j]
    BY <1>2, AppendProperties
  <2>2. DOMAIN t = 1..Len(s) + 1
    BY <2>1, LenProperties
  <2>3. \A j \in 1..Len(s) + 1 : j \notin 1..Len(s) => j = Len(s) + 1
    BY <1>0
  <2> QED BY <2>1, <2>2, <2>3
<1> QED
  BY <1>1, <1>2

\* accept: a new connection gets a descriptor that no element of pagers and
\* no session has, so none is met twice and no session is inherited.
LEMMA AcceptKeepsInv == ASSUME LoopInv, Accept PROVE LoopInv'
<1> DEFINE fd == IF FreeFds = {} THEN Bad ELSE Min(FreeFds)
           e == [fd |-> fd, ready |-> FALSE]
           n == Len(pagers)
<1>0. /\ i > 0 /\ serving = Nobody /\ pagers[i].fd = server_fd /\ alive
      /\ pagers' = IF fd = Bad /\ Len(pagers) >= MaxPagers THEN pagers ELSE Append(pagers, e)
      /\ clients' = [f \in DOMAIN clients \cup {fd} |-> IF f = fd THEN "fresh" ELSE clients[f]]
      /\ sock' = IF fd = Bad THEN sock ELSE [sock EXCEPT ![fd] = [Free EXCEPT !.peer = "open"]]
      /\ backlog' = IF fd = Bad THEN backlog ELSE backlog - 1
      /\ i' = i - 1
      /\ UNCHANGED <<serving, alive, due>>
  BY Zenon DEF Accept, At
<1>1. n \in Nat /\ i \in 1..n /\ DOMAIN pagers = 1..n
  BY <1>0, LenProperties DEF LoopInv, LoopTyped
<1>1a. pagers \in Seq(Pager) /\ sock \in [Fds -> Sockets] /\ backlog \in Int
  BY DEF LoopInv, LoopTyped
<1>2. fd \in Fds \cup {Bad} /\ (fd # Bad => fd \in Fds /\ sock[fd] = Free)
  BY AcceptedIsFree
<1> HIDE DEF fd
<1>3. e \in Pager /\ e.fd = fd /\ ~e.ready
  BY <1>2 DEF Pager
<1>4. /\ pagers' \in Seq(Pager) /\ Len(pagers') \in {n, n + 1} /\ DOMAIN pagers' = 1..Len(pagers')
      /\ fd # Bad => Len(pagers') = n + 1
      /\ \A j \in 1..n : pagers'[j] = pagers[j]
      /\ \A j \in DOMAIN pagers' :
           j \notin 1..n => j = n + 1 /\ pagers'[j].fd = fd /\ ~pagers'[j].ready
  <2>1. (pagers' = pagers /\ fd = Bad) \/ pagers' = Append(pagers, e)
    BY <1>0
  <2> HIDE DEF e
  <2>2. /\ pagers' \in Seq(Pager) /\ Len(pagers') \in {n, n + 1} /\ DOMAIN pagers' = 1..Len(pagers')
        /\ pagers' = Append(pagers, e) => Len(pagers') = n + 1
        /\ \A j \in 1..n : pagers'[j] = pagers[j]
        /\ \A j \in DOMAIN pagers' : j \notin 1..n => j = n + 1 /\ pagers'[j] = e
    <3> DEFINE t == pagers'
    <3>1. e \in Pager /\ pagers \in Seq(Pager)
      BY <1>1a, <1>3
    <3>2. t = pagers \/ t = Append(pagers, e)
      BY <2>1
    <3> HIDE DEF t
    <3>3. Pushed(Pager, pagers, e, t)
      BY <3>1, <3>2, PushOrNot, Zenon
    <3> QED BY <3>3, Zenon DEF Pushed, t, n
  <2> QED BY <1>3, <2>1, <2>2, Zenon
<1> HIDE DEF n, e
<1>4a. 1..n \subseteq DOMAIN pagers' /\ i - 1 \in 0..Len(pagers') /\ 1..i - 1 \subseteq 1..n
  <2> DEFINE m == Len(pagers')
  <2>1. m \in {n, n + 1} /\ DOMAIN pagers' = 1..m
    BY <1>4
  <2> HIDE DEF m
  <2>2. 1..n \subseteq 1..m /\ i - 1 \in 0..m /\ 1..i - 1 \subseteq 1..n
    BY <1>1, <2>1
  <2> QED BY <2>1, <2>2, Zenon DEF m
<1>5. /\ sock' \in [Fds -> Sockets]
      /\ \A f \in Fds : f # fd => sock'[f] = sock[f]
      /\ fd # Bad => sock'[fd] # Free /\ sock'[fd].peer = "open"
  <2> DEFINE t == [Free EXCEPT !.peer = "open"]
  <2>1. t \in Sockets /\ t # Free /\ t.peer = "open"
    BY DEF Free, Sockets
  <2>2. sock' = IF fd = Bad THEN sock ELSE [sock EXCEPT ![fd] = t]
    BY <1>0
  <2> HIDE DEF t
  <2> QED BY <1>1a, <1>2, <2>1, <2>2
<1>6. Taken' = IF fd = Bad THEN Taken ELSE Taken \cup {fd}
  BY <1>2, <1>5, FdsAreNumbers DEF Taken, FreeFds
<1>7. fd # Bad => \A j \in 1..n : pagers[j].fd # fd
  <2> SUFFICES ASSUME fd # Bad, NEW j \in 1..n, pagers[j].fd = fd PROVE FALSE
    OBVIOUS
  <2> QED BY <1>1, <1>2, PagerFacts
<1>8. LoopTyped'
  <2>1. backlog' \in Int
    BY <1>0, <1>1a
  <2>2. i' \in 0..Len(pagers')
    BY <1>0, <1>4a
  <2> QED BY <1>0, <1>4, <1>5, <2>1, <2>2 DEF LoopInv, LoopTyped
<1>9. InUse'
  <2>1. \A j \in DOMAIN pagers' : pagers'[j].ready => pagers'[j].fd # Bad
    BY <1>1, <1>4 DEF LoopInv, InUse
  <2> QED BY <1>0, <1>2, <1>5, <2>1 DEF LoopInv, InUse
<1>10. BatchServesReadyOnce'
  <2> DEFINE P(q, m) == {q[j].fd : j \in {k \in 1..m : q[k].ready}}
  <2>1. due = P(pagers, i) \ {server_fd, Bad}
    BY <1>0 DEF LoopInv, BatchServesReadyOnce, Nobody
  <2>2. P(pagers, i - 1) \ {server_fd, Bad} = P(pagers, i) \ {server_fd, Bad, pagers[i].fd}
    BY <1>0, BatchWithout
  <2>3. P(pagers', i - 1) = P(pagers, i - 1)
    <3>1. \A j \in 1..i - 1 : pagers'[j] = pagers[j]
      BY <1>4, <1>4a
    <3> QED BY <3>1
  <2> HIDE DEF P
  <2>4. due = P(pagers', i - 1) \ {server_fd, Bad}
    BY <1>0, <2>1, <2>2, <2>3
  <2>5. ASSUME NEW j \in DOMAIN pagers', NEW m \in DOMAIN pagers', pagers'[j].fd = pagers'[m].fd
        PROVE  j = m \/ pagers'[j].fd = Bad
    <3>1. CASE j \in 1..n /\ m \in 1..n
      BY <1>1, <1>4, <2>5, <3>1 DEF LoopInv, BatchServesReadyOnce
    <3>2. \A k \in DOMAIN pagers' : k \notin 1..n => k = n + 1 /\ pagers'[k].fd = fd
      BY <1>4
    <3>3. \A k \in 1..n : pagers'[k].fd = fd => fd = Bad
      BY <1>4, <1>7
    <3>4. CASE j \notin 1..n \/ m \notin 1..n
      BY <2>5, <3>2, <3>3, <3>4
    <3> QED BY <3>1, <3>4
  <2> QED BY <1>0, <2>4, <2>5 DEF BatchServesReadyOnce, Nobody, P
<1>11. ConnectionsAgree'
  <2> DEFINE F(q) == {q[j].fd : j \in DOMAIN q}
  <2>1. F(pagers') \ {server_fd, Bad} = (F(pagers) \cup {fd}) \ {server_fd, Bad}
    <3>1. ASSUME NEW f \in F(pagers'), f # fd PROVE f \in F(pagers)
      <4>1. PICK j \in DOMAIN pagers' : pagers'[j].fd = f
        OBVIOUS
      <4>2. j \in 1..n
        BY <1>4, <3>1, <4>1
      <4> QED BY <1>1, <1>4, <4>1, <4>2
    <3>2. ASSUME NEW f \in F(pagers) PROVE f \in F(pagers')
      <4>1. PICK j \in 1..n : pagers[j].fd = f
        BY <1>1
      <4>2. j \in DOMAIN pagers' /\ pagers'[j] = pagers[j]
        BY <1>4, <1>4a
      <4> QED BY <4>1, <4>2
    <3>3. ASSUME fd # Bad PROVE fd \in F(pagers')
      <4>0. n + 1 \in 1..n + 1 /\ n + 1 \notin 1..n
        BY <1>1
      <4>1. n + 1 \in DOMAIN pagers' /\ pagers'[n + 1].fd = fd
        BY <1>4, <3>3, <4>0
      <4> QED BY <4>1
    <3> HIDE DEF F
    <3> QED BY <3>1, <3>2, <3>3
  <2> HIDE DEF F
  <2>2. Taken = F(pagers) \ {server_fd, Bad} /\ Taken = DOMAIN clients \ {Bad}
    BY DEF LoopInv, ConnectionsAgree, F
  <2>3. Taken' = F(pagers') \ {server_fd, Bad}
    BY <1>2, <1>6, <2>1, <2>2, FdsAreNumbers
  <2>4. Taken' = DOMAIN clients' \ {Bad}
    BY <1>0, <1>6, <2>2
  <2>5. ASSUME NEW f \in Taken', ~sock'[f].spoken PROVE clients'[f] = "fresh"
    <3>1. CASE f = fd
      BY <1>0, <3>1
    <3>2. CASE f # fd
      <4>1. f \in Taken /\ f \in Fds /\ sock'[f] = sock[f] /\ f \in DOMAIN clients
        BY <1>5, <1>6, <2>2, <3>2 DEF Taken
      <4>2. clients[f] = "fresh"
        BY <2>5, <4>1 DEF LoopInv, ConnectionsAgree
      <4> QED BY <1>0, <3>2, <4>1, <4>2
    <3> QED BY <3>1, <3>2
  <2> QED BY <2>3, <2>4, <2>5 DEF ConnectionsAgree, F
<1> QED
  BY <1>8, <1>9, <1>10, <1>11 DEF LoopInv

\* Close: the elements behind the index move, those still to be visited do not.
LEMMA CloseKeepsInv == ASSUME LoopInv, Close PROVE LoopInv'
<1> DEFINE fd == pagers[i].fd
           n == Len(pagers)
<1>0. /\ i > 0 /\ serving = Nobody /\ pagers[i].ready /\ fd # server_fd /\ alive
      /\ sock' = [sock EXCEPT ![fd] = Free] /\ pagers' = RemoveAt(pagers, i)
      /\ clients' = [f \in DOMAIN clients \ {fd} |-> clients[f]] /\ due' = due \ {fd}
      /\ i' = i - 1 /\ UNCHANGED <<serving, backlog, alive>>
  BY DEF Close, ReadyClient, At, Erase, Forget
<1>1. /\ n \in Nat /\ i \in 1..n /\ i \in Nat /\ DOMAIN pagers = 1..n /\ pagers \in Seq(Pager)
      /\ sock \in [Fds -> Sockets] /\ backlog \in Int
  BY <1>0, LenProperties DEF LoopInv, LoopTyped
<1>2. fd \in Fds /\ sock[fd] # Free
  BY <1>0, <1>1, PagerFacts DEF LoopInv, InUse, Pager
<1>3. /\ pagers' \in Seq(Pager) /\ Len(pagers') = n - 1 /\ DOMAIN pagers' = 1..n - 1
      /\ \A j \in 1..n - 1 : pagers'[j] = IF j < i THEN pagers[j] ELSE pagers[j + 1]
  BY <1>0, <1>1, RemoveAtProperties, LenProperties
<1>4. Free \in Sockets
  BY DEF Free, Sockets
<1>5. \A j \in 1..n : pagers[j].fd = fd => j = i
  BY <1>1, <1>2, FdsAreNumbers DEF LoopInv, BatchServesReadyOnce
<1>6. \A j \in 1..n - 1 : \E m \in 1..n : m # i /\ pagers'[j] = pagers[m] /\ m = IF j < i THEN j ELSE j + 1
  BY <1>1, <1>3
<1>7. \A m \in 1..n : m # i => \E j \in 1..n - 1 : pagers'[j] = pagers[m]
  <2> SUFFICES ASSUME NEW m \in 1..n, m # i PROVE \E j \in 1..n - 1 : pagers'[j] = pagers[m]
    OBVIOUS
  <2>1. CASE m < i
    <3>1. m \in 1..n - 1 /\ pagers'[m] = pagers[m]
      BY <1>1, <1>3, <2>1
    <3> QED BY <3>1
  <2>2. CASE ~(m < i)
    <3>1. PICK j \in 1..n - 1 : j = m - 1
      BY <1>1, <2>2
    <3>2. ~(j < i) /\ j + 1 = m
      BY <1>1, <2>2, <3>1
    <3>3. pagers'[j] = pagers[m]
      BY <1>3, <3>2
    <3> QED BY <3>3
  <2> QED BY <2>1, <2>2
<1> HIDE DEF fd, n
<1>8. /\ sock' \in [Fds -> Sockets] /\ sock'[fd] = Free
      /\ \A f \in Fds : f # fd => sock'[f] = sock[f]
  BY <1>0, <1>1, <1>2, <1>4
<1>9. Taken' = Taken \ {fd}
  BY <1>2, <1>8 DEF Taken, FreeFds
<1>10. LoopTyped'
  <2>1. i' \in 0..Len(pagers')
    BY <1>0, <1>1, <1>3
  <2> QED BY <1>0, <1>3, <1>8, <2>1 DEF LoopInv, LoopTyped
<1>11. InUse'
  <2>1. \A j \in DOMAIN pagers' : pagers'[j].ready => pagers'[j].fd # Bad
    BY <1>1, <1>3, <1>6 DEF LoopInv, InUse
  <2> QED BY <1>0, <1>8, <2>1 DEF LoopInv, InUse
<1>12. BatchServesReadyOnce'
  <2> DEFINE P(q, m) == {q[j].fd : j \in {k \in 1..m : q[k].ready}}
  <2>1. due = P(pagers, i) \ {server_fd, Bad}
    BY <1>0 DEF LoopInv, BatchServesReadyOnce, Nobody
  <2>2. P(pagers, i - 1) \ {server_fd, Bad} = P(pagers, i) \ {server_fd, Bad, fd}
    BY <1>0, BatchWithout DEF fd
  <2>3. P(pagers', i - 1) = P(pagers, i - 1)
    <3>1. \A j \in 1..i - 1 : pagers'[j] = pagers[j]
      BY <1>1, <1>3
    <3> QED BY <3>1
  <2> HIDE DEF P
  <2>4. due' = P(pagers', i - 1) \ {server_fd, Bad}
    BY <1>0, <2>1, <2>2, <2>3
  <2>5. ASSUME NEW j \in DOMAIN pagers', NEW m \in DOMAIN pagers', pagers'[j].fd = pagers'[m].fd
        PROVE  j = m \/ pagers'[j].fd = Bad
    <3>1. PICK a \in 1..n : pagers'[j] = pagers[a] /\ a = IF j < i THEN j ELSE j + 1
      BY <1>3, <1>6
    <3>2. PICK b \in 1..n : pagers'[m] = pagers[b] /\ b = IF m < i THEN m ELSE m + 1
      BY <1>3, <1>6
    <3>3. a = b \/ pagers[a].fd = Bad
      BY <1>1, <2>5, <3>1, <3>2 DEF LoopInv, BatchServesReadyOnce
    <3>4. a = b => j = m
      BY <1>1, <1>3, <3>1, <3>2
    <3> QED BY <3>1, <3>3, <3>4
  <2> QED BY <1>0, <2>4, <2>5 DEF BatchServesReadyOnce, Nobody, P
<1>13. ConnectionsAgree'
  <2> DEFINE F(q) == {q[j].fd : j \in DOMAIN q}
  <2>1. F(pagers') = F(pagers) \ {fd}
    <3>1. ASSUME NEW f \in F(pagers') PROVE f \in F(pagers) /\ f # fd
      <4>1. PICK j \in 1..n - 1 : pagers'[j].fd = f
        BY <1>3
      <4>2. PICK m \in 1..n : m # i /\ pagers'[j] = pagers[m]
        BY <1>6
      <4> QED BY <1>1, <1>5, <4>1, <4>2
    <3>2. ASSUME NEW f \in F(pagers), f # fd PROVE f \in F(pagers')
      <4>1. PICK m \in 1..n : pagers[m].fd = f
        BY <1>1
      <4>2. m # i
        BY <3>2, <4>1 DEF fd
      <4>3. PICK j \in 1..n - 1 : pagers'[j] = pagers[m]
        BY <1>7, <4>2
      <4> QED BY <1>3, <4>1, <4>3
    <3> HIDE DEF F
    <3> QED BY <3>1, <3>2
  <2>2. Taken = F(pagers) \ {server_fd, Bad} /\ Taken = DOMAIN clients \ {Bad}
    BY DEF LoopInv, ConnectionsAgree
  <2> HIDE DEF F
  <2>3. Taken' = F(pagers') \ {server_fd, Bad} /\ Taken' = DOMAIN clients' \ {Bad}
    BY <1>0, <1>9, <2>1, <2>2
  <2>4. \A f \in Taken' : ~sock'[f].spoken => clients'[f] = "fresh"
    BY <1>0, <1>8, <1>9, <2>2 DEF LoopInv, ConnectionsAgree, Taken
  <2> QED BY <2>3, <2>4 DEF ConnectionsAgree, F
<1> QED
  BY <1>10, <1>11, <1>12, <1>13 DEF LoopInv

LEMMA LoopInvStep == LoopInv /\ [LoopNext]_loopVars => LoopInv'
<1> SUFFICES ASSUME LoopInv, [LoopNext]_loopVars PROVE LoopInv'
  OBVIOUS
<1>1. CASE UNCHANGED loopVars
  BY <1>1 DEF loopVars, LoopInv, LoopTyped, InUse, BatchServesReadyOnce, ConnectionsAgree,
              Taken, FreeFds
<1> QED
  BY <1>1, PollKeepsInv, SkipKeepsInv, AcceptKeepsInv, ReceiveKeepsInv, NapKeepsInv,
     SendKeepsInv, CloseKeepsInv, ClientKeepsInv DEF LoopNext, LoopStep

\* For any limit on open files and any order of requests, closes and accepts
\* within a batch: every ready client of a poll is met exactly once, although
\* the vector grows and shrinks while it is walked.
THEOREM ReadyClientsAreMetOnce == LoopSpec => []BatchServesReadyOnce
<1>1. LoopInv => BatchServesReadyOnce
  BY DEF LoopInv
<1> QED
  BY <1>1, LoopInvInit, LoopInvStep, PTL DEF LoopSpec

\* pagers, clients and the kernel tell of the same connections at any time,
\* and a connection that got the descriptor of another has a fresh session.
THEOREM DescriptorsStayApart == LoopSpec => []ConnectionsAgree
<1>1. LoopInv => ConnectionsAgree
  BY DEF LoopInv
<1> QED
  BY <1>1, LoopInvInit, LoopInvStep, PTL DEF LoopSpec
=============================================================================
