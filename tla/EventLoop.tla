------------------------------ MODULE EventLoop ------------------------------
(***************************************************************************)
(* The loop of src/src/main.cpp: poll reports which descriptors are ready, *)
(* and the loop goes through the vector pagers from its end to its front,  *)
(* accepting, receiving, answering, closing.  The vector changes while it  *)
(* is walked, descriptors are reused as soon as they are closed, and the   *)
(* handler of a request may sleep, which holds up everybody; so does send, *)
(* whose descriptor is in blocking mode, while its client does not read.   *)
(* The sockets themselves are the kernel's and the clients'.               *)
(***************************************************************************)
EXTENDS Integers, Sequences, SequencesExt, FiniteSetsExt

CONSTANTS
  MaxFd,       \* client descriptors are 1..MaxFd: the limit on open files
  MaxInbox,    \* bound on the chunks that wait in a socket
  MaxBacklog,  \* bound on the connections that wait for accept
  MaxPagers,   \* bound on the length of pagers when accept fails
  MaxUnread,   \* answers the buffers of a connection hold
  MaxNaps      \* the longest a handler sleeps

ASSUME EventLoopAssumption ==
  /\ MaxFd \in Nat /\ MaxInbox \in Nat /\ MaxBacklog \in Nat
  /\ MaxPagers \in Nat /\ MaxPagers > MaxFd /\ MaxNaps \in Nat
  /\ MaxUnread \in Nat \ {0}

VARIABLES
  pagers,   \* the vector, each element [fd, ready], ready for POLLIN in revents
  i,        \* the loop index counted from 1, 0 when poll is next
  serving,  \* Nobody, or [fd, naps] while the request of a client is handled
  clients,  \* the map from descriptors to sessions, each "fresh" or "used"
  sock,     \* per descriptor: Free, or what the kernel knows of the connection
  backlog,  \* connections waiting to be accepted
  alive,    \* the process runs
  due       \* history: reported by the last poll and not yet dealt with

loopVars == <<pagers, i, serving, clients, sock, backlog, alive, due>>

server_fd == 0
Bad       == -1  \* what accept returns when it fails
Fds       == 1..MaxFd
Free      == [peer |-> "none", inbox |-> 0, unread |-> 0, spoken |-> FALSE]
Nobody    == [fd |-> Bad, naps |-> 0]
FreeFds   == {f \in Fds : sock[f] = Free}
Taken     == Fds \ FreeFds

\* A socket is readable when it holds data or its end.
Readable(fd) ==
  CASE fd = server_fd -> backlog > 0
    [] fd \in Fds     -> sock[fd] # Free /\ (sock[fd].inbox > 0 \/ sock[fd].peer # "open")
    [] OTHER          -> FALSE

poll ==
  /\ alive /\ i = 0
  /\ \E j \in DOMAIN pagers : Readable(pagers[j].fd)
  /\ pagers' = [j \in DOMAIN pagers |-> [pagers[j] EXCEPT !.ready = Readable(pagers[j].fd)]]
  /\ i' = Len(pagers)
  /\ due' = {f \in Fds : Readable(f) /\ \E j \in DOMAIN pagers : pagers[j].fd = f}
  /\ UNCHANGED <<serving, clients, sock, backlog, alive>>

\* The loop is at element i and no handler is running.
At(j) == alive /\ i = j /\ i > 0 /\ serving = Nobody

Skip ==
  /\ At(i) /\ ~pagers[i].ready
  /\ i' = i - 1
  /\ UNCHANGED <<pagers, serving, clients, sock, backlog, alive, due>>

\* accept returns the lowest free descriptor, or fails when there is none:
\* then the connection keeps waiting, and -1 is added to pagers all the same
\* (up to the bound MaxPagers; the code has none).
Accept ==
  /\ At(i) /\ pagers[i].ready /\ pagers[i].fd = server_fd
  /\ LET fd == IF FreeFds = {} THEN Bad ELSE Min(FreeFds)
     IN  /\ pagers' = IF fd = Bad /\ Len(pagers) >= MaxPagers THEN pagers
                       ELSE Append(pagers, [fd |-> fd, ready |-> FALSE])
         /\ clients' = [f \in DOMAIN clients \cup {fd} |->
                          IF f = fd THEN "fresh" ELSE clients[f]]
         /\ sock' = IF fd = Bad THEN sock
                    ELSE [sock EXCEPT ![fd] = [Free EXCEPT !.peer = "open"]]
         /\ backlog' = IF fd = Bad THEN backlog ELSE backlog - 1
  /\ i' = i - 1
  /\ UNCHANGED <<serving, alive, due>>

ReadyClient == At(i) /\ pagers[i].ready /\ pagers[i].fd # server_fd

\* recv gives a chunk: the router handles it, and may sleep in XREAD.
Receive ==
  LET fd == pagers[i].fd
  IN  /\ ReadyClient /\ sock[fd].inbox > 0
      /\ sock' = [sock EXCEPT ![fd].inbox = @ - 1, ![fd].spoken = TRUE]
      /\ clients' = [clients EXCEPT ![fd] = "used"]
      /\ \E n \in 0..MaxNaps : serving' = [fd |-> fd, naps |-> n]
      /\ due' = due \ {fd}
      /\ UNCHANGED <<pagers, i, backlog, alive>>

Nap ==
  /\ alive /\ serving.naps > 0
  /\ serving' = [serving EXCEPT !.naps = @ - 1]
  /\ UNCHANGED <<pagers, i, clients, sock, backlog, alive, due>>

\* send blocks while the answers before fill the buffers.  To a peer that
\* has closed it provokes a reset; to one that has reset the connection it
\* raises SIGPIPE, which ends the process.
AfterSend(s) ==
  CASE s.peer = "open"   -> [s EXCEPT !.unread = @ + 1]
    [] s.peer = "closed" -> [s EXCEPT !.peer = "reset"]
    [] OTHER             -> s
Sends(fd) ==
  /\ alive /\ serving # Nobody /\ serving.naps = 0
  /\ sock[fd].peer = "open" => sock[fd].unread < MaxUnread
  /\ alive' = (sock[fd].peer # "reset")
  /\ sock' = [sock EXCEPT ![fd] = AfterSend(@)]
  /\ serving' = Nobody
  /\ UNCHANGED <<pagers, clients, backlog, due>>

Send_then_poll == Sends(serving.fd) /\ i' = 0
Send == Sends(serving.fd) /\ i' = i - 1

Forget_nothing(fd) == clients
Forget(fd) == [f \in DOMAIN clients \ {fd} |-> clients[f]]

Erase_next(j) == RemoveAt(pagers, IF j < Len(pagers) THEN j + 1 ELSE j)
Erase(j) == RemoveAt(pagers, j)

Gone_on_error(fd) == sock[fd].inbox = 0 /\ sock[fd].peer = "reset"
Gone(fd) == sock[fd].inbox = 0

\* recv gives nothing: close the descriptor and drop element and session.
Close ==
  LET fd == pagers[i].fd
  IN  /\ ReadyClient /\ Gone(fd)
      /\ sock' = [sock EXCEPT ![fd] = Free]
      /\ pagers' = Erase(i)
      /\ clients' = Forget(fd)
      /\ due' = due \ {fd}
      /\ i' = i - 1
      /\ UNCHANGED <<serving, backlog, alive>>

\* Clients connect, send chunks and go away at any time; what a client has
\* not read when it goes is dropped.
ClientStep ==
  /\ alive
  /\ \/ /\ backlog < MaxBacklog
        /\ backlog' = backlog + 1
        /\ UNCHANGED sock
     \/ \E fd \in Taken :
          /\ sock[fd].peer = "open"
          /\ \/ /\ sock[fd].inbox < MaxInbox
                /\ sock' = [sock EXCEPT ![fd].inbox = @ + 1]
             \/ sock' = [sock EXCEPT ![fd].peer = "closed", ![fd].unread = 0]
          /\ UNCHANGED backlog
  /\ UNCHANGED <<pagers, i, serving, clients, alive, due>>

ClientReads(fd) ==
  /\ alive /\ sock[fd].unread > 0
  /\ sock' = [sock EXCEPT ![fd].unread = 0]
  /\ UNCHANGED <<pagers, i, serving, clients, backlog, alive, due>>

LoopInit ==
  /\ pagers = <<[fd |-> server_fd, ready |-> FALSE]>>
  /\ i = 0 /\ serving = Nobody
  /\ clients = [f \in {} |-> "fresh"]
  /\ sock = [f \in Fds |-> Free]
  /\ backlog = 0 /\ alive = TRUE /\ due = {}

LoopStep == poll \/ Skip \/ Accept \/ Receive \/ Nap \/ Send \/ Close
LoopNext == LoopStep \/ ClientStep \/ \E fd \in Fds : ClientReads(fd)

LoopSpec == LoopInit /\ [][LoopNext]_loopVars

\* The thread runs on; every sleep of a handler is finite, and a client that
\* has not read an answer reads it some time, or goes.
LoopFairSpec ==
  /\ LoopSpec /\ WF_loopVars(LoopStep)
  /\ \A fd \in Fds : WF_loopVars(ClientReads(fd))

-----------------------------------------------------------------------------
\* However the vector was changed on the way, what is left to do of a poll is
\* what lies in front of the index: no ready client is passed over because
\* an element was erased, none is met twice, and all are done at the end.
BatchServesReadyOnce ==
  /\ alive => due = {pagers[j].fd : j \in {n \in 1..i : pagers[n].ready}}
                    \ {server_fd, serving.fd}
  /\ \A j, m \in DOMAIN pagers : pagers[j].fd = pagers[m].fd => j = m \/ pagers[j].fd = Bad

\* pagers, clients and the open descriptors tell of the same connections, and
\* a connection that has not spoken has a session nobody used, also when it
\* got the descriptor of one closed a moment ago.
ConnectionsAgree ==
  /\ Taken = {pagers[j].fd : j \in DOMAIN pagers} \ {server_fd, Bad}
  /\ Taken = DOMAIN clients \ {Bad}
  /\ \A fd \in Taken : ~sock[fd].spoken => clients[fd] = "fresh"

\* A client that has sent something is served, however busy the others are
\* and however late they read, unless the process dies.
DataIsServed ==
  \A fd \in Fds : (sock[fd].inbox > 0) ~> (serving.fd = fd \/ ~alive)

\* The descriptor of a client that went away becomes free again.
ClosedIsReclaimed ==
  \A fd \in Fds : (sock[fd].peer \in {"closed", "reset"}) ~> (sock[fd] = Free \/ ~alive)
=============================================================================
