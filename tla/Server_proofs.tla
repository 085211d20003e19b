---------------------------- MODULE Server_proofs ----------------------------
(***************************************************************************)
(* Proofs about the server, for any number of connections, any commands    *)
(* and any bounds.                                                         *)
(*                                                                         *)
(* Transactions.  That EXEC walks through its queue undisturbed and that   *)
(* no queue outlives its transaction are inductive together: the first     *)
(* says that a session whose queue runs is out of MULTI, the second that   *)
(* nobody else out of MULTI has a queue.  What makes both survive a step   *)
(* is that a queue holds no MULTI, EXEC or DISCARD, and that a request     *)
(* which is no EXEC is one command.                                        *)
(*                                                                         *)
(* The log.  Every step of the server is a step of the log of Aof, or      *)
(* leaves it alone.                                                        *)
(*                                                                         *)
(* Memory.  It is what a replay of the log would give, for logs of any     *)
(* length, and TYPE changes for a reason.  Replay is a fold, which the     *)
(* library defines by recursion over the sets of positions left to take;   *)
(* this is turned into the one equation the rest uses: a record at the end *)
(* of the log is replayed on top of what the records before it give.       *)
(* Between the two halves of dispatch_command the log is one command       *)
(* ahead, so that the invariant, MirrorInv, compares memory as it will be  *)
(* once the handler has run (MemoryToBe).                                  *)
(***************************************************************************)
EXTENDS Server, Aof_proofs, WellFoundedInduction

-----------------------------------------------------------------------------
(* Ends of a queue *)

\* What IsSuffix says, position by position.
LEMMA SuffixByPosition ==
  ASSUME NEW S, NEW s \in Seq(S), NEW t \in Seq(S)
  PROVE  IsSuffix(s, t) <=>
           /\ Len(s) <= Len(t)
           /\ \A i \in 1..Len(s) : s[i] = t[Len(t) - Len(s) + i]
<1> DEFINE rs == Reverse(s)
           rt == Reverse(t)
<1>1. /\ rs \in Seq(S) /\ rt \in Seq(S) /\ Len(rs) = Len(s) /\ Len(rt) = Len(t)
      /\ \A i \in 1..Len(s) : rs[i] = s[Len(s) - i + 1]
      /\ \A i \in 1..Len(t) : rt[i] = t[Len(t) - i + 1]
      /\ Len(s) \in Nat /\ Len(t) \in Nat
  BY LenProperties DEF Reverse
<1> HIDE DEF rs, rt
<1>2. IsSuffix(s, t) <=> Len(s) <= Len(t) /\ SubSeq(rs, 1, Len(s)) = SubSeq(rt, 1, Len(s))
  BY <1>1 DEF IsSuffix, IsPrefix, rs, rt
<1>3. Len(s) <= Len(t) =>
        (SubSeq(rs, 1, Len(s)) = SubSeq(rt, 1, Len(s)) <=> \A i \in 1..Len(s) : rs[i] = rt[i])
  BY <1>1
<1>4. Len(s) <= Len(t) =>
        ((\A i \in 1..Len(s) : rs[i] = rt[i]) <=>
         (\A i \in 1..Len(s) : s[i] = t[Len(t) - Len(s) + i]))
  <2> SUFFICES ASSUME Len(s) <= Len(t)
               PROVE  (\A i \in 1..Len(s) : rs[i] = rt[i]) <=>
                      (\A i \in 1..Len(s) : s[i] = t[Len(t) - Len(s) + i])
    OBVIOUS
  <2>1. ASSUME \A i \in 1..Len(s) : rs[i] = rt[i], NEW i \in 1..Len(s)
        PROVE  s[i] = t[Len(t) - Len(s) + i]
    <3>1. PICK j \in 1..Len(s) : j = Len(s) - i + 1
      BY <1>1
    <3>2. rs[j] = s[i] /\ rt[j] = t[Len(t) - Len(s) + i]
      <4>1. Len(s) - j + 1 = i /\ Len(t) - j + 1 = Len(t) - Len(s) + i /\ j \in 1..Len(t)
        BY <1>1, <3>1
      <4>2. rs[j] = s[Len(s) - j + 1] /\ rt[j] = t[Len(t) - j + 1]
        BY <1>1, <4>1
      <4> QED BY <4>1, <4>2
    <3> QED BY <2>1, <3>2
  <2>2. ASSUME \A i \in 1..Len(s) : s[i] = t[Len(t) - Len(s) + i], NEW i \in 1..Len(s)
        PROVE  rs[i] = rt[i]
    <3>1. PICK j \in 1..Len(s) : j = Len(s) - i + 1
      BY <1>1
    <3>2. Len(t) - Len(s) + j = Len(t) - i + 1
      BY <1>1, <3>1
    <3>3. s[j] = t[Len(t) - i + 1]
      BY <2>2, <3>2
    <3>4. rs[i] = s[j] /\ rt[i] = t[Len(t) - i + 1]
      BY <1>1, <3>1
    <3> QED BY <3>3, <3>4
  <2> QED BY <2>1, <2>2
<1> QED
  BY <1>2, <1>3, <1>4

LEMMA SuffixFirst ==
  ASSUME NEW S, NEW s \in Seq(S), NEW t \in Seq(S), s # <<>>, IsSuffix(s, t)
  PROVE  \E n \in 1..Len(t) : s[1] = t[n]
<1>1. Len(s) \in Nat \ {0} /\ Len(t) \in Nat
  BY EmptySeq, LenProperties
<1>2. Len(s) <= Len(t) /\ \A i \in 1..Len(s) : s[i] = t[Len(t) - Len(s) + i]
  BY SuffixByPosition, Zenon
<1>3. 1 \in 1..Len(s) /\ Len(t) - Len(s) + 1 \in 1..Len(t)
  BY <1>1, <1>2
<1> QED
  BY <1>2, <1>3, Zenon

LEMMA TailIsSuffix ==
  ASSUME NEW S, NEW s \in Seq(S), NEW t \in Seq(S), s # <<>>, IsSuffix(s, t)
  PROVE  IsSuffix(Tail(s), t)
<1>1. /\ Tail(s) \in Seq(S) /\ Len(Tail(s)) = Len(s) - 1
      /\ \A i \in 1..Len(Tail(s)) : Tail(s)[i] = s[i + 1]
      /\ Len(s) \in Nat \ {0} /\ Len(t) \in Nat
  BY HeadTailProperties, LenProperties, EmptySeq
<1>2. Len(s) <= Len(t) /\ \A i \in 1..Len(s) : s[i] = t[Len(t) - Len(s) + i]
  BY SuffixByPosition
<1>3. ASSUME NEW i \in 1..Len(Tail(s))
      PROVE  Tail(s)[i] = t[Len(t) - Len(Tail(s)) + i]
  <2>1. i + 1 \in 1..Len(s) /\ Len(t) - Len(s) + (i + 1) = Len(t) - Len(Tail(s)) + i
    BY <1>1
  <2>2. Tail(s)[i] = s[i + 1] /\ s[i + 1] = t[Len(t) - Len(s) + (i + 1)]
    BY <1>1, <1>2, <2>1
  <2> QED BY <2>1, <2>2
<1>4. Len(Tail(s)) <= Len(t) /\ Tail(s) \in Seq(S)
  BY <1>1, <1>2
<1> QED
  BY <1>3, <1>4, SuffixByPosition, Zenon

LEMMA WholeIsSuffix == ASSUME NEW S, NEW t \in Seq(S) PROVE IsSuffix(t, t)
BY SuffixByPosition, LenProperties

-----------------------------------------------------------------------------
(* Transactions *)

ServerTyped ==
  /\ session \in [Conns -> Sessions \cup {Closed}]
  /\ task \in Tasks \cup {Idle, Down}

\* What a queue can hold: the router keeps the other commands out.
Queueable == {c \in Commands : c[1] \notin Control}

QueuesAreOfData ==
  \A c \in Conns : session[c] # Closed => session[c].tx_queue \in Seq(Queueable)

\* A request at work has its connection, and is one command unless it is an
\* EXEC that has begun to run its queue.
OneRequest ==
  Working => /\ Mine # Closed
             /\ ~task.exec => task.replies + Len(task.todo) = 1

TxInv == /\ ServerTyped /\ QueuesAreOfData /\ OneRequest
         /\ ExecWalksItsQueue /\ QueueOnlyInMulti

\* What the other lemmas use of the invariant while a request is at work.
LEMMA AtWork ==
  ASSUME TxInv, Working
  PROVE  /\ task \in Tasks /\ Mine \in Sessions /\ Mine.tx_queue \in Seq(Queueable)
         /\ task.todo # <<>> => /\ Current \in Commands
                                /\ task.exec => Current[1] \notin Control
<1>1. task \in Tasks /\ task.conn \in Conns /\ task.todo \in Seq(Commands)
  BY DEF TxInv, ServerTyped, Working, Tasks
<1>2. Mine \in Sessions /\ Mine.tx_queue \in Seq(Queueable)
  BY <1>1 DEF TxInv, ServerTyped, OneRequest, QueuesAreOfData, Mine
<1>3. ASSUME task.todo # <<>>
      PROVE  Current \in Commands /\ (task.exec => Current[1] \notin Control)
  <2>1. Current \in Commands /\ Current = task.todo[1] /\ Len(task.todo) \in Nat \ {0}
    BY <1>1, <1>3, HeadTailProperties, EmptySeq DEF Current
  <2>2. ASSUME task.exec PROVE Current[1] \notin Control
    <3> DEFINE q == Mine.tx_queue
    <3>1. q \in Seq(Commands) /\ Len(q) \in Nat
      BY <1>2, LenProperties DEF Sessions
    <3>2. IsSuffix(task.todo, q)
      BY <2>2 DEF TxInv, ExecWalksItsQueue
    <3> HIDE DEF q
    <3>3. PICK n \in 1..Len(q) : task.todo[1] = q[n]
      BY <1>1, <1>3, <3>1, <3>2, SuffixFirst
    <3>5. q[n] \in Queueable
      BY <1>2, ElementOfSeq DEF q
    <3> QED BY <2>1, <3>3, <3>5 DEF Queueable
  <2> QED BY <2>1, <2>2
<1> QED
  BY <1>1, <1>2, <1>3

LEMMA TxInvInit == ServerInit => TxInv
BY ServerAssumption
   DEF ServerInit, TxInv, ServerTyped, QueuesAreOfData, OneRequest, ExecWalksItsQueue,
       QueueOnlyInMulti, Working

\* The step to the next command.
LEMMA AdvanceEffect ==
  ASSUME TxInv, Working, task.todo # <<>>, Advance
  PROVE  /\ Working' /\ task' \in Tasks /\ task'.conn = task.conn /\ task'.exec = task.exec
         /\ task'.todo = Tail(task.todo) /\ task'.replies = task.replies + 1
         /\ Len(task'.todo) = Len(task.todo) - 1 /\ Len(task.todo) \in Nat \ {0}
<1>1. task \in Tasks /\ task.todo \in Seq(Commands)
  BY AtWork DEF Tasks
<1>2. /\ Tail(task.todo) \in Seq(Commands) /\ Len(task.todo) \in Nat \ {0}
      /\ Len(Tail(task.todo)) = Len(task.todo) - 1
  BY <1>1, HeadTailProperties, EmptySeq
<1>3. task' = [conn |-> task.conn, todo |-> Tail(task.todo), stage |-> "log",
               exec |-> task.exec, replies |-> task.replies + 1]
  BY <1>1 DEF Advance, Tasks
<1>4. task.conn \in Conns /\ task.exec \in BOOLEAN /\ task.replies + 1 \in Nat
  BY <1>1 DEF Tasks
<1>5. task' \in Tasks
  BY <1>2, <1>3, <1>4 DEF Tasks
<1>6. Working'
  BY <1>5, ServerAssumption DEF Working
<1> QED
  BY <1>2, <1>3, <1>5, <1>6

\* A handler that leaves the sessions as they were and goes on.
LEMMA AdvanceKeepsTx ==
  ASSUME TxInv, Working, task.todo # <<>>, Advance, UNCHANGED session
  PROVE  TxInv'
<1> DEFINE q == Mine.tx_queue
<1>1. /\ task \in Tasks /\ task.todo \in Seq(Commands) /\ q \in Seq(Commands)
      /\ task.replies \in Nat /\ Mine # Closed
  BY AtWork DEF Tasks, Sessions, TxInv, OneRequest
<1>2. /\ task' \in Tasks /\ task'.conn = task.conn /\ task'.exec = task.exec
      /\ task'.todo = Tail(task.todo) /\ task'.replies = task.replies + 1
      /\ Len(task'.todo) = Len(task.todo) - 1 /\ Len(task.todo) \in Nat \ {0}
  BY AdvanceEffect
<1>3. Working' /\ Mine' = Mine
  BY <1>2, AdvanceEffect DEF Mine
<1>4. ServerTyped' /\ QueuesAreOfData' /\ QueueOnlyInMulti'
  BY <1>2, <1>3 DEF TxInv, ServerTyped, QueuesAreOfData, QueueOnlyInMulti
<1>5. OneRequest'
  BY <1>1, <1>2, <1>3 DEF TxInv, OneRequest
<1>6. ExecWalksItsQueue'
  <2> SUFFICES ASSUME task.exec
               PROVE  /\ ~Mine.in_multi /\ IsSuffix(Tail(task.todo), q)
                      /\ task.replies + 1 + (Len(task.todo) - 1) = Len(q)
    BY <1>2, <1>3 DEF ExecWalksItsQueue
  <2>1. ~Mine.in_multi /\ IsSuffix(task.todo, q) /\ task.replies + Len(task.todo) = Len(q)
    BY DEF TxInv, ExecWalksItsQueue
  <2> HIDE DEF q
  <2>2. IsSuffix(Tail(task.todo), q)
    BY <1>1, <2>1, TailIsSuffix
  <2> QED BY <1>1, <1>2, <2>1, <2>2
<1> QED
  BY <1>4, <1>5, <1>6 DEF TxInv

\* A process that is not there has neither sessions nor a request.
LEMMA PerishKeepsTx == ASSUME Perish PROVE TxInv'
BY ServerAssumption
   DEF Perish, TxInv, ServerTyped, QueuesAreOfData, OneRequest, ExecWalksItsQueue,
       QueueOnlyInMulti, Working

\* A step between requests that gives sessions an empty queue or none.
LEMMA IdleKeepsTx ==
  ASSUME TxInv, ~Working, task' \in {Idle, Down},
         NEW c \in Conns, NEW s \in {Closed, FreshSession},
         session' = [session EXCEPT ![c] = s]
  PROVE  TxInv'
<1>1. FreshSession \in Sessions /\ FreshSession.tx_queue = <<>> /\ <<>> \in Seq(Queueable)
  BY EmptySeq DEF FreshSession, Sessions
<1>2. ~Working'
  BY DEF Working
<1>3. ServerTyped' /\ QueuesAreOfData'
  BY <1>1 DEF TxInv, ServerTyped, QueuesAreOfData
<1>4. QueueOnlyInMulti'
  BY <1>1 DEF TxInv, ServerTyped, QueueOnlyInMulti
<1> QED
  BY <1>2, <1>3, <1>4 DEF TxInv, OneRequest, ExecWalksItsQueue

\* MULTI and DISCARD: one command, whose session ends with no queue unless
\* it is in MULTI.
LEMMA ControlKeepsTx ==
  ASSUME TxInv, Working, task.todo # <<>>, ~task.exec, Advance,
         NEW s \in Sessions, s.tx_queue \in Seq(Queueable),
         ~s.in_multi => s.tx_queue = <<>>,
         session' = [session EXCEPT ![task.conn] = s]
  PROVE  TxInv'
<1>1. /\ task \in Tasks /\ task.conn \in Conns /\ task.replies \in Nat
      /\ s # Closed /\ session \in [Conns -> Sessions \cup {Closed}]
  BY AtWork, ServerAssumption DEF Tasks, TxInv, ServerTyped
<1>2. /\ Working' /\ task' \in Tasks /\ task'.conn = task.conn /\ ~task'.exec
      /\ task'.replies = task.replies + 1 /\ Len(task'.todo) = Len(task.todo) - 1
      /\ Len(task.todo) \in Nat \ {0}
  BY AdvanceEffect
<1>3. \A c \in Conns : session'[c] = IF c = task.conn THEN s ELSE session[c]
  BY <1>1
<1>4. ServerTyped' /\ QueuesAreOfData'
  BY <1>1, <1>2, <1>3 DEF TxInv, ServerTyped, QueuesAreOfData
<1>5. OneRequest' /\ ExecWalksItsQueue'
  BY <1>1, <1>2, <1>3 DEF TxInv, OneRequest, ExecWalksItsQueue, Mine
<1>6. QueueOnlyInMulti'
  BY <1>2, <1>3 DEF TxInv, QueueOnlyInMulti
<1> QED
  BY <1>4, <1>5, <1>6 DEF TxInv

\* Without an EXEC at work, a session out of MULTI has an empty queue.
LEMMA NoQueueOutside ==
  ASSUME TxInv, Working, ~task.exec, ~Mine.in_multi
  PROVE  Mine.tx_queue = <<>>
BY AtWork DEF TxInv, OneRequest, QueueOnlyInMulti, Mine, Tasks

\* EXEC: the queue becomes what is left to run, and the session leaves MULTI.
LEMMA ExecKeepsTx ==
  ASSUME TxInv, Working, task.todo # <<>>, ~task.exec, exec_command_handler
  PROVE  TxInv'
<1> DEFINE q == Mine.tx_queue
           s == [Mine EXCEPT !.in_multi = FALSE]
<1>1. /\ task \in Tasks /\ task.conn \in Conns /\ Mine \in Sessions
      /\ q \in Seq(Queueable) /\ q \in Seq(Commands) /\ Len(q) \in Nat
      /\ session \in [Conns -> Sessions \cup {Closed}]
  BY AtWork, LenProperties DEF Tasks, TxInv, ServerTyped, Sessions
<1>2. CASE ~Mine.in_multi
  BY <1>2, AdvanceKeepsTx DEF exec_command_handler
<1>3. CASE Mine.in_multi
  <2>1. s \in Sessions /\ s.tx_queue = q /\ ~s.in_multi /\ s # Closed
    BY <1>1, ServerAssumption DEF Sessions
  <2>2. /\ session' = [session EXCEPT ![task.conn].in_multi = FALSE]
        /\ task' = [task EXCEPT !.todo = q, !.stage = "log", !.exec = TRUE]
    BY <1>3 DEF exec_command_handler
  <2>3. \A c \in Conns : session'[c] = IF c = task.conn THEN s ELSE session[c]
    BY <1>1, <2>2 DEF Mine
  <2>4. session' \in [Conns -> Sessions \cup {Closed}]
    BY <1>1, <2>1, <2>2 DEF Mine
  <2>5. /\ task' \in Tasks /\ task'.conn = task.conn /\ task'.exec /\ task'.todo = q
        /\ task'.replies = task.replies /\ task.replies \in Nat
    BY <1>1, <2>2 DEF Tasks
  <2>6. task.replies = 0
    <3>1. Len(task.todo) \in Nat \ {0}
      BY <1>1, EmptySeq DEF Tasks
    <3> QED BY <2>5, <3>1 DEF TxInv, OneRequest
  <2>7. Working' /\ Mine' = s
    BY <1>1, <2>3, <2>5, ServerAssumption DEF Working, Mine
  <2> HIDE DEF q, s
  <2>8. ServerTyped' /\ QueuesAreOfData' /\ OneRequest'
    BY <1>1, <2>1, <2>3, <2>4, <2>5, <2>7 DEF TxInv, ServerTyped, QueuesAreOfData, OneRequest
  <2>9. ExecWalksItsQueue'
    BY <1>1, <2>1, <2>5, <2>6, <2>7, WholeIsSuffix DEF ExecWalksItsQueue
  <2>10. QueueOnlyInMulti'
    BY <2>3, <2>5, <2>7 DEF TxInv, QueueOnlyInMulti
  <2> QED BY <2>8, <2>9, <2>10 DEF TxInv
<1> QED
  BY <1>2, <1>3

\* A request arrives.
LEMMA RouterKeepsTx ==
  ASSUME TxInv, NEW c \in Conns, NEW cmd \in Commands, request_router(c, cmd)
  PROVE  TxInv'
<1> DEFINE q == session[c].tx_queue
<1>1. /\ task = Idle /\ ~Working /\ session[c] \in Sessions /\ session[c] # Closed
      /\ q \in Seq(Queueable) /\ session \in [Conns -> Sessions \cup {Closed}]
  BY DEF request_router, Working, TxInv, ServerTyped, QueuesAreOfData
<1>2. CASE Queues(c, cmd) /\ session' = [session EXCEPT ![c].tx_queue = Append(@, cmd)]
           /\ UNCHANGED task
  <2> DEFINE s == [session[c] EXCEPT !.tx_queue = Append(q, cmd)]
  <2>1. session[c].in_multi /\ cmd \in Queueable
    BY <1>2 DEF Queues, Queueable
  <2>2. Append(q, cmd) \in Seq(Queueable) /\ Append(q, cmd) \in Seq(Commands)
    BY <1>1, <2>1, AppendProperties DEF Sessions
  <2>3. s \in Sessions /\ s # Closed /\ s.in_multi /\ s.tx_queue \in Seq(Queueable)
    BY <1>1, <2>1, <2>2, ServerAssumption DEF Sessions
  <2>4. /\ session' \in [Conns -> Sessions \cup {Closed}]
        /\ \A d \in Conns : session'[d] = IF d = c THEN s ELSE session[d]
    BY <1>1, <1>2, <2>3
  <2> HIDE DEF s, q
  <2>5. ServerTyped' /\ QueuesAreOfData' /\ QueueOnlyInMulti' /\ ~Working'
    BY <1>1, <1>2, <2>3, <2>4
       DEF TxInv, ServerTyped, QueuesAreOfData, QueueOnlyInMulti, Working
  <2> QED BY <2>5 DEF TxInv, OneRequest, ExecWalksItsQueue
<1>3. CASE /\ task' = [conn |-> c, todo |-> <<cmd>>, stage |-> "log",
                       exec |-> FALSE, replies |-> 0]
           /\ UNCHANGED session
  <2>1. /\ task' \in Tasks /\ task'.conn = c /\ ~task'.exec /\ task'.replies = 0
        /\ Len(task'.todo) = 1
    BY <1>3 DEF Tasks
  <2>2. Working' /\ Mine' = session[c]
    BY <1>3, <2>1, ServerAssumption DEF Working, Mine
  <2>3. ServerTyped' /\ QueuesAreOfData' /\ QueueOnlyInMulti'
    BY <1>1, <1>3, <2>1
       DEF TxInv, ServerTyped, QueuesAreOfData, QueueOnlyInMulti, Working
  <2> QED BY <1>1, <2>1, <2>2, <2>3 DEF TxInv, OneRequest, ExecWalksItsQueue
<1> QED
  BY <1>2, <1>3 DEF request_router

\* A request that stays where it is in its queue.
LEMMA SameCommandKeepsTx ==
  ASSUME TxInv, UNCHANGED session, task' \in Tasks, task \in Tasks,
         task'.conn = task.conn, task'.todo = task.todo, task'.exec = task.exec,
         task'.replies = task.replies
  PROVE  TxInv'
<1>1. Working /\ Working' /\ Mine' = Mine
  BY ServerAssumption DEF Working, Mine
<1> QED
  BY <1>1 DEF TxInv, ServerTyped, QueuesAreOfData, OneRequest, ExecWalksItsQueue,
              QueueOnlyInMulti

LEMMA HandleKeepsTx == ASSUME TxInv, Handle PROVE TxInv'
<1>1. Working /\ task.todo # <<>> /\ At("handle")
  BY DEF Handle, At
<1>2. /\ task \in Tasks /\ Mine \in Sessions /\ Mine.tx_queue \in Seq(Queueable)
      /\ task.exec => Current[1] \notin Control
  BY <1>1, AtWork
<1>3. CASE Current[1] \in Control
  <2>1. ~task.exec
    BY <1>2, <1>3
  <2>2. CASE multi_command_handler
    <3> DEFINE s == [Mine EXCEPT !.in_multi = TRUE]
    <3>1. s \in Sessions /\ s.tx_queue \in Seq(Queueable) /\ s.in_multi
      BY <1>2 DEF Sessions
    <3>2. session' = [session EXCEPT ![task.conn] = s] /\ Advance
      BY <2>2 DEF multi_command_handler, Mine
    <3> HIDE DEF s
    <3> QED BY <1>1, <2>1, <3>1, <3>2, ControlKeepsTx
  <2>3. CASE exec_command_handler
    BY <1>1, <2>1, <2>3, ExecKeepsTx
  <2>4. CASE discard_command_handler
    <3> DEFINE s == IF Mine.in_multi THEN FreshSession ELSE Mine
    <3>1. FreshSession \in Sessions /\ FreshSession.tx_queue = <<>> /\ <<>> \in Seq(Queueable)
      BY EmptySeq DEF FreshSession, Sessions
    <3>2. s \in Sessions /\ s.tx_queue \in Seq(Queueable) /\ s.tx_queue = <<>>
      BY <1>1, <1>2, <2>1, <3>1, NoQueueOutside
    <3>3. session' = [session EXCEPT ![task.conn] = s] /\ Advance
      BY <2>4 DEF discard_command_handler, Mine
    <3> HIDE DEF s
    <3> QED BY <1>1, <2>1, <3>2, <3>3, ControlKeepsTx
  <2> QED BY <1>3, <2>2, <2>3, <2>4 DEF Handle
<1>4. CASE Current[1] \notin Control
  <2>1. UNCHANGED session /\ (Advance \/ UNCHANGED task)
    BY <1>4 DEF Handle
  <2> QED BY <1>1, <1>2, <2>1, AdvanceKeepsTx, SameCommandKeepsTx
<1> QED
  BY <1>3, <1>4

LEMMA AnswerKeepsTx == ASSUME TxInv, Answer PROVE TxInv'
<1> DEFINE s == [Mine EXCEPT !.tx_queue = IF task.exec THEN <<>> ELSE @]
<1>1. /\ Working /\ task \in Tasks /\ task.conn \in Conns /\ Mine \in Sessions
      /\ Mine.tx_queue \in Seq(Queueable)
      /\ session \in [Conns -> Sessions \cup {Closed}]
  BY AtWork DEF Answer, TxInv, ServerTyped, Tasks
<1>2. task' = Idle /\ session' = [session EXCEPT ![task.conn] = s]
  BY DEF Answer, Mine
<1>3. <<>> \in Seq(Queueable) /\ <<>> \in Seq(Commands)
  BY EmptySeq
<1>4. s \in Sessions /\ s # Closed /\ s.tx_queue \in Seq(Queueable)
  BY <1>1, <1>3, ServerAssumption DEF Sessions
<1>5. ~s.in_multi => s.tx_queue = <<>>
  <2>1. s.in_multi = Mine.in_multi /\ s.tx_queue = IF task.exec THEN <<>> ELSE Mine.tx_queue
    BY <1>1 DEF Sessions
  <2> QED BY <1>1, <2>1, NoQueueOutside
<1> HIDE DEF s
<1>6. \A c \in Conns : session'[c] = IF c = task.conn THEN s ELSE session[c]
  BY <1>1, <1>2
<1>7. ServerTyped' /\ QueuesAreOfData' /\ QueueOnlyInMulti' /\ ~Working'
  BY <1>1, <1>2, <1>4, <1>5, <1>6
     DEF TxInv, ServerTyped, QueuesAreOfData, QueueOnlyInMulti, Working
<1> QED
  BY <1>7 DEF TxInv, OneRequest, ExecWalksItsQueue

LEMMA TxInvStep == TxInv /\ [ServerNext]_serverVars => TxInv'
<1> SUFFICES ASSUME TxInv, [ServerNext]_serverVars PROVE TxInv'
  OBVIOUS
<1>1. ASSUME NEW c \in Conns, Connect(c) PROVE TxInv'
  BY <1>1, IdleKeepsTx DEF Connect, Working
<1>2. ASSUME NEW c \in Conns, Disconnect(c) PROVE TxInv'
  BY <1>2, IdleKeepsTx DEF Disconnect, Working
<1>3. ASSUME NEW c \in Conns, NEW cmd \in Commands, request_router(c, cmd) PROVE TxInv'
  BY <1>3, RouterKeepsTx
<1>4. CASE Log
  <2>1. task \in Tasks
    BY <1>4, AtWork DEF Log, At
  <2>2. task' = [task EXCEPT !.stage = "handle"] /\ UNCHANGED session
    BY <1>4 DEF Log
  <2>3. /\ task' \in Tasks /\ task'.conn = task.conn /\ task'.todo = task.todo
        /\ task'.exec = task.exec /\ task'.replies = task.replies
    BY <2>1, <2>2 DEF Tasks
  <2> QED BY <2>1, <2>2, <2>3, SameCommandKeepsTx
<1>5. CASE Handle
  BY <1>5, HandleKeepsTx
<1>6. CASE Sleep
  <2>1. Working /\ task.todo # <<>> /\ UNCHANGED session /\ (Advance \/ UNCHANGED task)
    BY <1>6 DEF Sleep, At
  <2> QED BY <2>1, AtWork, AdvanceKeepsTx, SameCommandKeepsTx
<1>7. CASE Answer
  BY <1>7, AnswerKeepsTx
<1>8. CASE Abort \/ Crash
  BY <1>8, PerishKeepsTx DEF Abort, Crash
<1>9. CASE Boot
  <2>1. ~Working /\ ~Working' /\ task' = Idle /\ UNCHANGED session
    BY <1>9 DEF Boot, Working
  <2> QED BY <2>1 DEF TxInv, ServerTyped, QueuesAreOfData, OneRequest,
                      ExecWalksItsQueue, QueueOnlyInMulti, Working
<1>10. CASE UNCHANGED <<session, task>>
  BY <1>10 DEF TxInv, ServerTyped, QueuesAreOfData, OneRequest, ExecWalksItsQueue,
               QueueOnlyInMulti, Working, Mine
<1>11. CASE Time /\ UNCHANGED <<aofVars, session, task, crashes>>
  BY <1>10, <1>11
<1>12. CASE UNCHANGED serverVars
  BY <1>10, <1>12 DEF serverVars
<1> QED
  BY <1>1, <1>2, <1>3, <1>4, <1>5, <1>6, <1>7, <1>8, <1>9, <1>11, <1>12 DEF ServerNext

THEOREM TxInvariant == ServerSpec => []TxInv
BY TxInvInit, TxInvStep, PTL DEF ServerSpec

\* Whatever clients send and whenever the process dies: a running EXEC goes
\* through exactly the queue it found, once and in order.
THEOREM ExecRunsItsQueue == ServerSpec => []ExecWalksItsQueue
<1>1. TxInv => ExecWalksItsQueue
  BY DEF TxInv
<1> QED
  BY <1>1, TxInvariant, PTL

\* No command is left in the queue of a session that is out of MULTI, to be
\* run by a later transaction, a later EXEC or another client.
THEOREM NoQueueOutlivesItsTransaction == ServerSpec => []QueueOnlyInMulti
<1>1. TxInv => QueueOnlyInMulti
  BY DEF TxInv
<1> QED
  BY <1>1, TxInvariant, PTL

-----------------------------------------------------------------------------
(* The log *)

\* What a step of the server does to the log is a step of the log, or none.
\* It takes both invariants: the command that is logged is one of Commands
\* because a queue holds nothing else, and a process without a log that dies
\* leaves the log as it is because nothing can wait in a closed one.
LEMMA ServerStepIsLogStep ==
  ASSUME TxInv, AofInv, [ServerNext]_serverVars
  PROVE  [AofNext]_aofVars
<1>1. ASSUME NEW c \in Conns,
             Connect(c) \/ Disconnect(c) \/ \E cmd \in Commands : request_router(c, cmd)
      PROVE  UNCHANGED aofVars
  BY <1>1 DEF Connect, Disconnect, request_router
<1>2. CASE Log
  <2>1. Current \in Commands /\ appendCommand(Current)
    BY <1>2, AtWork DEF Log, At
  <2> QED BY <2>1 DEF AofNext
<1>3. CASE Handle \/ Sleep \/ Answer
  BY <1>3 DEF Handle, Sleep, Answer
<1>4. CASE Abort \/ Crash
  <2>1. Die
    BY <1>4 DEF Abort, Crash, Perish
  <2>2. CASE fd = "open"
    BY <2>1, <2>2 DEF AofNext
  <2>3. CASE fd # "open"
    <3>1. fd = "closed" /\ writeBuffer = <<>> /\ logged = <<>>
      BY <2>3 DEF AofInv, AofTypeOK
    <3>2. boot = file
      <4>1. file \in Seq(Symbols) /\ boot \in Seq(Symbols) /\ file \o <<>> = boot \o <<>>
        BY <3>1 DEF AofInv, AofTypeOK, LogInOrder
      <4> QED BY <4>1, ConcatEmptySeq
    <3> QED BY <2>1, <3>1, <3>2 DEF Die, aofVars
  <2> QED BY <2>2, <2>3
<1>5. CASE Boot
  BY <1>5 DEF Boot, AofNext
<1>6. CASE Time /\ UNCHANGED <<aofVars, session, task, crashes>>
  BY <1>6
<1>7. CASE UNCHANGED serverVars
  BY <1>7 DEF serverVars
<1> QED
  BY <1>1, <1>2, <1>3, <1>4, <1>5, <1>6, <1>7 DEF ServerNext

\* The server uses the log as its specification allows, whatever requests,
\* transactions, sleeping XREADs and deaths come between two appends.
THEOREM ServerImplementsLog == ServerSpec => AofSpec
<1>1. ServerInit => AofInit
  BY DEF ServerInit
<1>2. TxInv /\ AofInv /\ [ServerNext]_serverVars => [AofNext]_aofVars
  BY ServerStepIsLogStep
<1>3. AofInit => AofInv
  BY AofInvInit
<1>4. AofInv /\ [AofNext]_aofVars => AofInv'
  BY AofInvStep
<1> QED
  BY <1>1, <1>2, <1>3, <1>4, TxInvariant, PTL DEF ServerSpec, AofSpec

\* So file and buffer of the running server are always what the process
\* found and what it has logged since, in order.
THEOREM ServerLogInOrder == ServerSpec => []LogInOrder
<1>1. AofSpec => []LogInOrder
  BY AofCorrect, PTL
<1> QED
  BY <1>1, ServerImplementsLog, PTL

\* And no crash, abort or restart of the server takes back what was written.
THEOREM ServerFileOnlyGrows == ServerSpec => FileOnlyGrows
BY ServerImplementsLog, AofAppendOnly, PTL

-----------------------------------------------------------------------------
(* Induction, on sets of numbers *)

LEMMA LeastElement ==
  ASSUME NEW T \in SUBSET Nat, T # {}
  PROVE  \E n \in T : \A m \in T : n <= m
<1>1. PICK n \in T : \A m \in T : ~(<<m, n>> \in OpToRel(<, Nat))
  BY NatLessThanWellFounded, WFMin, Zenon
<1>2. \A m \in T : ~(m < n)
  BY <1>1 DEF OpToRel
<1> QED
  BY <1>2

LEMMA NatSetInduction ==
  ASSUME NEW T \in SUBSET Nat, 0 \in T, \A n \in T : n + 1 \in T
  PROVE  T = Nat
<1> SUFFICES ASSUME Nat \ T # {} PROVE FALSE
  OBVIOUS
<1>1. PICK n \in Nat \ T : \A m \in Nat \ T : n <= m
  BY LeastElement
<1>2. n - 1 \in Nat /\ ~(n <= n - 1)
  BY <1>1
<1>3. n - 1 \in T
  BY <1>1, <1>2
<1> QED
  BY <1>1, <1>3

-----------------------------------------------------------------------------
(* Replaying one record more *)

NoStrings == [k \in Keys |-> NoEntry]

\* iter holds the fold over every set of positions up to n.
IterOn(records, n, iter) ==
  iter = [s \in SUBSET (1..n) |->
            IF s = {} THEN NoStrings ELSE Replayed(iter[s \ {Max(s)}], records[Max(s)])]

LEMMA MaxIs ==
  ASSUME NEW n \in Nat, NEW s \in SUBSET (1..n + 1), n + 1 \in s
  PROVE  Max(s) = n + 1
<1> DEFINE m == Max(s)
<1>1. n + 1 \in s /\ \A y \in s : y \in Nat /\ n + 1 >= y
  OBVIOUS
<1>2. Max(s) \in s /\ \A y \in s : Max(s) >= y
  BY <1>1, Zenon DEF Max
<1> HIDE DEF m
<1>3. m \in Nat /\ m >= n + 1 /\ n + 1 >= m
  BY <1>1, <1>2 DEF m
<1> QED
  BY <1>3 DEF m

LEMMA IterExists ==
  ASSUME NEW records
  PROVE  \A n \in Nat : \E iter : IterOn(records, n, iter)
<1> DEFINE T == {n \in Nat : \E iter : IterOn(records, n, iter)}
<1>1. 0 \in T
  <2>1. SUBSET (1..0) = {{}}
    OBVIOUS
  <2>2. IterOn(records, 0, [s \in {{}} |-> NoStrings])
    BY <2>1 DEF IterOn
  <2> QED BY <2>2
<1>2. ASSUME NEW n \in T PROVE n + 1 \in T
  <2>1. PICK g : IterOn(records, n, g)
    OBVIOUS
  <2> DEFINE P == SUBSET (1..n + 1)
             h == [s \in P |-> IF n + 1 \in s THEN Replayed(g[s \ {n + 1}], records[n + 1])
                               ELSE g[s]]
             Body(s) == IF s = {} THEN NoStrings
                        ELSE Replayed(h[s \ {Max(s)}], records[Max(s)])
  <2>2. n \in Nat /\ n + 1 \in Nat
    OBVIOUS
  <2>3. ASSUME NEW s \in P, n + 1 \in s PROVE h[s] = Body(s)
    <3>1. Max(s) = n + 1 /\ s # {}
      BY <2>2, <2>3, MaxIs
    <3>2. s \ {n + 1} \in P /\ n + 1 \notin s \ {n + 1}
      OBVIOUS
    <3>3. h[s \ {n + 1}] = g[s \ {n + 1}]
      BY <3>2
    <3>4. h[s] = Replayed(g[s \ {n + 1}], records[n + 1])
      BY <2>3
    <3> HIDE DEF h, P
    <3> QED BY <3>1, <3>3, <3>4
  <2>4. ASSUME NEW s \in P, n + 1 \notin s PROVE h[s] = Body(s)
    <3>1. s \in SUBSET (1..n)
      BY <2>2, <2>4
    <3>2. g[s] = IF s = {} THEN NoStrings ELSE Replayed(g[s \ {Max(s)}], records[Max(s)])
      BY <2>1, <3>1 DEF IterOn
    <3>3. s \ {Max(s)} \in P /\ n + 1 \notin s \ {Max(s)}
      BY <2>4
    <3>4. h[s \ {Max(s)}] = g[s \ {Max(s)}] /\ h[s] = g[s]
      BY <2>4, <3>3
    <3> HIDE DEF h, P
    <3> QED BY <3>2, <3>4
  <2>5. h = [s \in P |-> Body(s)]
    <3>1. h = [s \in P |-> h[s]]
      OBVIOUS
    <3> HIDE DEF h, Body, P
    <3> QED BY <2>3, <2>4, <3>1, Zenon
  <2>6. IterOn(records, n + 1, h)
    <3> HIDE DEF h
    <3> QED BY <2>5, Zenon DEF IterOn
  <2> QED BY <2>2, <2>6
<1> HIDE DEF T
<1>3. T = Nat
  <2>1. T \in SUBSET Nat
    BY DEF T
  <2> QED BY <1>1, <1>2, <2>1, NatSetInduction
<1> QED
  BY <1>3 DEF T

\* The fold over the first m positions, m at a time.
LEMMA IterStep ==
  ASSUME NEW records, NEW n \in Nat, NEW iter, IterOn(records, n, iter)
  PROVE  /\ iter[1..0] = NoStrings
         /\ \A m \in 0..n - 1 : iter[1..(m + 1)] = Replayed(iter[1..m], records[m + 1])
<1>1. iter[1..0] = NoStrings
  <2>1. {} \in SUBSET (1..n) /\ 1..0 = {}
    OBVIOUS
  <2>2. iter[{}] = NoStrings
    BY <2>1 DEF IterOn
  <2> QED BY <2>1, <2>2
<1>2. ASSUME NEW m \in 0..n - 1
      PROVE  iter[1..(m + 1)] = Replayed(iter[1..m], records[m + 1])
  <2> DEFINE s == 1..(m + 1)
  <2>1. s \in SUBSET (1..n) /\ s # {} /\ m \in Nat /\ m + 1 \in s /\ s \ {m + 1} = 1..m
    OBVIOUS
  <2>2. Max(s) = m + 1
    BY <2>1, MaxIs
  <2> HIDE DEF s
  <2>3. iter[s] = Replayed(iter[s \ {Max(s)}], records[Max(s)])
    BY <2>1 DEF IterOn
  <2>4. iter[s] = Replayed(iter[1..m], records[m + 1])
    BY <2>1, <2>2, <2>3
  <2> QED BY <2>4 DEF s
<1> QED
  BY <1>1, <1>2

LEMMA ReplayIsIter ==
  ASSUME NEW S, NEW records \in Seq(S)
  PROVE  \E iter : IterOn(records, Len(records), iter) /\ Replay(records) = iter[1..Len(records)]
<1> DEFINE g == CHOOSE iter : IterOn(records, Len(records), iter)
<1>1. Len(records) \in Nat /\ DOMAIN records = 1..Len(records)
  BY LenProperties
<1>2. Replay(records) =
        (CHOOSE iter : iter = [s \in SUBSET DOMAIN records |->
           IF s = {} THEN [k \in Keys |-> NoEntry]
           ELSE Replayed(iter[s \ {Max(s)}], records[Max(s)])])[DOMAIN records]
  BY DEF Replay, FoldLeft, MapThenFoldSet
<1>3. Replay(records) = g[1..Len(records)]
  BY <1>1, <1>2 DEF IterOn, NoStrings
<1>4. \E iter : IterOn(records, Len(records), iter)
  BY <1>1, IterExists
<1>5. IterOn(records, Len(records), g)
  BY <1>4
<1> HIDE DEF g
<1> QED
  BY <1>3, <1>5

LEMMA ReplayEmpty == Replay(<<>>) = NoStrings
<1>1. <<>> \in Seq({}) /\ Len(<<>>) = 0
  BY EmptySeq
<1>2. PICK iter : IterOn(<<>>, 0, iter) /\ Replay(<<>>) = iter[1..0]
  BY <1>1, ReplayIsIter
<1> QED
  BY <1>2, IterStep

LEMMA ReplayAppend ==
  ASSUME NEW S, NEW records \in Seq(S), NEW c \in S
  PROVE  Replay(Append(records, c)) = Replayed(Replay(records), c)
<1> DEFINE more == Append(records, c)
           n == Len(records)
<1>1. /\ more \in Seq(S) /\ Len(more) = n + 1 /\ n \in Nat /\ more[n + 1] = c
      /\ \A i \in 1..n : more[i] = records[i]
  BY AppendProperties, LenProperties
<1> HIDE DEF more
<1>2. PICK g : IterOn(records, n, g) /\ Replay(records) = g[1..n]
  BY ReplayIsIter
<1>3. PICK h : IterOn(more, n + 1, h) /\ Replay(more) = h[1..(n + 1)]
  BY <1>1, ReplayIsIter
<1> DEFINE T == {m \in Nat : m <= n => g[1..m] = h[1..m]}
<1> HIDE DEF n
<1>4. /\ g[1..0] = NoStrings
      /\ \A m \in 0..n - 1 : g[1..(m + 1)] = Replayed(g[1..m], records[m + 1])
  BY <1>1, <1>2, IterStep
<1>5. /\ h[1..0] = NoStrings
      /\ \A m \in 0..(n + 1) - 1 : h[1..(m + 1)] = Replayed(h[1..m], more[m + 1])
  BY <1>1, <1>3, IterStep
<1>6. 0 \in T
  BY <1>4, <1>5
<1>7. ASSUME NEW m \in T PROVE m + 1 \in T
  <2> SUFFICES ASSUME m + 1 <= n PROVE g[1..(m + 1)] = h[1..(m + 1)]
    OBVIOUS
  <2>1. m \in 0..n - 1 /\ m \in 0..(n + 1) - 1 /\ m + 1 \in 1..n /\ m <= n
    BY <1>1
  <2>2. g[1..m] = h[1..m] /\ more[m + 1] = records[m + 1]
    BY <1>1, <2>1
  <2> QED BY <1>4, <1>5, <2>1, <2>2, Zenon
<1> HIDE DEF T
<1>8. T = Nat
  <2>1. T \in SUBSET Nat
    BY DEF T
  <2> QED BY <1>6, <1>7, <2>1, NatSetInduction
<1>9. g[1..n] = h[1..n]
  BY <1>1, <1>8 DEF T
<1>10. h[1..(n + 1)] = Replayed(h[1..n], more[n + 1])
  <2>1. n \in 0..(n + 1) - 1
    BY <1>1
  <2> QED BY <1>5, <2>1, Zenon
<1> QED
  BY <1>1, <1>2, <1>3, <1>9, <1>10, Zenon DEF more

\* Whatever the log holds, replaying it gives every key no entry or one that
\* never expires.
WithoutExpiry(entries) ==
  /\ DOMAIN entries = Keys
  /\ \A k \in Keys :
       entries[k] # NoEntry => entries[k] = [value |-> entries[k].value, expiry |-> NoExpiry]

LEMMA ReplayedWithoutExpiry ==
  ASSUME NEW entries, WithoutExpiry(entries), NEW c
  PROVE  WithoutExpiry(Replayed(entries, c))
<1>1. CASE c[1] = "SET"
  BY <1>1 DEF Replayed, WithoutExpiry
<1>2. CASE c[1] = "DEL"
  BY <1>2 DEF Replayed, WithoutExpiry
<1> QED
  BY <1>1, <1>2 DEF Replayed

LEMMA ReplayWithoutExpiry ==
  ASSUME NEW S
  PROVE  \A records \in Seq(S) : WithoutExpiry(Replay(records))
<1> DEFINE T == {n \in Nat : \A records \in Seq(S) :
                   Len(records) = n => WithoutExpiry(Replay(records))}
<1>1. 0 \in T
  BY EmptySeq, ReplayEmpty DEF NoStrings, WithoutExpiry
<1>2. ASSUME NEW n \in T PROVE n + 1 \in T
  <2> SUFFICES ASSUME NEW records \in Seq(S), Len(records) = n + 1
               PROVE  WithoutExpiry(Replay(records))
    OBVIOUS
  <2> DEFINE r == SubSeq(records, 1, n)
             c == records[n + 1]
  <2>1. r \in Seq(S) /\ Len(r) = n /\ c \in S /\ \A i \in 1..n : r[i] = records[i]
    BY ElementOfSeq, SubSeqProperties
  <2>2. records = Append(r, c)
    <3> HIDE DEF r, c
    <3>1. /\ Append(r, c) \in Seq(S) /\ Len(Append(r, c)) = n + 1
          /\ \A i \in 1..n : Append(r, c)[i] = r[i]
          /\ Append(r, c)[n + 1] = c
      BY <2>1, AppendProperties
    <3>2. \A i \in 1..n + 1 : records[i] = Append(r, c)[i]
      BY <2>1, <3>1 DEF c
    <3> QED BY <3>1, <3>2, SeqEqual
  <2> HIDE DEF r, c
  <2>3. WithoutExpiry(Replay(r))
    BY <2>1
  <2>4. Replay(records) = Replayed(Replay(r), c)
    BY <2>1, <2>2, ReplayAppend, Zenon
  <2> QED BY <2>3, <2>4, ReplayedWithoutExpiry
<1> HIDE DEF T
<1>3. T = Nat
  <2>1. T \in SUBSET Nat
    BY DEF T
  <2> QED BY <1>1, <1>2, <2>1, NatSetInduction
<1> QED
  BY <1>3, LenProperties DEF T
-----------------------------------------------------------------------------
(* The log mirrors the memory *)

TheLog == file \o writeBuffer

\* A process has its log open, and a sleeping thread is in an XREAD.
LogIsOpen == task # Down => fd = "open"
SleepsInXread == xread # Awake => At("handle") /\ Current[1] = "XREAD"

\* Until its handler has run, a command that is logged is the last record.
CurrentIsLogged ==
  At("handle") /\ isMutatingCommand(Current[1]) =>
    TheLog # <<>> /\ TheLog[Len(TheLog)] = Current

\* Key by key: the same entry; or the entry in the log is older than the
\* expiry that the memory has or had for it.
Mirrors(k) ==
  MemoryToBe[k] # Replay(TheLog)[k] =>
    /\ LastSetHasOption(TheLog, k) /\ Replay(TheLog)[k] # NoEntry
    /\ MemoryToBe[k] = NoEntry \/ MemoryToBe[k].value = Replay(TheLog)[k].value

MirrorInv ==
  /\ LogIsOpen /\ SleepsInXread /\ CurrentIsLogged
  /\ DOMAIN store = Keys
  /\ task # Down => \A k \in Keys : Mirrors(k)

\* What is asked of the commands: the log is on, a record is a command, and
\* there are no INCR and DECR, which the replay does not know, and no DEL,
\* which only the replay knows.
ReplayableCommands ==
  /\ AppendOnly
  /\ \A c \in Commands :
       /\ Serialize(c) = <<c>>
       /\ c[1] \in Control \cup {"SET", "GET", "RPUSH", "LPUSH", "LRANGE", "LLEN", "LPOP",
                               "XADD", "XRANGE", "XREAD", "TYPE", "PING", "COMMAND", "ECHO"}
       /\ c[1] = "SET" => c[3] \in Values

\* A record at the end of the log that sets a key is the last to do so; one
\* that does not leaves the last where it was.
LEMMA LastSetAfterAppend ==
  ASSUME NEW S, NEW records \in Seq(S), NEW c \in S, NEW k,
         \/ Sets(c, k) /\ Len(c) > 3
         \/ ~Sets(c, k) /\ LastSetHasOption(records, k)
  PROVE  LastSetHasOption(Append(records, c), k)
<1> DEFINE more == Append(records, c)
           n == Len(records)
<1>1. /\ n \in Nat /\ Len(more) = n + 1 /\ DOMAIN more = 1..n + 1 /\ DOMAIN records = 1..n
      /\ more[n + 1] = c /\ \A i \in 1..n : more[i] = records[i]
  BY AppendProperties, LenProperties
<1> HIDE DEF more, n
<1>2. CASE Sets(c, k) /\ Len(c) > 3
  <2>1. n + 1 \in DOMAIN more /\ \A j \in n + 1 + 1..Len(more) : FALSE
    BY <1>1
  <2>2. Sets(more[n + 1], k) /\ Len(more[n + 1]) > 3
    BY <1>1, <1>2
  <2>3. LastSetHasOption(more, k)
    BY <2>1, <2>2 DEF LastSetHasOption
  <2> QED BY <2>3 DEF more
<1>3. CASE ~Sets(c, k) /\ LastSetHasOption(records, k)
  <2>1. PICK i \in 1..n : /\ Sets(records[i], k) /\ Len(records[i]) > 3
                          /\ \A j \in i+1..n : ~Sets(records[j], k)
    BY <1>1, <1>3 DEF LastSetHasOption, n
  <2>2. ASSUME NEW j \in i+1..n + 1 PROVE ~Sets(more[j], k)
    <3>1. CASE j = n + 1
      BY <1>1, <1>3, <3>1
    <3>2. CASE j # n + 1
      <4>1. j \in i+1..n /\ j \in 1..n
        BY <1>1, <3>2
      <4> QED BY <1>1, <2>1, <4>1
    <3> QED BY <3>1, <3>2
  <2>3. i \in DOMAIN more /\ more[i] = records[i]
    BY <1>1
  <2>4. LastSetHasOption(more, k)
    BY <1>1, <2>1, <2>2, <2>3, Zenon DEF LastSetHasOption
  <2> QED BY <2>4 DEF more
<1> QED
  BY <1>2, <1>3

\* What an append does to the log as a whole, however much of it is written.
LEMMA LogGrows ==
  ASSUME AofInv, AofInv', NEW c \in Commands, Serialize(c) = <<c>>,
         Appends(c), logged' = logged \o Serialize(c), boot' = boot
  PROVE  TheLog \in Seq(Symbols) /\ c \in Symbols /\ TheLog' = Append(TheLog, c)
<1>1. /\ file \in Seq(Symbols) /\ writeBuffer \in Seq(Symbols)
      /\ boot \in Seq(Symbols) /\ logged \in Seq(Symbols)
  BY DEF AofInv, AofTypeOK
<1>2. <<c>> \in Seq(Symbols)
  BY AofAssumption
<1>3. c \in Symbols
  BY <1>2
<1>4. TheLog \in Seq(Symbols) /\ TheLog = boot \o logged /\ TheLog' = boot' \o logged'
  BY <1>1, ConcatProperties DEF AofInv, LogInOrder, TheLog
<1>5. boot \o (logged \o <<c>>) = (boot \o logged) \o <<c>>
  BY <1>1, <1>2, ConcatAssociative, SMTT(60)
<1>6. TheLog' = TheLog \o <<c>>
  BY <1>4, <1>5
<1> HIDE DEF TheLog
<1>7. TheLog \o <<c>> = Append(TheLog, c)
  BY <1>3, <1>4, AppendIsConcat
<1> QED
  BY <1>3, <1>4, <1>6, <1>7

\* Outside the handler of a SET, the memory is as the log should have it.
LEMMA MemoryIsStore ==
  (At("handle") => Current[1] \notin {"SET", "DEL"}) => MemoryToBe = store
BY DEF MemoryToBe, Replayed

\* Steps of the process that change neither the log nor the strings.
LEMMA QuietStepKeepsMirror ==
  ASSUME MirrorInv, UNCHANGED <<store, file, writeBuffer, fd>>,
         task # Down, SleepsInXread', CurrentIsLogged', MemoryToBe' = MemoryToBe
  PROVE  MirrorInv'
<1>1. TheLog' = TheLog
  BY DEF TheLog
<1>2. task' # Down => \A k \in Keys : Mirrors(k)'
  BY <1>1 DEF MirrorInv, Mirrors
<1> QED
  BY <1>2 DEF MirrorInv, LogIsOpen

\* A handler that leaves the strings alone: it goes on, or sleeps in XREAD.
LEMMA OtherHandlerKeepsMirror ==
  ASSUME MirrorInv, At("handle"), Current[1] \notin {"SET", "DEL"},
         UNCHANGED <<store, file, writeBuffer, fd>>,
         \/ ~At("handle")' /\ xread' = Awake
         \/ UNCHANGED task /\ (xread' # Awake => Current[1] = "XREAD")
  PROVE  MirrorInv'
<1>1. task # Down
  BY DEF At, Working
<1>2. MemoryToBe = store /\ MemoryToBe' = store'
  BY MemoryIsStore DEF MemoryToBe, At, Working, Current, Replayed
<1>3. SleepsInXread'
  BY DEF SleepsInXread, At, Working, Current
<1>4. CurrentIsLogged'
  BY DEF MirrorInv, CurrentIsLogged, At, Working, Current, TheLog
<1> QED
  BY <1>1, <1>2, <1>3, <1>4, QuietStepKeepsMirror

\* A request at rest, in the log stage or between requests is in no handler.
LEMMA NotHandling == ~Working \/ task.stage = "log" \/ task.todo = <<>> => ~At("handle")
BY DEF At

LEMMA LogKeepsMirror ==
  ASSUME ReplayableCommands, TxInv, AofInv, AofInv', MirrorInv, Log
  PROVE  MirrorInv'
<1>1. /\ Working /\ task \in Tasks /\ task.stage = "log" /\ task.todo # <<>>
      /\ Current \in Commands
  BY AtWork DEF Log, At
<1>2. task' = [task EXCEPT !.stage = "handle"] /\ UNCHANGED <<store, xread, session>>
  BY DEF Log, keyspaceVars
<1>3. /\ task' \in Tasks /\ task'.todo = task.todo /\ task'.stage = "handle"
      /\ Current' = Current
  BY <1>1, <1>2 DEF Tasks, Current
<1>4. Working' /\ At("handle")' /\ ~At("handle") /\ task # Down /\ task' # Down
  BY <1>1, <1>3, NotHandling, ServerAssumption DEF At, Working
<1>5. fd = "open" /\ fd' = "open" /\ xread = Awake
  BY <1>4 DEF MirrorInv, LogIsOpen, SleepsInXread, Log, appendCommand, aofVars
<1>6. MemoryToBe = store /\ MemoryToBe' = Replayed(store, Current)
  BY <1>2, <1>3, <1>4 DEF MemoryToBe
<1>7. LogIsOpen' /\ SleepsInXread' /\ DOMAIN store' = Keys /\ DOMAIN store = Keys
  BY <1>2, <1>5 DEF MirrorInv, LogIsOpen, SleepsInXread
<1>8. CASE Appends(Current)
  <2>1. logged' = logged \o Serialize(Current) /\ boot' = boot
    BY <1>8 DEF Log, appendCommand
  <2>2. TheLog \in Seq(Symbols) /\ Current \in Symbols /\ TheLog' = Append(TheLog, Current)
    BY <1>1, <1>8, <2>1, LogGrows DEF ReplayableCommands
  <2>3. Replay(TheLog)' = Replayed(Replay(TheLog), Current)
    BY <2>2, ReplayAppend
  <2>4. WithoutExpiry(Replay(TheLog)) /\ Current[1] # "DEL"
    BY <1>1, <2>2, ReplayWithoutExpiry DEF ReplayableCommands, Control
  <2>5. ASSUME NEW k \in Keys PROVE Mirrors(k)'
    <3>1. CASE Sets(Current, k)
      <4>1. Replay(TheLog)'[k] = MemoryToBe'[k]
        BY <1>6, <1>7, <2>3, <2>4, <3>1 DEF Sets, Replayed, WithoutExpiry
      <4> QED BY <4>1 DEF Mirrors
    <3>2. CASE ~Sets(Current, k)
      <4>1. Replay(TheLog)'[k] = Replay(TheLog)[k] /\ MemoryToBe'[k] = store[k]
        BY <1>6, <1>7, <2>3, <2>4, <3>2 DEF Sets, Replayed, WithoutExpiry
      <4>2. Mirrors(k) /\ MemoryToBe[k] = store[k]
        BY <1>4, <1>6 DEF MirrorInv
      <4>3. LastSetHasOption(TheLog, k) => LastSetHasOption(TheLog, k)'
        BY <2>2, <3>2, LastSetAfterAppend
      <4> QED BY <4>1, <4>2, <4>3 DEF Mirrors
    <3> QED BY <3>1, <3>2
  <2>6. CurrentIsLogged'
    <3>1. TheLog' # <<>> /\ TheLog'[Len(TheLog')] = Current
      BY <2>2, AppendProperties
    <3> QED BY <1>3, <3>1 DEF CurrentIsLogged
  <2> QED BY <1>7, <2>5, <2>6 DEF MirrorInv
<1>9. CASE ~Appends(Current)
  <2>1. UNCHANGED aofVars
    BY <1>9 DEF Log, appendCommand
  <2>2. Current[1] \notin {"SET", "DEL"} /\ ~isMutatingCommand(Current[1])
    BY <1>5, <1>9 DEF Appends, isMutatingCommand, ReplayableCommands
  <2>3. MemoryToBe' = MemoryToBe
    BY <1>6, <2>2 DEF Replayed
  <2>4. CurrentIsLogged'
    BY <1>3, <2>2 DEF CurrentIsLogged
  <2> QED BY <1>2, <1>4, <1>7, <2>1, <2>3, <2>4, QuietStepKeepsMirror DEF aofVars
<1> QED
  BY <1>8, <1>9

\* Once a handler has run, its request is in the log stage or done.
LEMMA AdvanceLeavesHandler ==
  ASSUME TxInv, At("handle"),
         \/ Advance
         \/ \E q : task' = [task EXCEPT !.todo = q, !.stage = "log", !.exec = TRUE]
  PROVE  ~At("handle")'
<1>1. task \in Tasks
  BY AtWork DEF At
<1>2. task'.stage = "log"
  BY <1>1 DEF Advance, Tasks
<1> QED
  BY <1>2 DEF At

\* SET: the entry in the log has the value; where the memory gives it an
\* expiry, the record of the log has the option that says so.
LEMMA SetKeepsMirror ==
  ASSUME ReplayableCommands, TxInv, AofInv, MirrorInv, At("handle"),
         Current[1] = "SET", OnStrings(Current), Advance, UNCHANGED <<file, writeBuffer, fd>>
  PROVE  MirrorInv'
<1> DEFINE key == Current[2]
           v == Current[3]
           opt == IF Len(Current) > 3 THEN Current[4] ELSE NoOption
           R == Replay(TheLog)
<1>1. store' = [store EXCEPT ![key] = [value |-> v, expiry |-> Expiry(opt)]] /\ xread' = xread
  BY DEF OnStrings, set_command_handler
<1>2. /\ ~At("handle")' /\ MemoryToBe' = store' /\ task # Down
      /\ MemoryToBe = [store EXCEPT ![key] = [value |-> v, expiry |-> NoExpiry]]
      /\ DOMAIN store = Keys /\ DOMAIN store' = Keys
  BY <1>1, AdvanceLeavesHandler DEF MemoryToBe, Replayed, At, Working, MirrorInv
<1>3. TheLog # <<>> /\ TheLog[Len(TheLog)] = Current /\ xread = Awake /\ xread' = Awake
  BY <1>1 DEF MirrorInv, CurrentIsLogged, SleepsInXread, isMutatingCommand
<1>4. TheLog' = TheLog /\ TheLog \in Seq(Symbols)
  BY ConcatProperties DEF TheLog, AofInv, AofTypeOK
<1>5. Len(Current) > 3 => LastSetHasOption(TheLog, key)
  <2>1. Len(TheLog) \in DOMAIN TheLog /\ \A j \in Len(TheLog) + 1..Len(TheLog) : FALSE
    BY <1>3, <1>4, EmptySeq, LenProperties
  <2> QED BY <1>3, <2>1 DEF LastSetHasOption, Sets
<1>6. Expiry(opt) # NoExpiry => Len(Current) > 3
  BY DEF Expiry, Lifetime
<1>7. [value |-> v, expiry |-> NoExpiry] # NoEntry /\ [value |-> v, expiry |-> NoExpiry].value = v
  <2>1. v \in Values
    BY AtWork DEF At, ReplayableCommands
  <2> QED BY <2>1, StringStoreAssumption DEF Values, Numbers
<1>8. ASSUME NEW k \in Keys PROVE Mirrors(k)'
  <2>1. Mirrors(k)
    BY <1>2 DEF MirrorInv
  <2>2. CASE k # key
    <3>1. MemoryToBe'[k] = MemoryToBe[k]
      BY <1>1, <1>2, <2>2
    <3> QED BY <1>4, <2>1, <3>1 DEF Mirrors
  <2>3. CASE k = key
    <3>1. MemoryToBe[k] = [value |-> v, expiry |-> NoExpiry] /\ MemoryToBe[k] # NoEntry
      BY <1>2, <1>7, <2>3
    <3>2. R[k] # NoEntry /\ R[k].value = v
      BY <1>7, <2>1, <3>1 DEF Mirrors
    <3>3. MemoryToBe'[k] = [value |-> v, expiry |-> Expiry(opt)]
      BY <1>1, <1>2, <2>3
    <3>4. CASE Expiry(opt) = NoExpiry
      BY <1>4, <2>1, <3>1, <3>3, <3>4 DEF Mirrors
    <3>5. CASE Expiry(opt) # NoExpiry
      <4>1. MemoryToBe'[k].value = v
        BY <3>3
      <4>2. LastSetHasOption(TheLog, k)
        BY <1>5, <1>6, <2>3, <3>5
      <4> QED BY <1>4, <3>2, <4>1, <4>2 DEF Mirrors
    <3> QED BY <3>4, <3>5
  <2> QED BY <2>2, <2>3
<1>9. SleepsInXread' /\ CurrentIsLogged' /\ LogIsOpen'
  BY <1>2, <1>3 DEF SleepsInXread, CurrentIsLogged, LogIsOpen, MirrorInv
<1> QED
  BY <1>2, <1>8, <1>9 DEF MirrorInv

\* GET: it takes an entry away only when the entry had an expiry, which the
\* one in the log has not.
LEMMA GetKeepsMirror ==
  ASSUME TxInv, AofInv, MirrorInv, At("handle"),
         Current[1] = "GET", OnStrings(Current), Advance, UNCHANGED <<file, writeBuffer, fd>>
  PROVE  MirrorInv'
<1> DEFINE key == Current[2]
           R == Replay(TheLog)
<1>1. /\ ~At("handle")' /\ MemoryToBe' = store' /\ MemoryToBe = store /\ task # Down
      /\ DOMAIN store = Keys
  BY AdvanceLeavesHandler, MemoryIsStore DEF MemoryToBe, At, Working, MirrorInv
<1>2. /\ xread' = xread
      /\ \/ store' = store
         \/ /\ store[key] # NoEntry /\ store[key].expiry # NoExpiry
            /\ store' = [store EXCEPT ![key] = NoEntry]
  BY DEF OnStrings, get_command_handler, is_expired
<1>3. TheLog' = TheLog /\ TheLog \in Seq(Symbols)
  BY ConcatProperties DEF TheLog, AofInv, AofTypeOK
<1>4. WithoutExpiry(R)
  BY <1>3, ReplayWithoutExpiry
<1>5. xread = Awake
  BY DEF MirrorInv, SleepsInXread
<1>6. ASSUME NEW k \in Keys PROVE Mirrors(k)'
  <2>1. Mirrors(k)
    BY <1>1 DEF MirrorInv
  <2>2. CASE store'[k] = store[k]
    BY <1>1, <1>3, <2>1, <2>2 DEF Mirrors
  <2>3. CASE store'[k] # store[k]
    <3>1. k = key /\ store'[k] = NoEntry /\ store[k] # NoEntry /\ store[k].expiry # NoExpiry
      BY <1>1, <1>2, <2>3
    <3>2. store[k] # R[k]
      BY <1>4, <3>1 DEF WithoutExpiry
    <3> QED BY <1>1, <1>3, <2>1, <3>1, <3>2 DEF Mirrors
  <2> QED BY <2>2, <2>3
<1>7. SleepsInXread' /\ CurrentIsLogged' /\ LogIsOpen' /\ DOMAIN store' = Keys
  BY <1>1, <1>2, <1>5 DEF SleepsInXread, CurrentIsLogged, LogIsOpen, MirrorInv
<1> QED
  BY <1>6, <1>7 DEF MirrorInv

LEMMA HandleKeepsMirror ==
  ASSUME ReplayableCommands, TxInv, AofInv, MirrorInv, Handle
  PROVE  MirrorInv'
<1>1. /\ At("handle") /\ Working /\ Current \in Commands /\ Current[1] \notin {"INCR", "DECR", "DEL"}
      /\ xread = Awake /\ UNCHANGED <<file, writeBuffer, fd>>
  <2>1. At("handle") /\ Working /\ Current \in Commands
    BY AtWork DEF Handle, At
  <2> QED BY <2>1 DEF Handle, aofVars, ReplayableCommands, Control
<1>2. CASE Current[1] \in Control
  <2>1. UNCHANGED <<store, xread>>
    BY <1>2 DEF Handle
  <2>2. ~At("handle")'
    BY <1>1, <1>2, AdvanceLeavesHandler
       DEF Handle, multi_command_handler, exec_command_handler, discard_command_handler
  <2> QED BY <1>1, <1>2, <2>1, <2>2, OtherHandlerKeepsMirror DEF Control
<1>3. CASE Current[1] \notin Control
  <2>1. DataCommand(Current) /\ (xread' = Awake => Advance) /\ (xread' # Awake => UNCHANGED task)
    BY <1>3 DEF Handle
  <2>2. CASE Current[1] = "SET"
    <3>1. OnStrings(Current) /\ xread' = xread
      BY <2>1, <2>2 DEF DataCommand, OnStrings
    <3> QED BY <1>1, <2>1, <2>2, <3>1, SetKeepsMirror
  <2>3. CASE Current[1] = "GET"
    <3>1. OnStrings(Current) /\ xread' = xread
      BY <2>1, <2>3 DEF DataCommand, OnStrings
    <3> QED BY <1>1, <2>1, <2>3, <3>1, GetKeepsMirror
  <2>4. CASE Current[1] \notin {"SET", "GET"}
    <3>1. \/ Current[1] \in {"RPUSH", "LPUSH", "LRANGE", "LLEN", "LPOP"} /\ OnLists(Current)
          \/ Current[1] \in {"XADD", "XRANGE", "XREAD"} /\ OnStreams(Current)
          \/ Current[1] = "TYPE" /\ type_command_handler(Current[2])
          \/ Current[1] \in {"PING", "COMMAND", "ECHO"} /\ Stateless(Current)
      <4>1. Current[1] \in {"RPUSH", "LPUSH", "LRANGE", "LLEN", "LPOP", "XADD", "XRANGE", "XREAD",
                            "TYPE", "PING", "COMMAND", "ECHO"}
        BY <1>1, <1>3, <2>4 DEF ReplayableCommands
      <4> QED BY <2>1, <4>1 DEF DataCommand
    <3>2. UNCHANGED store /\ (xread' = xread \/ Current[1] = "XREAD")
      BY <3>1 DEF OnLists, OnStreams, type_command_handler, Stateless,
                  xadd_command_handler, xrange_command_handler
    <3>3. xread' = Awake => ~At("handle")'
      BY <1>1, <2>1, AdvanceLeavesHandler
    <3> QED BY <1>1, <2>1, <2>4, <3>2, <3>3, OtherHandlerKeepsMirror
  <2> QED BY <2>2, <2>3, <2>4
<1> QED
  BY <1>2, <1>3

\* Between requests, and when the process comes or goes.
LEMMA RestKeepsMirror ==
  ASSUME MirrorInv, ~At("handle"), ~At("handle")', task # Down,
         UNCHANGED <<store, file, writeBuffer, fd, xread>>
  PROVE  MirrorInv'
<1>1. MemoryToBe = store /\ MemoryToBe' = store'
  BY DEF MemoryToBe
<1>2. SleepsInXread' /\ CurrentIsLogged'
  BY DEF MirrorInv, SleepsInXread, CurrentIsLogged
<1> QED
  BY <1>1, <1>2, QuietStepKeepsMirror

LEMMA BootMirrors ==
  ASSUME ReplayableCommands, AofInv, MirrorInv, Boot
  PROVE  MirrorInv'
<1>1. /\ store' = Replay(file) /\ task' = Idle /\ task = Down /\ fd' = "open" /\ fd = "closed"
      /\ file' = file /\ writeBuffer' = writeBuffer /\ xread' = xread
  BY DEF Boot, start, ReplayableCommands
<1>2. writeBuffer = <<>> /\ file \in Seq(Symbols) /\ TheLog' = file
  <2>1. writeBuffer = <<>> /\ file \in Seq(Symbols)
    BY <1>1 DEF AofInv, AofTypeOK
  <2> QED BY <1>1, <2>1, ConcatEmptySeq DEF TheLog
<1>3. DOMAIN store' = Keys
  BY <1>1, <1>2, ReplayWithoutExpiry DEF WithoutExpiry
<1>4. ~At("handle") /\ ~At("handle")'
  BY <1>1 DEF At, Working
<1>5. MemoryToBe' = Replay(TheLog)'
  BY <1>1, <1>2, <1>4 DEF MemoryToBe
<1>6. \A k \in Keys : Mirrors(k)'
  BY <1>5 DEF Mirrors
<1>7. SleepsInXread' /\ CurrentIsLogged' /\ LogIsOpen'
  BY <1>1, <1>4 DEF MirrorInv, SleepsInXread, CurrentIsLogged, LogIsOpen
<1> QED
  BY <1>3, <1>6, <1>7 DEF MirrorInv

LEMMA PerishKeepsMirror == ASSUME Perish PROVE MirrorInv'
<1>1. task' = Down /\ ~At("handle")' /\ xread' = Awake /\ DOMAIN store' = Keys
  BY DEF Perish, At, Working
<1> QED
  BY <1>1 DEF MirrorInv, SleepsInXread, CurrentIsLogged, LogIsOpen

LEMMA MirrorInit == ServerInit => MirrorInv
<1> SUFFICES ASSUME ServerInit PROVE MirrorInv
  OBVIOUS
<1>1. task = Down /\ ~At("handle") /\ xread = Awake /\ DOMAIN store = Keys
  BY DEF ServerInit, KeyspaceInit, InitStreams, StoreInit, InitStore, At, Working
<1> QED
  BY <1>1 DEF MirrorInv, SleepsInXread, CurrentIsLogged, LogIsOpen

LEMMA MirrorStep ==
  ASSUME ReplayableCommands, TxInv, AofInv, AofInv', MirrorInv, [ServerNext]_serverVars
  PROVE  MirrorInv'
<1>1. CASE /\ UNCHANGED <<store, file, writeBuffer, fd, xread>>
           /\ task = Idle /\ (task' = Idle \/ task'.stage = "log")
  <2>1. ~At("handle") /\ ~At("handle")' /\ task # Down
    BY <1>1, ServerAssumption DEF At, Working
  <2> QED BY <1>1, <2>1, RestKeepsMirror
<1>2. ASSUME NEW c \in Conns,
             Connect(c) \/ Disconnect(c) \/ \E cmd \in Commands : request_router(c, cmd)
      PROVE  MirrorInv'
  <2>1. UNCHANGED <<store, file, writeBuffer, fd, xread>> /\ task = Idle
    BY <1>2 DEF Connect, Disconnect, request_router, keyspaceVars, aofVars
  <2>2. task' = Idle \/ task'.stage = "log"
    BY <1>2 DEF Connect, Disconnect, request_router
  <2> QED BY <1>1, <2>1, <2>2
<1>3. CASE Log
  BY <1>3, LogKeepsMirror
<1>4. CASE Handle
  BY <1>4, HandleKeepsMirror
<1>5. CASE Sleep
  <2>1. /\ At("handle") /\ xread # Awake /\ UNCHANGED <<store, file, writeBuffer, fd>>
        /\ (xread' = Awake => Advance) /\ (xread' # Awake => UNCHANGED task)
    BY <1>5 DEF Sleep, xread_loop, aofVars
  <2>2. Current[1] = "XREAD"
    BY <2>1 DEF MirrorInv, SleepsInXread
  <2> QED BY <2>1, <2>2, AdvanceLeavesHandler, OtherHandlerKeepsMirror
<1>6. CASE Answer
  <2>1. ~At("handle") /\ ~At("handle")' /\ task # Down
    BY <1>6 DEF Answer, At, Working
  <2>2. UNCHANGED <<store, file, writeBuffer, fd, xread>>
    BY <1>6 DEF Answer, keyspaceVars, aofVars
  <2> QED BY <2>1, <2>2, RestKeepsMirror
<1>7. CASE Abort \/ Crash
  BY <1>7, PerishKeepsMirror DEF Abort, Crash
<1>8. CASE Boot
  BY <1>8, BootMirrors
<1>9. CASE UNCHANGED <<store, file, writeBuffer, fd, xread, task>>
  <2>1. /\ LogIsOpen' = LogIsOpen /\ SleepsInXread' = SleepsInXread /\ TheLog' = TheLog
        /\ CurrentIsLogged' = CurrentIsLogged /\ MemoryToBe' = MemoryToBe
    BY <1>9 DEF LogIsOpen, SleepsInXread, CurrentIsLogged, MemoryToBe, TheLog, At, Working, Current
  <2> QED BY <1>9, <2>1 DEF MirrorInv, Mirrors
<1>10. CASE Time /\ UNCHANGED <<aofVars, session, task, crashes>>
  <2>1. UNCHANGED <<store, xread>>
    BY <1>10 DEF Time, Tick, ClockJump
  <2> QED BY <1>9, <1>10, <2>1 DEF aofVars
<1>11. CASE UNCHANGED serverVars
  BY <1>9, <1>11 DEF serverVars, aofVars, keyspaceVars
<1> QED
  BY <1>2, <1>3, <1>4, <1>5, <1>6, <1>7, <1>8, <1>10, <1>11 DEF ServerNext

LEMMA MirrorMeans == MirrorInv => LogMirrorsMemory
<1> SUFFICES ASSUME MirrorInv, task # Down, NEW k \in Keys,
                    Strings(Replay(TheLog))[k] # Strings(MemoryToBe)[k]
             PROVE  MemoryToBe[k] = NoEntry /\ LastSetHasOption(TheLog, k)
  BY DEF LogMirrorsMemory, TheLog
<1>1. MemoryToBe[k] # Replay(TheLog)[k] /\ Mirrors(k)
  BY DEF Strings, MirrorInv
<1> QED
  BY <1>1 DEF Mirrors, Strings

\* For logs of any length, any keys, and any requests, transactions, short
\* writes and deaths: what the log would be replayed to is what the process
\* has in memory, except for keys whose time had come.
THEOREM TheLogMirrorsTheMemory ==
  ASSUME ReplayableCommands
  PROVE  ServerSpec => []LogMirrorsMemory
<1>1. TxInv /\ AofInv /\ AofInv' /\ MirrorInv /\ [ServerNext]_serverVars => MirrorInv'
  BY MirrorStep
<1>2. AofSpec => []AofInv
  BY AofInvInit, AofInvStep, PTL DEF AofSpec
<1> QED
  BY <1>1, <1>2, MirrorInit, MirrorMeans, TxInvariant, ServerImplementsLog, PTL DEF ServerSpec

-----------------------------------------------------------------------------
(* What TYPE says *)

\* What is asked of the commands: they have handlers, the string commands a
\* key, and an option of SET is one the handler knows or the one std::stol
\* rejects.
KnownCommands ==
  \A c \in Commands :
    /\ c[1] \in Control \cup {"SET", "GET", "INCR", "DECR", "DEL", "RPUSH", "LPUSH", "LRANGE",
                            "LLEN", "LPOP", "XADD", "XRANGE", "XREAD", "TYPE", "PING",
                            "COMMAND", "ECHO"}
    /\ c[1] \in {"SET", "GET", "INCR", "DECR"} => c[2] \in Keys
    /\ c[1] = "SET" /\ Len(c) > 3 => c[4] \in SetOptions \cup {BadOption}

\* The deadlines are instants: an expired entry stays expired.
IsEntry(e) == e = [value |-> e.value, expiry |-> e.expiry] /\ e.expiry \in Int \cup {NoExpiry}
MapsInv ==
  /\ DOMAIN store = Keys /\ DOMAIN lists = ListKeys /\ now \in Int
  /\ \A k \in Keys : store[k] = NoEntry \/ IsEntry(store[k])

\* What one step does to the two maps.
TypesKept(k) == TypeOf(k)' = TypeOf(k)

LEMMA ExpiryIsInstant ==
  ASSUME now \in Int, NEW opt, opt \in SetOptions \/ opt = NoOption
  PROVE  Expiry(opt) \in Int \cup {NoExpiry}
<1>1. Lifetime(opt) \in Int \cup {NoExpiry}
  BY StringStoreAssumption DEF Lifetime
<1> QED
  BY <1>1, StringStoreAssumption DEF Expiry

\* A handler of strings writes one entry; GET only clears away an expired one.
LEMMA StringsStep ==
  ASSUME KnownCommands, MapsInv, NEW cmd \in Commands, ~Aborts(cmd), OnStrings(cmd)
  PROVE  /\ MapsInv'
         /\ \A k \in Keys :
              TypesKept(k) \/ (cmd[2] = k /\ cmd[1] \in {"SET", "INCR", "DECR"})
<1> DEFINE key == cmd[2]
<1>1. UNCHANGED <<lists, now>> /\ now \in Int
  BY DEF OnStrings, set_command_handler, get_command_handler, incr_command_handler,
         decr_command_handler, StepCounter, MapsInv
<1>2. ASSUME NEW e, IsEntry(e) \/ e = NoEntry, store' = [store EXCEPT ![key] = e]
      PROVE  MapsInv' /\ \A k \in Keys : k # key => TypesKept(k)
  <2>1. DOMAIN store' = Keys /\ \A k \in Keys : store'[k] = IF k = key THEN e ELSE store[k]
    BY <1>2 DEF MapsInv
  <2>2. MapsInv'
    BY <1>1, <1>2, <2>1 DEF MapsInv, IsEntry
  <2>3. ASSUME NEW k \in Keys, k # key PROVE TypesKept(k)
    <3>1. store'[k] = store[k]
      BY <2>1, <2>3
    <3> QED BY <1>1, <3>1 DEF TypesKept, TypeOf, Live, is_expired
  <2> QED BY <2>2, <2>3
<1>3. CASE UNCHANGED store
  BY <1>1, <1>3 DEF MapsInv, IsEntry, TypesKept, TypeOf, Live, is_expired
<1>4. CASE cmd[1] = "SET"
  <2> DEFINE opt == IF Len(cmd) > 3 THEN cmd[4] ELSE NoOption
             e == [value |-> cmd[3], expiry |-> Expiry(opt)]
  <2>1. store' = [store EXCEPT ![key] = e]
    BY <1>4 DEF OnStrings, set_command_handler
  <2>2. opt \in SetOptions \/ opt = NoOption
    BY <1>4 DEF KnownCommands, Aborts
  <2>3. Expiry(opt) \in Int \cup {NoExpiry}
    BY <1>1, <2>2, ExpiryIsInstant
  <2>4. IsEntry(e)
    BY <2>3 DEF IsEntry
  <2> HIDE DEF e
  <2> QED BY <1>2, <1>4, <2>1, <2>4
<1>5. CASE cmd[1] \in {"INCR", "DECR"} /\ store' # store
  <2>1. PICK d, limit : StepCounter(key, d, limit)
    BY <1>5 DEF OnStrings, incr_command_handler, decr_command_handler
  <2>2. CASE store' = [store EXCEPT ![key] = [value |-> d, expiry |-> NoExpiry]]
    <3>1. IsEntry([value |-> d, expiry |-> NoExpiry])
      BY DEF IsEntry
    <3> QED BY <1>2, <1>5, <2>2, <3>1
  <2>3. CASE Live(key) /\ store' = [store EXCEPT ![key].value = @ + d]
    <3> DEFINE e == [value |-> store[key].value + d, expiry |-> store[key].expiry]
    <3>1. IsEntry(store[key])
      BY <1>5, <2>3 DEF KnownCommands, MapsInv, Live
    <3>2. [store[key] EXCEPT !.value = @ + d] = e
      BY <3>1 DEF IsEntry
    <3>3. store' = [store EXCEPT ![key] = [store[key] EXCEPT !.value = @ + d]]
      BY <2>3
    <3>4. IsEntry(e)
      BY <3>1 DEF IsEntry
    <3>5. store' = [store EXCEPT ![key] = e]
      BY <3>2, <3>3, Zenon
    <3> HIDE DEF e
    <3> QED BY <1>2, <1>5, <3>4, <3>5
  <2> QED BY <1>5, <2>1, <2>2, <2>3 DEF StepCounter
<1>6. CASE cmd[1] = "GET" /\ store' # store
  <2>1. store[key] # NoEntry /\ is_expired(store[key]) /\ store' = [store EXCEPT ![key] = NoEntry]
    BY <1>6 DEF OnStrings, get_command_handler
  <2>2. MapsInv' /\ \A k \in Keys : k # key => TypesKept(k)
    BY <1>2, <2>1
  <2>3. TypesKept(key)
    <3>1. ~Live(key) /\ ~Live(key)'
      BY <1>6, <2>1 DEF Live, MapsInv, KnownCommands
    <3> QED BY <1>1, <3>1 DEF TypesKept, TypeOf
  <2> QED BY <2>2, <2>3
<1> QED
  BY <1>3, <1>4, <1>5, <1>6 DEF OnStrings

LEMMA ListsStep ==
  ASSUME MapsInv, NEW cmd, OnLists(cmd)
  PROVE  /\ MapsInv'
         /\ \A k \in ListKeys :
              TypesKept(k) \/ (cmd[2] = k /\ cmd[1] \in {"RPUSH", "LPUSH", "LPOP", "LLEN"})
<1> DEFINE key == cmd[2]
<1>1. UNCHANGED <<store, now>>
  BY DEF OnLists
<1>2. CASE UNCHANGED lists
  BY <1>1, <1>2 DEF MapsInv, IsEntry, TypesKept, TypeOf, Live, is_expired
<1>3. ASSUME NEW l, lists' = [lists EXCEPT ![key] = l]
      PROVE  MapsInv' /\ \A k \in ListKeys : k # key => TypesKept(k)
  <2>1. DOMAIN lists' = ListKeys /\ \A k \in ListKeys : k # key => lists'[k] = lists[k]
    BY <1>3 DEF MapsInv
  <2> QED BY <1>1, <2>1 DEF MapsInv, IsEntry, TypesKept, TypeOf, Live, is_expired
<1>4. CASE /\ cmd[1] \in {"RPUSH", "LPUSH", "LPOP", "LLEN"}
           /\ \E l : lists' = [lists EXCEPT ![key] = l]
  BY <1>3, <1>4
<1>5. \/ UNCHANGED lists
      \/ /\ cmd[1] \in {"RPUSH", "LPUSH", "LPOP", "LLEN"}
         /\ \E l : lists' = [lists EXCEPT ![key] = l]
  BY DEF OnLists, handle_rpush, handle_lpush, lrange_command_handler, llen_command_handler,
         lpop_command_handler, lpop_count
<1> QED
  BY <1>2, <1>4, <1>5

\* A tick of the clock can only end a string.
LEMMA TickStep ==
  ASSUME MapsInv, Tick, UNCHANGED lists, NEW k \in Keys, ~TypesKept(k)
  PROVE  now' # now /\ TypeOf(k) = "string" /\ ~Live(k)'
<1>1. now' = now + 1 /\ store' = store /\ now \in Int
  BY DEF Tick, MapsInv
<1>2. store[k] = NoEntry \/ store[k].expiry \in Int \cup {NoExpiry}
  BY DEF MapsInv, IsEntry
<1>3. Live(k)' => Live(k)
  BY <1>1, <1>2, StringStoreAssumption DEF Live, is_expired
<1> QED
  BY <1>1, <1>3 DEF TypesKept, TypeOf

\* The reasons TypesChangeForAReason gives.
TypeMayChange(k) ==
  \/ task = Down \/ task' = Down
  \/ now' # now /\ TypeOf(k) = "string" /\ ~Live(k)'
  \/ /\ At("handle") /\ Current[2] = k
     /\ Current[1] \in {"SET", "INCR", "DECR", "RPUSH", "LPUSH", "LPOP", "LLEN"}

LEMMA TypesStep ==
  ASSUME KnownCommands, TxInv, AofInv, MapsInv, [ServerNext]_serverVars
  PROVE  MapsInv' /\ \A k \in Keys \cap ListKeys : TypesKept(k) \/ TypeMayChange(k)
<1>1. CASE UNCHANGED <<store, lists, now>>
  BY <1>1 DEF MapsInv, IsEntry, TypesKept, TypeOf, Live, is_expired
<1>2. ASSUME NEW c \in Conns,
             Connect(c) \/ Disconnect(c) \/ \E cmd \in Commands : request_router(c, cmd)
      PROVE  UNCHANGED <<store, lists, now>>
  BY <1>2 DEF Connect, Disconnect, request_router, keyspaceVars
<1>3. CASE Log \/ Sleep \/ Answer
  BY <1>1, <1>3 DEF Log, Sleep, Answer, keyspaceVars
<1>4. CASE Handle
  <2>1. At("handle") /\ Current \in Commands /\ ~Aborts(Current)
    BY <1>4, AtWork DEF Handle, At
  <2>2. CASE Current[1] \in Control
    BY <1>1, <1>4, <2>2 DEF Handle
  <2>3. CASE Current[1] \notin Control
    <3>1. DataCommand(Current)
      BY <1>4, <2>3 DEF Handle
    <3>2. CASE Current[1] \in {"SET", "GET", "INCR", "DECR"}
      <4>1. OnStrings(Current)
        BY <3>1, <3>2 DEF DataCommand
      <4> QED BY <2>1, <4>1, StringsStep DEF TypeMayChange
    <3>3. CASE Current[1] \in {"RPUSH", "LPUSH", "LRANGE", "LLEN", "LPOP"}
      <4>1. OnLists(Current)
        BY <3>1, <3>3 DEF DataCommand
      <4> QED BY <2>1, <4>1, ListsStep DEF TypeMayChange
    <3>4. CASE Current[1] \in {"XADD", "XRANGE", "XREAD", "TYPE", "PING", "COMMAND", "ECHO", "DEL"}
      <4>1. OnStreams(Current) \/ type_command_handler(Current[2]) \/ Stateless(Current)
        BY <3>1, <3>4 DEF DataCommand
      <4>2. UNCHANGED <<store, lists, now>>
        BY <1>4, <4>1 DEF Handle, OnStreams, type_command_handler, Stateless
      <4> QED BY <1>1, <4>2
    <3> QED BY <2>1, <2>3, <3>2, <3>3, <3>4 DEF KnownCommands
  <2> QED BY <2>2, <2>3
<1>5. CASE Abort \/ Crash
  <2>1. /\ DOMAIN store' = Keys /\ DOMAIN lists' = ListKeys /\ now' = now /\ task' = Down
        /\ \A k \in Keys : store'[k] = NoEntry
    BY <1>5 DEF Abort, Crash, Perish
  <2> QED BY <2>1 DEF MapsInv, TypeMayChange
<1>6. CASE Boot
  <2>1. task = Down /\ UNCHANGED <<lists, now>> /\ (store' = store \/ store' = Replay(file))
    BY <1>6 DEF Boot
  <2>2. WithoutExpiry(Replay(file))
    BY ReplayWithoutExpiry DEF AofInv, AofTypeOK
  <2> QED BY <2>1, <2>2 DEF MapsInv, IsEntry, WithoutExpiry, TypeMayChange
<1>7. CASE Time /\ UNCHANGED <<aofVars, session, task, crashes>>
  <2>1. CASE Tick /\ UNCHANGED lists
    <3>1. MapsInv'
      BY <2>1 DEF Tick, MapsInv, IsEntry
    <3> QED BY <2>1, <3>1, TickStep DEF TypeMayChange
  <2>2. CASE UNCHANGED <<store, lists, now>>
    BY <1>1, <2>2
  <2> QED BY <1>7, <2>1, <2>2 DEF Time
<1>8. CASE UNCHANGED serverVars
  BY <1>1, <1>8 DEF serverVars, keyspaceVars
<1> QED
  BY <1>1, <1>2, <1>3, <1>4, <1>5, <1>6, <1>7, <1>8 DEF ServerNext

LEMMA MapsInit == ServerInit => MapsInv
BY DEF ServerInit, KeyspaceInit, StoreInit, InitStore, InitLists, MapsInv

\* What TYPE answers for a key changes by a command that writes the string or
\* the list of that key, by the deadline of its string, or with the process:
\* never by another client's key, a read, the log or a transaction.
THEOREM TypesChangeWithWrites ==
  ASSUME KnownCommands
  PROVE  ServerSpec => TypesChangeForAReason
<1>1. TxInv /\ AofInv /\ MapsInv /\ [ServerNext]_serverVars =>
        MapsInv' /\ \A k \in Keys \cap ListKeys : TypesKept(k) \/ TypeMayChange(k)
  BY TypesStep
<1>2. (\A k \in Keys \cap ListKeys : TypesKept(k) \/ TypeMayChange(k)) =>
        [\A k \in Keys \cap ListKeys :
           TypeOf(k)' # TypeOf(k) =>
             \/ task = Down \/ task' = Down
             \/ now' # now /\ TypeOf(k) = "string" /\ ~Live(k)'
             \/ /\ At("handle") /\ Current[2] = k
                /\ Current[1] \in {"SET", "INCR", "DECR", "RPUSH", "LPUSH", "LPOP", "LLEN"}
        ]_serverVars
  BY DEF TypesKept, TypeMayChange
<1>3. AofSpec => []AofInv
  BY AofInvInit, AofInvStep, PTL DEF AofSpec
<1> QED
  BY <1>1, <1>2, <1>3, MapsInit, TxInvariant, ServerImplementsLog, PTL
     DEF ServerSpec, TypesChangeForAReason
=============================================================================
