-------------------------- MODULE RemoteServeProofs --------------------------
(***************************************************************************)
(* Proofs about RemoteServe for any set of connections, any channel        *)
(* capacity and any number of broadcasts: first the registry, then that    *)
(* RemoteServe implements SnapshotFeed.                                    *)
(***************************************************************************)
EXTENDS RemoteServe, TLAPS

USE ServeAssumption DEF ServeAssumption, Before, Streaming, After, vars, serverVars, chanVars, connVars, peerVars

(* The next-state relation, one case per action.                           *)
LEMMA NextCases ==
  ASSUME Next
  PROVE
    \/ Cancel
    \/ AcceptError
    \/ FirstBroadcast
    \/ AcceptAfterClose
    \/ \E c \in Clients : Accept(c)
    \/ Tick
    \/ TickerReturns
    \/ BroadcastLock
    \/ BroadcastUnlock
    \/ \E c \in Clients : BroadcastSend(c)
    \/ ShutdownListener
    \/ ShutdownLock
    \/ ShutdownUnlock
    \/ \E c \in Clients : ShutdownClient(c)
    \/ Stopped
    \/ \E c \in Clients : AuthRead(c)
    \/ \E c \in Clients : HandshakeFails(c)
    \/ \E c \in Clients : HelloWritten(c)
    \/ \E c \in Clients : RegisterLock(c)
    \/ \E c \in Clients : RegisterInsert(c)
    \/ \E c \in Clients : Receive(c)
    \/ \E c \in Clients : RangeEnds(c)
    \/ \E c \in Clients : Written(c)
    \/ \E c \in Clients : WriteFails(c)
    \/ \E c \in Clients : Unregister(c)
    \/ \E c \in Clients : CloseConn(c)
    \/ \E c \in Clients : TogglePeer(c)
    \/ \E c \in Clients, t \in {"good", "bad", "silent"} : Connect(c, t)
BY Zenon DEF Next, Main, Ticker, Shutdown, Handler, Peer

(* Every step preserves the types and the capacity of the channels.        *)
LEMMA TypeOKStep ==
  ASSUME TypeOK, [Next]_vars
  PROVE  TypeOK'
<1>1. [Next]_vars
  OBVIOUS
<1>2. CASE Cancel
  BY <1>2 DEF Cancel, TypeOK
<1>3. CASE AcceptError
  BY <1>3 DEF AcceptError, ReturnFromServe, Refuse, TypeOK
<1>4. CASE FirstBroadcast
  BY <1>4 DEF FirstBroadcast, TypeOK
<1>5. CASE AcceptAfterClose
  BY <1>5 DEF AcceptAfterClose, ReturnFromServe, Refuse, TypeOK
<1>6. ASSUME NEW c \in Clients, Accept(c) PROVE TypeOK'
  BY <1>6 DEF Accept, Goto, TypeOK
<1>7. CASE Tick
  BY <1>7 DEF Tick, TypeOK
<1>8. CASE TickerReturns
  BY <1>8 DEF TickerReturns, TypeOK
<1>9. CASE BroadcastLock
  BY <1>9 DEF BroadcastLock, TypeOK
<1>10. CASE BroadcastUnlock
  BY <1>10 DEF BroadcastUnlock, TypeOK
<1>11. ASSUME NEW c \in Clients, BroadcastSend(c) PROVE TypeOK'
  <2>1. chan[c] \in Seq(Nat) /\ Len(chan[c]) \in Nat
    BY DEF TypeOK
  <2>2. /\ tk = "send" /\ c \in todo /\ todo' = todo \ {c}
        /\ UNCHANGED <<ctxDone, lnClosed, main, tk, sd, mu, head, connVars, peerVars>>
    BY <1>11 DEF BroadcastSend
  <2>3. CASE Len(chan[c]) < Cap
    <3>1. /\ chan' = [chan EXCEPT ![c] = Append(@, head)]
          /\ panicked' = (panicked \/ closed[c])
          /\ UNCHANGED <<clients, closed>>
      BY <1>11, <2>1, <2>3 DEF BroadcastSend
    <3>2. Append(chan[c], head) \in Seq(Nat) /\ Len(Append(chan[c], head)) <= Cap
      BY <2>1, <2>3 DEF TypeOK
    <3>3. QED
      BY <2>2, <3>1, <3>2 DEF TypeOK
  <2>4. CASE ~(Len(chan[c]) < Cap)
    <3>1. DeleteAndClose(c) /\ UNCHANGED chan
      BY <1>11, <2>4 DEF BroadcastSend
    <3>2. QED
      BY <2>2, <3>1 DEF DeleteAndClose, TypeOK
  <2>5. QED
    BY <2>3, <2>4
<1>12. CASE ShutdownListener
  BY <1>12 DEF ShutdownListener, Refuse, TypeOK
<1>13. CASE ShutdownLock
  BY <1>13 DEF ShutdownLock, TypeOK
<1>14. CASE ShutdownUnlock
  BY <1>14 DEF ShutdownUnlock, TypeOK
<1>15. ASSUME NEW c \in Clients, ShutdownClient(c) PROVE TypeOK'
  BY <1>15 DEF ShutdownClient, DeleteAndClose, TypeOK
<1>16. CASE Stopped
  BY <1>16 DEF Stopped, TypeOK
<1>17. ASSUME NEW c \in Clients, AuthRead(c) PROVE TypeOK'
  <2>1. CASE token[c] = "good" /\ Goto(c, "auth", "hello")
    BY <1>17, <2>1 DEF AuthRead, Goto, TypeOK
  <2>2. CASE token[c] = "bad" /\ Goto(c, "auth", "close")
    BY <1>17, <2>2 DEF AuthRead, Goto, TypeOK
  <2>3. QED
    BY <1>17, <2>1, <2>2 DEF AuthRead
<1>18. ASSUME NEW c \in Clients, HandshakeFails(c) PROVE TypeOK'
  <2>1. CASE Goto(c, "auth", "close")
    BY <1>18, <2>1 DEF HandshakeFails, Goto, TypeOK
  <2>2. CASE Goto(c, "hello", "close")
    BY <1>18, <2>2 DEF HandshakeFails, Goto, TypeOK
  <2>3. QED
    BY <1>18, <2>1, <2>2 DEF HandshakeFails
<1>19. ASSUME NEW c \in Clients, HelloWritten(c) PROVE TypeOK'
  BY <1>19 DEF HelloWritten, Goto, TypeOK
<1>20. ASSUME NEW c \in Clients, RegisterLock(c) PROVE TypeOK'
  BY <1>20 DEF RegisterLock, Goto, TypeOK
<1>21. ASSUME NEW c \in Clients, RegisterInsert(c) PROVE TypeOK'
  BY <1>21 DEF RegisterInsert, Goto, TypeOK
<1>22. ASSUME NEW c \in Clients, Receive(c) PROVE TypeOK'
  BY <1>22 DEF Receive, Goto, TypeOK
<1>23. ASSUME NEW c \in Clients, RangeEnds(c) PROVE TypeOK'
  BY <1>23 DEF RangeEnds, Goto, TypeOK
<1>24. ASSUME NEW c \in Clients, Written(c) PROVE TypeOK'
  BY <1>24 DEF Written, Goto, TypeOK
<1>25. ASSUME NEW c \in Clients, WriteFails(c) PROVE TypeOK'
  BY <1>25 DEF WriteFails, Goto, TypeOK
<1>26. ASSUME NEW c \in Clients, Unregister(c) PROVE TypeOK'
  BY <1>26 DEF Unregister, Goto, DeleteAndClose, TypeOK
<1>27. ASSUME NEW c \in Clients, CloseConn(c) PROVE TypeOK'
  BY <1>27 DEF CloseConn, Goto, TypeOK
<1>28. ASSUME NEW c \in Clients, TogglePeer(c) PROVE TypeOK'
  BY <1>28 DEF TogglePeer, TypeOK
<1>29. ASSUME NEW c \in Clients, NEW t \in {"good", "bad", "silent"}, Connect(c, t) PROVE TypeOK'
  BY <1>29 DEF Connect, Goto, TypeOK
<1>30. CASE UNCHANGED vars
  BY <1>30 DEF TypeOK
<1>31. QED
  BY <1>2, <1>3, <1>4, <1>5, <1>6, <1>7, <1>8, <1>9, <1>10, <1>11, <1>12, <1>13, <1>14, <1>15, <1>16, <1>17, <1>18, <1>19, <1>20, <1>21, <1>22, <1>23, <1>24, <1>25, <1>26, <1>27, <1>28, <1>29, <1>30, NextCases, <1>1, Zenon

(* The type invariant, and with it the bound on every client's channel.    *)
THEOREM TypeCorrect == Safety => []TypeOK
<1>1. ASSUME Init PROVE TypeOK
  <2>1. <<>> \in Seq(Nat) /\ Len(<<>>) <= Cap
    OBVIOUS
  <2>2. \A c \in Clients : chan[c] = <<>>
    BY <1>1 DEF Init
  <2>3. chan \in [Clients -> Seq(Nat)] /\ \A c \in Clients : Len(chan[c]) <= Cap
    BY <1>1, <2>1, <2>2 DEF Init
  <2>4. QED
    BY <1>1, <2>3 DEF Init, TypeOK
<1>2. TypeOK /\ [Next]_vars => TypeOK'
  BY TypeOKStep
<1>3. QED
  BY <1>1, <1>2, PTL DEF Safety

(* Every step preserves the inductive invariant of the registry.           *)
LEMMA IInvStep ==
  ASSUME TypeOK, IInv, [Next]_vars
  PROVE  IInv'
<1>1. [Next]_vars
  OBVIOUS
<1> USE DEF IInv, NoPanic, MutexInv, RegistryInv, ShutdownInv
<1>2. CASE Cancel
  BY <1>2 DEF Cancel, TypeOK
<1>3. CASE AcceptError
  BY <1>3 DEF AcceptError, ReturnFromServe, Refuse, TypeOK
<1>4. CASE FirstBroadcast
  BY <1>4 DEF FirstBroadcast, TypeOK
<1>5. CASE AcceptAfterClose
  BY <1>5 DEF AcceptAfterClose, ReturnFromServe, Refuse, TypeOK
<1>6. ASSUME NEW c \in Clients, Accept(c) PROVE IInv'
  BY <1>6 DEF Accept, Goto, TypeOK
<1>7. CASE Tick
  BY <1>7 DEF Tick, TypeOK
<1>8. CASE TickerReturns
  BY <1>8 DEF TickerReturns, TypeOK
<1>9. CASE BroadcastLock
  BY <1>9 DEF BroadcastLock, TypeOK
<1>10. CASE BroadcastUnlock
  BY <1>10 DEF BroadcastUnlock, TypeOK
<1>11. ASSUME NEW c \in Clients, BroadcastSend(c) PROVE IInv'
  <2>1. chan[c] \in Seq(Nat) /\ Len(chan[c]) \in Nat
    BY DEF TypeOK
  <2>2. /\ tk = "send" /\ c \in todo /\ todo' = todo \ {c}
        /\ UNCHANGED <<ctxDone, lnClosed, main, tk, sd, mu, head, connVars, peerVars>>
    BY <1>11 DEF BroadcastSend
  <2>3. CASE Len(chan[c]) < Cap
    <3>1. /\ chan' = [chan EXCEPT ![c] = Append(@, head)]
          /\ panicked' = (panicked \/ closed[c])
          /\ UNCHANGED <<clients, closed>>
      BY <1>11, <2>1, <2>3 DEF BroadcastSend
    <3>2. Append(chan[c], head) \in Seq(Nat) /\ Len(Append(chan[c], head)) <= Cap
      BY <2>1, <2>3 DEF TypeOK
    <3>3. QED
      BY <2>2, <3>1, <3>2 DEF TypeOK
  <2>4. CASE ~(Len(chan[c]) < Cap)
    <3>1. DeleteAndClose(c) /\ UNCHANGED chan
      BY <1>11, <2>4 DEF BroadcastSend
    <3>2. QED
      BY <2>2, <3>1 DEF DeleteAndClose, TypeOK
  <2>5. QED
    BY <2>3, <2>4
<1>12. CASE ShutdownListener
  BY <1>12 DEF ShutdownListener, Refuse, TypeOK
<1>13. CASE ShutdownLock
  BY <1>13 DEF ShutdownLock, TypeOK
<1>14. CASE ShutdownUnlock
  BY <1>14 DEF ShutdownUnlock, TypeOK
<1>15. ASSUME NEW c \in Clients, ShutdownClient(c) PROVE IInv'
  BY <1>15 DEF ShutdownClient, DeleteAndClose, TypeOK
<1>16. CASE Stopped
  BY <1>16 DEF Stopped, TypeOK
<1>17. ASSUME NEW c \in Clients, AuthRead(c) PROVE IInv'
  <2>1. CASE token[c] = "good" /\ Goto(c, "auth", "hello")
    BY <1>17, <2>1 DEF AuthRead, Goto, TypeOK
  <2>2. CASE token[c] = "bad" /\ Goto(c, "auth", "close")
    BY <1>17, <2>2 DEF AuthRead, Goto, TypeOK
  <2>3. QED
    BY <1>17, <2>1, <2>2 DEF AuthRead
<1>18. ASSUME NEW c \in Clients, HandshakeFails(c) PROVE IInv'
  <2>1. CASE Goto(c, "auth", "close")
    BY <1>18, <2>1 DEF HandshakeFails, Goto, TypeOK
  <2>2. CASE Goto(c, "hello", "close")
    BY <1>18, <2>2 DEF HandshakeFails, Goto, TypeOK
  <2>3. QED
    BY <1>18, <2>1, <2>2 DEF HandshakeFails
<1>19. ASSUME NEW c \in Clients, HelloWritten(c) PROVE IInv'
  BY <1>19 DEF HelloWritten, Goto, TypeOK
<1>20. ASSUME NEW c \in Clients, RegisterLock(c) PROVE IInv'
  BY <1>20 DEF RegisterLock, Goto, TypeOK
<1>21. ASSUME NEW c \in Clients, RegisterInsert(c) PROVE IInv'
  BY <1>21 DEF RegisterInsert, Goto, TypeOK
<1>22. ASSUME NEW c \in Clients, Receive(c) PROVE IInv'
  BY <1>22 DEF Receive, Goto, TypeOK
<1>23. ASSUME NEW c \in Clients, RangeEnds(c) PROVE IInv'
  BY <1>23 DEF RangeEnds, Goto, TypeOK
<1>24. ASSUME NEW c \in Clients, Written(c) PROVE IInv'
  BY <1>24 DEF Written, Goto, TypeOK
<1>25. ASSUME NEW c \in Clients, WriteFails(c) PROVE IInv'
  BY <1>25 DEF WriteFails, Goto, TypeOK
<1>26. ASSUME NEW c \in Clients, Unregister(c) PROVE IInv'
  BY <1>26 DEF Unregister, Goto, DeleteAndClose, TypeOK
<1>27. ASSUME NEW c \in Clients, CloseConn(c) PROVE IInv'
  BY <1>27 DEF CloseConn, Goto, TypeOK
<1>28. ASSUME NEW c \in Clients, TogglePeer(c) PROVE IInv'
  BY <1>28 DEF TogglePeer, TypeOK
<1>29. ASSUME NEW c \in Clients, NEW t \in {"good", "bad", "silent"}, Connect(c, t) PROVE IInv'
  BY <1>29 DEF Connect, Goto, TypeOK
<1>30. CASE UNCHANGED vars
  BY <1>30 DEF TypeOK
<1>31. QED
  BY <1>2, <1>3, <1>4, <1>5, <1>6, <1>7, <1>8, <1>9, <1>10, <1>11, <1>12, <1>13, <1>14, <1>15, <1>16, <1>17, <1>18, <1>19, <1>20, <1>21, <1>22, <1>23, <1>24, <1>25, <1>26, <1>27, <1>28, <1>29, <1>30, NextCases, <1>1, Zenon

(* The inductive invariant behind the three theorems below: who holds the  *)
(* mutex, what the registry contains and what Serve's shutdown goroutine   *)
(* relies on, in every reachable state.                                    *)
THEOREM RegistryInvariant == Safety => []IInv
<1>1. Init => IInv
  BY DEF Init, IInv, NoPanic, MutexInv, RegistryInv, ShutdownInv
<1>2. TypeOK /\ IInv /\ [Next]_vars => IInv'
  BY IInvStep
<1>3. QED
  BY <1>1, <1>2, TypeCorrect, PTL DEF Safety

(* No interleaving of broadcast, unregister and the shutdown goroutine     *)
(* sends on, or closes, a closed channel.                                  *)
THEOREM ServeNeverPanics == Safety => []NoPanic
<1>1. IInv => NoPanic
  BY DEF IInv
<1>2. QED
  BY <1>1, RegistryInvariant, PTL

(* A streaming handler is reachable: registered, or its channel is closed. *)
THEOREM HandlersReachable == Safety => []NoOrphan
<1>1. IInv => NoOrphan
  BY DEF IInv, RegistryInv, NoOrphan
<1>2. QED
  BY <1>1, RegistryInvariant, PTL

(* Once Serve's shutdown goroutine is done the registry is empty, and no   *)
(* register is between its test of the context and its insertion.          *)
THEOREM ShutdownIsFinal == Safety => []NobodyAfterShutdown
<1>1. IInv => NobodyAfterShutdown
  BY DEF IInv, ShutdownInv, NobodyAfterShutdown
<1>2. QED
  BY <1>1, RegistryInvariant, PTL

-----------------------------------------------------------------------------
(* A queue of consecutive numbers stays one when the next number is        *)
(* appended, and when its first is taken.                                  *)
LEMMA AppendRun ==
  ASSUME NEW q \in Seq(Nat), NEW b \in Int, NEW h \in Int,
         \A i \in 1 .. Len(q) : q[i] = b + i, b + Len(q) = h - 1
  PROVE  /\ \A i \in 1 .. Len(Append(q, h)) : Append(q, h)[i] = b + i
         /\ b + Len(Append(q, h)) = h
<1>1. Len(q) \in Nat /\ Len(Append(q, h)) = Len(q) + 1 /\ Append(q, h)[Len(q) + 1] = h
  OBVIOUS
<1>2. \A i \in 1 .. Len(q) : Append(q, h)[i] = q[i]
  OBVIOUS
<1>3. ASSUME NEW i \in 1 .. Len(Append(q, h)) PROVE Append(q, h)[i] = b + i
  <2>1. CASE i = Len(q) + 1
    BY <1>1, <2>1
  <2>2. CASE i # Len(q) + 1
    <3>1. i \in 1 .. Len(q)
      BY <1>1, <2>2
    <3> QED BY <1>2, <3>1
  <2> QED BY <2>1, <2>2
<1> QED BY <1>1, <1>3

(* What is left of a run when its first element is taken is a run.         *)
LEMMA TailRun ==
  ASSUME NEW q \in Seq(Nat), NEW b \in Int, q # <<>>, \A i \in 1 .. Len(q) : q[i] = b + i
  PROVE  /\ Head(q) = b + 1 /\ Len(Tail(q)) = Len(q) - 1 /\ Len(q) \in Nat
         /\ \A i \in 1 .. Len(Tail(q)) : Tail(q)[i] = b + 1 + i
<1>1. Len(q) \in Nat \ {0} /\ Len(Tail(q)) = Len(q) - 1 /\ Head(q) = q[1]
  OBVIOUS
<1>2. ASSUME NEW i \in 1 .. Len(Tail(q)) PROVE Tail(q)[i] = b + 1 + i
  <2>1. Tail(q)[i] = q[i + 1] /\ i + 1 \in 1 .. Len(q)
    BY <1>1
  <2>2. q[i + 1] = b + (i + 1)
    BY <2>1
  <2> QED BY <2>1, <2>2
<1>3. 1 \in 1 .. Len(q)
  BY <1>1
<1> QED BY <1>1, <1>2, <1>3

(* What a handler's queue holds does not depend on the others.             *)
LEMMA QueueUnmoved ==
  ASSUME NEW d \in Clients, ClientQueue(d), head' = head,
         next'[d] = next[d], chan'[d] = chan[d], pc'[d] = pc[d], frame'[d] = frame[d],
         d \in clients' => d \in clients, d \in todo' <=> d \in todo
  PROVE  ClientQueue(d)'
BY DEF ClientQueue, Queued, InHand

(* A handler that has not begun to stream, or is past it.                  *)
LEMMA QueueIdle ==
  ASSUME NEW d \in Clients, ClientQueue(d), pc[d] \notin Streaming \cup {"unregister"},
         next'[d] = next[d], chan'[d] = chan[d],
         pc'[d] \notin Streaming \cup {"unregister"},
         pc'[d] \in Before => pc[d] \in Before
  PROVE  ClientQueue(d)'
BY DEF ClientQueue

(* The steps that touch no queue.                                          *)
LEMMA QueuesUntouched ==
  ASSUME QueueInv, UNCHANGED <<head, next, chan, pc, frame, todo>>, clients' \subseteq clients
  PROVE  \A d \in Clients : ClientQueue(d)'
<1> SUFFICES ASSUME NEW d \in Clients PROVE ClientQueue(d)'
  OBVIOUS
<1>1. ClientQueue(d)
  BY DEF QueueInv
<1> QED BY <1>1, QueueUnmoved

(* Refuse only touches connections that nobody has accepted.               *)
LEMMA RefuseQueues ==
  ASSUME TypeOK, QueueInv, Refuse, UNCHANGED <<head, next, chan, frame, todo, clients>>
  PROVE  \A d \in Clients : ClientQueue(d)'
<1> SUFFICES ASSUME NEW d \in Clients PROVE ClientQueue(d)'
  OBVIOUS
<1>1. ClientQueue(d)
  BY DEF QueueInv
<1>2. pc'[d] = IF pc[d] = "backlog" THEN "refused" ELSE pc[d]
  BY DEF Refuse
<1>3. CASE pc[d] = "backlog"
  BY <1>1, <1>2, <1>3, QueueIdle
<1>4. CASE pc[d] # "backlog"
  BY <1>1, <1>2, <1>4, QueueUnmoved
<1> QED BY <1>3, <1>4

(* A step of one handler that is not streaming.                            *)
LEMMA HandlerIdle ==
  ASSUME TypeOK, QueueInv, NEW c \in Clients, NEW from, NEW to, Goto(c, from, to),
         from \notin Streaming \cup {"unregister"}, to \notin Streaming \cup {"unregister"},
         to \in Before => from \in Before,
         UNCHANGED <<head, next, chan, frame, todo, clients>>
  PROVE  \A d \in Clients : ClientQueue(d)'
<1> SUFFICES ASSUME NEW d \in Clients PROVE ClientQueue(d)'
  OBVIOUS
<1>1. ClientQueue(d)
  BY DEF QueueInv
<1>2. pc[c] = from /\ pc' = [pc EXCEPT ![c] = to] /\ pc \in [Clients -> Before \cup Streaming \cup After]
  BY DEF Goto, TypeOK
<1>3. CASE d = c
  BY <1>1, <1>2, <1>3, QueueIdle
<1>4. CASE d # c
  BY <1>1, <1>2, <1>4, QueueUnmoved
<1> QED BY <1>3, <1>4

(* Every step preserves what is known of the queues.                       *)
LEMMA QueuesStep ==
  ASSUME TypeOK, IInv, QueueInv, [Next]_vars
  PROVE  \A d \in Clients : ClientQueue(d)'
<1> USE DEF IInv, RegistryInv, MutexInv
<1>1. CASE \/ Cancel \/ Tick \/ TickerReturns \/ BroadcastUnlock \/ ShutdownLock \/ ShutdownUnlock
            \/ Stopped \/ UNCHANGED vars
  BY <1>1, QueuesUntouched
     DEF Cancel, Tick, TickerReturns, BroadcastUnlock, ShutdownLock, ShutdownUnlock, Stopped
<1>2. CASE AcceptError \/ AcceptAfterClose \/ ShutdownListener
  BY <1>2, RefuseQueues DEF AcceptError, AcceptAfterClose, ReturnFromServe, ShutdownListener
<1>3. CASE FirstBroadcast
  <2>1. /\ head' = head + 1 /\ UNCHANGED <<next, chan, pc, frame, clients>>
        /\ \A d \in Clients : pc[d] \in {"absent", "backlog", "refused"}
    BY <1>3 DEF FirstBroadcast, QueueInv
  <2> QED BY <2>1, QueueIdle DEF QueueInv
<1>4. CASE BroadcastLock
  <2>1. /\ head' = head + 1 /\ todo' = clients /\ UNCHANGED <<next, chan, pc, frame, clients>>
        /\ todo = {}
    BY <1>4 DEF BroadcastLock
  <2> SUFFICES ASSUME NEW d \in Clients PROVE ClientQueue(d)'
    OBVIOUS
  <2>2. ClientQueue(d) /\ head \in Nat
    BY DEF QueueInv, TypeOK
  <2> QED BY <2>1, <2>2 DEF ClientQueue, Queued, InHand
<1>5. ASSUME NEW c \in Clients, BroadcastSend(c) PROVE \A d \in Clients : ClientQueue(d)'
  <2> SUFFICES ASSUME NEW d \in Clients PROVE ClientQueue(d)'
    OBVIOUS
  <2>1. /\ c \in todo /\ c \in clients /\ todo' = todo \ {c} /\ ClientQueue(d)
        /\ UNCHANGED <<head, next, pc, frame>>
        /\ chan[c] \in Seq(Nat) /\ head \in Nat /\ next[c] \in Nat
    BY <1>5 DEF BroadcastSend, QueueInv, TypeOK
  <2>2. CASE Len(chan[c]) < Cap
    <3>1. chan' = [chan EXCEPT ![c] = Append(@, head)] /\ clients' = clients
      BY <1>5, <2>1, <2>2 DEF BroadcastSend
    <3>2. CASE d = c
      <4>1. chan'[c] = Append(chan[c], head) /\ Len(chan'[c]) = Len(chan[c]) + 1
        BY <3>1, <2>1 DEF TypeOK
      <4>2. \A i \in 1 .. Len(chan[c]) : chan'[c][i] = chan[c][i]
        BY <4>1, <2>1
      <4>3. chan'[c][Len(chan[c]) + 1] = head
        BY <4>1, <2>1
      <4>4. pc[c] \notin Before
        BY <2>1
      <4>5. /\ pc[c] \in Streaming \cup {"unregister"} => next[c] # 0
            /\ pc[c] = "write" => frame[c] = next[c]
        BY <2>1, <3>2 DEF ClientQueue
      <4>6. ASSUME pc[c] \in Streaming
            PROVE  /\ \A i \in 1 .. Len(chan'[c]) : chan'[c][i] = next[c] - 1 + InHand(c) + i
                   /\ next[c] - 1 + InHand(c) + Len(chan'[c]) = head
        <5>1. /\ \A i \in 1 .. Len(chan[c]) : chan[c][i] = next[c] - 1 + InHand(c) + i
              /\ next[c] - 1 + InHand(c) + Len(chan[c]) = head - 1
          BY <2>1, <3>2, <4>6 DEF ClientQueue, Queued
        <5>2. next[c] - 1 + InHand(c) \in Int
          BY <2>1 DEF InHand
        <5> DEFINE base == next[c] - 1 + InHand(c)
        <5>3. base \in Int /\ \A i \in 1 .. Len(chan[c]) : chan[c][i] = base + i
          BY <5>1, <5>2
        <5>4. base + Len(chan[c]) = head - 1
          BY <5>1
        <5> HIDE DEF base
        <5>5. /\ \A i \in 1 .. Len(Append(chan[c], head)) : Append(chan[c], head)[i] = base + i
              /\ base + Len(Append(chan[c], head)) = head
          BY <2>1, <5>3, <5>4, AppendRun
        <5> QED BY <4>1, <5>5 DEF base
      <4>7. InHand(c)' = InHand(c)
        BY <2>1 DEF InHand
      <4> HIDE DEF InHand
      <4>8. c \notin todo'
        BY <2>1
      <4> QED BY <2>1, <3>2, <4>4, <4>5, <4>6, <4>7, <4>8 DEF ClientQueue, Queued
    <3>3. CASE d # c
      BY <2>1, <3>1, <3>3, QueueUnmoved
    <3> QED BY <3>2, <3>3
  <2>3. CASE ~(Len(chan[c]) < Cap)
    <3>1. chan' = chan /\ clients' = clients \ {c}
      BY <1>5, <2>1, <2>3 DEF BroadcastSend, DeleteAndClose
    <3>2. CASE d = c
      BY <2>1, <3>1, <3>2 DEF ClientQueue, InHand
    <3>3. CASE d # c
      BY <2>1, <3>1, <3>3, QueueUnmoved
    <3> QED BY <3>2, <3>3
  <2> QED BY <2>2, <2>3
<1>6. ASSUME NEW c \in Clients, ShutdownClient(c) PROVE \A d \in Clients : ClientQueue(d)'
  BY <1>6, QueuesUntouched DEF ShutdownClient, DeleteAndClose
<1>7. ASSUME NEW c \in Clients, Connect(c, "good") \/ Connect(c, "bad") \/ Connect(c, "silent")
      PROVE  \A d \in Clients : ClientQueue(d)'
  <2>1. Goto(c, "absent", "backlog") /\ UNCHANGED <<head, next, chan, frame, todo, clients>>
    BY <1>7 DEF Connect
  <2> QED BY <2>1, HandlerIdle
<1>8. ASSUME NEW c \in Clients,
             Accept(c) \/ AuthRead(c) \/ HandshakeFails(c) \/ HelloWritten(c) \/ RegisterLock(c) \/ CloseConn(c)
      PROVE  \A d \in Clients : ClientQueue(d)'
  <2>1. /\ \/ Goto(c, "backlog", "auth") \/ Goto(c, "auth", "hello") \/ Goto(c, "auth", "close")
           \/ Goto(c, "hello", "close") \/ Goto(c, "hello", "register")
           \/ Goto(c, "register", "close") \/ Goto(c, "register", "insert") \/ Goto(c, "close", "done")
        /\ UNCHANGED <<head, next, chan, frame, todo, clients>>
    BY <1>8 DEF Accept, AuthRead, HandshakeFails, HelloWritten, RegisterLock, CloseConn
  <2>2. CASE Goto(c, "backlog", "auth")
    BY <2>1, <2>2, HandlerIdle
  <2>3. CASE Goto(c, "auth", "hello")
    BY <2>1, <2>3, HandlerIdle
  <2>4. CASE Goto(c, "auth", "close")
    BY <2>1, <2>4, HandlerIdle
  <2>5. CASE Goto(c, "hello", "close")
    BY <2>1, <2>5, HandlerIdle
  <2>6. CASE Goto(c, "hello", "register")
    BY <2>1, <2>6, HandlerIdle
  <2>7. CASE Goto(c, "register", "close")
    BY <2>1, <2>7, HandlerIdle
  <2>8. CASE Goto(c, "register", "insert")
    BY <2>1, <2>8, HandlerIdle
  <2>9. CASE Goto(c, "close", "done")
    BY <2>1, <2>9, HandlerIdle
  <2> QED BY <2>1, <2>2, <2>3, <2>4, <2>5, <2>6, <2>7, <2>8, <2>9
<1>9. ASSUME NEW c \in Clients, TogglePeer(c) PROVE \A d \in Clients : ClientQueue(d)'
  BY <1>9, QueuesUntouched DEF TogglePeer
<1>10. ASSUME NEW c \in Clients,
              RegisterInsert(c) \/ Receive(c) \/ RangeEnds(c) \/ Written(c) \/ WriteFails(c) \/ Unregister(c)
       PROVE  \A d \in Clients : ClientQueue(d)'
  <2> SUFFICES ASSUME NEW d \in Clients PROVE ClientQueue(d)'
    OBVIOUS
  <2>1. ClientQueue(d) /\ head' = head /\ todo' = todo /\ head \in Nat /\ next[c] \in Nat /\ chan[c] \in Seq(Nat)
    BY <1>10 DEF RegisterInsert, Receive, RangeEnds, Written, WriteFails, Unregister, QueueInv, TypeOK
  <2>2. CASE d # c
    <3>1. /\ next'[d] = next[d] /\ chan'[d] = chan[d] /\ pc'[d] = pc[d] /\ frame'[d] = frame[d]
          /\ d \in clients' => d \in clients
      BY <1>10, <2>2 DEF RegisterInsert, Receive, RangeEnds, Written, WriteFails, Unregister, Goto,
                        DeleteAndClose, TypeOK
    <3> QED BY <2>1, <3>1, QueueUnmoved
  <2>3. CASE d = c
    <3>1. CASE RegisterInsert(c)
      <4>1. /\ pc[c] = "insert" /\ pc'[c] = "range" /\ next'[c] = head + 1 /\ chan'[c] = <<>>
            /\ c \notin todo
        BY <2>1, <2>3, <3>1 DEF RegisterInsert, Goto, TypeOK, ClientQueue
      <4>2. Len(chan'[c]) = 0 /\ InHand(c)' = 0
        BY <4>1 DEF InHand
      <4>3. next'[c] # 0 /\ next'[c] - 1 + 0 + 0 = head'
        BY <2>1, <4>1
      <4>4. c \notin todo' /\ pc'[c] \notin Before /\ pc'[c] # "write"
        BY <2>1, <4>1
      <4> QED BY <2>3, <4>2, <4>3, <4>4 DEF ClientQueue, Queued
    <3>2. CASE Receive(c)
      <4>1. /\ pc[c] = "range" /\ pc'[c] = "write" /\ frame'[c] = Head(chan[c]) /\ chan'[c] = Tail(chan[c])
            /\ next'[c] = next[c] /\ clients' = clients /\ chan[c] # <<>>
        BY <3>2 DEF Receive, Goto, TypeOK
      <4>2. ClientQueue(c) /\ InHand(c) = 0
        BY <2>1, <2>3, <4>1 DEF InHand
      <4>3. next[c] - 1 \in Int /\ \A i \in 1 .. Len(chan[c]) : chan[c][i] = next[c] - 1 + i
        BY <2>1, <4>1, <4>2 DEF ClientQueue
      <4>4. /\ Head(chan[c]) = next[c] - 1 + 1
            /\ Len(Tail(chan[c])) = Len(chan[c]) - 1 /\ Len(chan[c]) \in Nat
            /\ \A i \in 1 .. Len(Tail(chan[c])) : Tail(chan[c])[i] = next[c] - 1 + 1 + i
        BY <2>1, <4>1, <4>3, TailRun
      <4>5. Head(chan[c]) = next[c]
        BY <2>1, <4>4
      <4>7. InHand(c) = 0 /\ InHand(c)' = 1
        BY <4>1 DEF InHand
      <4>8. next[c] # 0 /\ frame'[c] = next[c] /\ pc'[c] \notin Before
        BY <4>1, <4>2, <4>5 DEF ClientQueue
      <4>9. c \in clients => next[c] - 1 + Len(chan[c]) = IF c \in todo THEN head - 1 ELSE head
        BY <2>1, <4>1, <4>2, <4>4 DEF ClientQueue, Queued
      <4>10. \A i \in 1 .. Len(chan'[c]) : chan'[c][i] = next'[c] - 1 + 1 + i
        BY <4>1, <4>4
      <4>11. c \in clients' => next'[c] - 1 + 1 + Len(chan'[c]) = IF c \in todo' THEN head' - 1 ELSE head'
        BY <2>1, <4>1, <4>4, <4>9
      <4> QED BY <2>3, <4>1, <4>7, <4>8, <4>10, <4>11 DEF ClientQueue, Queued
    <3>3. CASE Written(c)
      <4>1. /\ pc[c] = "write" /\ pc'[c] = "range" /\ next'[c] = frame[c] + 1 /\ chan'[c] = chan[c]
            /\ clients' = clients
        BY <3>3 DEF Written, Goto, TypeOK
      <4>2. frame[c] = next[c] /\ next[c] # 0
        BY <2>1, <2>3, <4>1 DEF ClientQueue
      <4>3. /\ \A i \in 1 .. Len(chan[c]) : chan[c][i] = next[c] - 1 + 1 + i
            /\ c \in clients => next[c] - 1 + 1 + Len(chan[c]) = IF c \in todo THEN head - 1 ELSE head
        BY <2>1, <2>3, <4>1 DEF ClientQueue, Queued, InHand
      <4>4. InHand(c)' = 0 /\ Len(chan[c]) \in Nat
        BY <2>1, <4>1 DEF InHand
      <4>5. /\ next'[c] # 0 /\ pc'[c] \notin Before /\ pc'[c] # "write"
            /\ next'[c] = next[c] + 1
        BY <2>1, <4>1, <4>2
      <4>6. \A i \in 1 .. Len(chan'[c]) : chan'[c][i] = next'[c] - 1 + 0 + i
        <5>1. next'[c] - 1 + 0 = next[c] - 1 + 1
          BY <2>1, <4>5
        <5> QED BY <4>1, <4>3, <5>1
      <4>7. c \in clients' => next'[c] - 1 + 0 + Len(chan'[c]) = IF c \in todo' THEN head' - 1 ELSE head'
        BY <2>1, <4>1, <4>3, <4>4, <4>5
      <4> QED BY <2>3, <4>4, <4>5, <4>6, <4>7 DEF ClientQueue, Queued
    <3>4. CASE RangeEnds(c) \/ WriteFails(c)
      <4>1. pc'[c] = "unregister" /\ pc[c] \in Streaming /\ next'[c] = next[c]
        BY <3>4 DEF RangeEnds, WriteFails, Goto, TypeOK
      <4> QED BY <2>1, <2>3, <4>1 DEF ClientQueue
    <3>5. CASE Unregister(c)
      <4>1. pc'[c] = "close"
        BY <3>5 DEF Unregister, Goto, TypeOK
      <4> QED BY <2>3, <4>1 DEF ClientQueue
    <3> QED BY <1>10, <3>1, <3>2, <3>3, <3>4, <3>5
  <2> QED BY <2>2, <2>3
<1>11. QED
  BY <1>1, <1>2, <1>3, <1>4, <1>5, <1>6, <1>7, <1>8, <1>9, <1>10, NextCases, Zenon

(* Until Serve has taken its first sample nobody has been accepted.        *)
LEMMA FirstStep ==
  ASSUME TypeOK, IInv, QueueInv, [Next]_vars, main' = "first"
  PROVE  tk' = "unstarted" /\ \A d \in Clients : pc'[d] \in {"absent", "backlog", "refused"}
<1> DEFINE Idle == {"absent", "backlog", "refused"}
<1>1. main = "first"
  <2>1. ASSUME NEW c \in Clients, Handler(c) \/ Peer(c) PROVE main' = main
    BY <2>1 DEF Handler, Peer, AuthRead, HandshakeFails, HelloWritten, RegisterLock, RegisterInsert,
       Receive, RangeEnds, Written, WriteFails, Unregister, CloseConn, TogglePeer, Connect
  <2>2. ASSUME Ticker \/ Shutdown \/ Cancel \/ Stopped \/ UNCHANGED vars PROVE main' = main
    BY <2>2 DEF Ticker, Shutdown, Cancel, Stopped, Tick, TickerReturns, BroadcastLock, BroadcastSend,
       BroadcastUnlock, ShutdownListener, ShutdownLock, ShutdownClient, ShutdownUnlock
  <2>3. ASSUME AcceptError \/ Main PROVE main = "first"
    BY <2>3 DEF AcceptError, Main, FirstBroadcast, AcceptAfterClose, ReturnFromServe, Accept
  <2> QED BY <2>1, <2>2, <2>3 DEF Next
<1>2. tk = "unstarted" /\ sd \in {"waiting", "lock", "closing", "done"} /\ \A d \in Clients : pc[d] \in Idle
  BY <1>1 DEF QueueInv, TypeOK
<1>3. clients = {} /\ todo = {}
  BY <1>2 DEF IInv, RegistryInv, TypeOK
<1>4. CASE \E c \in Clients : Handler(c)
  <2>1. PICK c \in Clients : Handler(c)
    BY <1>4
  <2>2. pc[c] \notin Idle
    BY <2>1 DEF Handler, AuthRead, HandshakeFails, HelloWritten, RegisterLock, RegisterInsert,
       Receive, RangeEnds, Written, WriteFails, Unregister, CloseConn, Goto
  <2> QED BY <1>2, <2>2
<1>5. CASE \E c \in Clients : Peer(c)
  <2>1. PICK c \in Clients : Peer(c)
    BY <1>5
  <2>2. tk' = tk /\ (pc' = pc \/ pc' = [pc EXCEPT ![c] = "backlog"])
    BY <2>1 DEF Peer, TogglePeer, Connect, Goto
  <2>3. \A d \in Clients : pc'[d] \in {pc[d], "backlog"}
    BY <2>2 DEF TypeOK
  <2> QED BY <1>2, <2>2, <2>3
<1>6. CASE Main \/ AcceptError
  BY <1>1, <1>6 DEF Main, AcceptError, FirstBroadcast, AcceptAfterClose, ReturnFromServe, Accept
<1>7. CASE Ticker
  BY <1>2, <1>3, <1>7 DEF Ticker, Tick, TickerReturns, BroadcastLock, BroadcastSend, BroadcastUnlock
<1>8. CASE Shutdown
  BY <1>2, <1>8 DEF Shutdown, ShutdownListener, ShutdownLock, ShutdownClient, ShutdownUnlock, Refuse
<1>9. CASE Cancel \/ Stopped \/ UNCHANGED vars
  BY <1>2, <1>9 DEF Cancel, Stopped
<1> QED BY <1>4, <1>5, <1>6, <1>7, <1>8, <1>9 DEF Next

(* A channel holds exactly the broadcasts that follow the one in hand.     *)
THEOREM QueuesAreRuns == Safety => []QueueInv
<1>1. Init => QueueInv
  BY DEF Init, QueueInv, ClientQueue
<1>2. TypeOK /\ IInv /\ QueueInv /\ [Next]_vars => QueueInv'
  BY QueuesStep, FirstStep DEF QueueInv
<1> QED
  BY <1>1, <1>2, TypeCorrect, RegistryInvariant, PTL DEF Safety

(* What the abstract feed sees of a connection.                            *)
FeedModes == [c \in Clients |-> Mode(c)]
FeedUpto == [c \in Clients |-> Upto(c)]
FeedOpen == sd \in {"waiting", "lock"}

(* A connection that a step leaves alone.                                  *)
LEMMA SameView ==
  ASSUME NEW d \in Clients, next'[d] = next[d], pc'[d] = pc[d],
         d \in clients' <=> d \in clients, chan'[d] = chan[d] \/ d \in clients
  PROVE  Mode(d)' = Mode(d) /\ Upto(d)' = Upto(d)
BY DEF Mode, Upto, Queued, InHand

(* A connection that has not been registered, or that has been let go and  *)
(* is past its stream: only the registry and the handler's progress count. *)
LEMMA OutView ==
  ASSUME NEW d \in Clients, next[d] = 0, next'[d] = 0
  PROVE  Mode(d)' = Mode(d) /\ Upto(d)' = Upto(d)
BY DEF Mode, Upto

(* A step that changes one connection's view changes the two functions at  *)
(* that connection only.                                                   *)
LEMMA ViewsStutter ==
  ASSUME \A d \in Clients : Mode(d)' = Mode(d) /\ Upto(d)' = Upto(d)
  PROVE  FeedModes' = FeedModes /\ FeedUpto' = FeedUpto
BY DEF FeedModes, FeedUpto

(* A step that changes only one connection's view.                         *)
LEMMA ViewsExcept ==
  ASSUME NEW c \in Clients, NEW m, NEW u, Mode(c)' = m, Upto(c)' = u,
         \A d \in Clients \ {c} : Mode(d)' = Mode(d) /\ Upto(d)' = Upto(d)
  PROVE  FeedModes' = [FeedModes EXCEPT ![c] = m] /\ FeedUpto' = [FeedUpto EXCEPT ![c] = u]
BY DEF FeedModes, FeedUpto

(* Every step of the server is a step of the feed, or none.                *)
LEMMA FeedStep ==
  ASSUME TypeOK, IInv, QueueInv, [Next]_vars
  PROVE  [Feed!Next]_(Feed!feedVars)
<1> USE DEF IInv, RegistryInv, MutexInv
<1> DEFINE Same(d) == Mode(d)' = Mode(d) /\ Upto(d)' = Upto(d)
           Stutter == UNCHANGED <<head, FeedOpen, FeedModes, next, FeedUpto>>
<1>s. ASSUME Stutter PROVE [Feed!Next]_(Feed!feedVars)
  BY <1>s DEF Feed!feedVars, FeedModes, FeedUpto, FeedOpen
<1>q. \A d \in Clients : ClientQueue(d)
  BY DEF QueueInv
<1>1. CASE \/ Cancel \/ Tick \/ TickerReturns \/ BroadcastUnlock \/ ShutdownUnlock
            \/ Stopped \/ UNCHANGED vars
  <2>1. /\ UNCHANGED <<head, next, pc, clients, chan>>
        /\ FeedOpen' = FeedOpen
    BY <1>1 DEF Cancel, Tick, TickerReturns, BroadcastUnlock, ShutdownUnlock, Stopped, FeedOpen
  <2>2. \A d \in Clients : Same(d)
    BY <2>1, SameView
  <2> QED BY <2>1, <2>2, <1>s, ViewsStutter
<1>2. CASE AcceptError \/ AcceptAfterClose \/ ShutdownListener
  <2>1. /\ UNCHANGED <<head, next, clients, chan>> /\ FeedOpen' = FeedOpen /\ Refuse
    BY <1>2 DEF AcceptError, AcceptAfterClose, ReturnFromServe, ShutdownListener, FeedOpen
  <2>2. ASSUME NEW d \in Clients PROVE Same(d)
    <3>1. CASE pc[d] = "backlog"
      BY <1>q, <2>1, <3>1, OutView DEF ClientQueue
    <3>2. CASE pc[d] # "backlog"
      BY <2>1, <3>2, SameView DEF Refuse
    <3> QED BY <3>1, <3>2
  <2> QED BY <2>1, <2>2, <1>s, ViewsStutter
<1>3. CASE FirstBroadcast \/ BroadcastLock
  <2>1. /\ UNCHANGED <<next, pc, clients, chan>> /\ FeedOpen' = FeedOpen /\ head' = head + 1
    BY <1>3 DEF FirstBroadcast, BroadcastLock, FeedOpen
  <2>2. \A d \in Clients : Same(d)
    BY <2>1, SameView
  <2>3. FeedModes' = FeedModes /\ FeedUpto' = FeedUpto
    BY <2>2, ViewsStutter
  <2>4. Feed!Publish
    BY <2>1, <2>3 DEF Feed!Publish, FeedModes, FeedUpto, FeedOpen
  <2> QED BY <2>4 DEF Feed!Next
<1>4. CASE ShutdownLock
  <2>1. /\ UNCHANGED <<head, next, pc, clients, chan>> /\ FeedOpen /\ ~FeedOpen'
    BY <1>4 DEF ShutdownLock, FeedOpen
  <2>2. \A d \in Clients : Same(d)
    BY <2>1, SameView
  <2>3. FeedModes' = FeedModes /\ FeedUpto' = FeedUpto
    BY <2>2, ViewsStutter
  <2>4. Feed!Shut
    BY <2>1, <2>3 DEF Feed!Shut, FeedModes, FeedUpto, FeedOpen
  <2> QED BY <2>4 DEF Feed!Next
<1>5. ASSUME NEW c \in Clients, NEW from, NEW to, Goto(c, from, to),
             from \in Before \cup After, to \in Before \cup After, to \in Before => from \in Before,
             c \in clients => from = "unregister", from \in Before \/ to # from,
             from # "unregister",
             UNCHANGED <<head, next, clients, chan, sd>>
      PROVE  [Feed!Next]_(Feed!feedVars)
  <2>1. pc[c] = from /\ pc'[c] = to /\ \A d \in Clients \ {c} : pc'[d] = pc[d]
    BY <1>5 DEF Goto, TypeOK
  <2>2. ASSUME NEW d \in Clients PROVE Same(d)
    <3>1. CASE d # c
      BY <1>5, <2>1, <3>1, SameView
    <3>2. CASE d = c /\ from \in Before
      BY <1>5, <1>q, <2>1, <3>2, OutView DEF ClientQueue
    <3>3. CASE d = c /\ from \notin Before
      <4>1. from \in After /\ to \in After /\ c \notin clients
        BY <1>5, <2>1, <3>3
      <4> QED BY <1>5, <2>1, <3>3, <4>1 DEF Mode, Upto
    <3> QED BY <3>1, <3>2, <3>3
  <2> QED BY <1>5, <2>2, <1>s, ViewsStutter DEF FeedOpen
<1>6. ASSUME NEW c \in Clients,
             Accept(c) \/ AuthRead(c) \/ HandshakeFails(c) \/ HelloWritten(c) \/ RegisterLock(c) \/ CloseConn(c)
               \/ Connect(c, "good") \/ Connect(c, "bad") \/ Connect(c, "silent")
      PROVE  [Feed!Next]_(Feed!feedVars)
  <2>1. UNCHANGED <<head, next, clients, chan, sd>>
    BY <1>6 DEF Accept, AuthRead, HandshakeFails, HelloWritten, RegisterLock, CloseConn, Connect
  <2>2. \/ Goto(c, "backlog", "auth") \/ Goto(c, "auth", "hello") \/ Goto(c, "auth", "close")
        \/ Goto(c, "hello", "close") \/ Goto(c, "hello", "register")
        \/ Goto(c, "register", "close") \/ Goto(c, "register", "insert") \/ Goto(c, "close", "done")
        \/ Goto(c, "absent", "backlog")
    BY <1>6 DEF Accept, AuthRead, HandshakeFails, HelloWritten, RegisterLock, CloseConn, Connect
  <2>3. c \in clients => pc[c] \in Streaming \cup {"unregister"}
    OBVIOUS
  <2> DEFINE Moves == {<<"backlog", "auth">>, <<"auth", "hello">>, <<"auth", "close">>, <<"hello", "close">>,
                       <<"hello", "register">>, <<"register", "close">>, <<"register", "insert">>,
                       <<"close", "done">>, <<"absent", "backlog">>}
  <2>4. PICK move \in Moves : Goto(c, move[1], move[2])
    BY <2>2
  <2>5. /\ move[1] \in Before \cup After /\ move[2] \in Before \cup After
        /\ move[2] \in Before => move[1] \in Before
        /\ move[1] \notin Streaming \cup {"unregister"} /\ move[2] # move[1]
    OBVIOUS
  <2>6. c \notin clients
    BY <2>3, <2>4, <2>5 DEF Goto
  <2> HIDE DEF Moves
  <2> QED BY <1>5, <2>1, <2>4, <2>5, <2>6
<1>7. ASSUME NEW c \in Clients, TogglePeer(c) PROVE [Feed!Next]_(Feed!feedVars)
  <2>1. UNCHANGED <<head, next, pc, clients, chan>> /\ FeedOpen' = FeedOpen
    BY <1>7 DEF TogglePeer, FeedOpen
  <2>2. \A d \in Clients : Same(d)
    BY <2>1, SameView
  <2> QED BY <2>1, <2>2, <1>s, ViewsStutter
<1>8. ASSUME NEW c \in Clients, RegisterInsert(c) PROVE [Feed!Next]_(Feed!feedVars)
  <2>1. /\ pc[c] = "insert" /\ pc'[c] = "range" /\ \A d \in Clients \ {c} : pc'[d] = pc[d]
        /\ clients' = clients \cup {c} /\ next' = [next EXCEPT ![c] = head + 1]
        /\ UNCHANGED <<head, sd, chan>> /\ head \in Nat /\ next \in [Clients -> Nat]
    BY <1>8 DEF RegisterInsert, Goto, TypeOK
  <2>2. FeedOpen /\ FeedOpen'
    BY <2>1 DEF FeedOpen, ShutdownInv
  <2>3. next[c] = 0 /\ next'[c] # 0
    BY <1>q, <2>1 DEF ClientQueue
  <2>4. Mode(c) = "out" /\ Mode(c)' = "in" /\ Upto(c) = 0 /\ Upto(c)' = 0
    BY <2>1, <2>3 DEF Mode, Upto
  <2>5. \A d \in Clients \ {c} : Same(d)
    BY <2>1, SameView
  <2>6. FeedModes' = [FeedModes EXCEPT ![c] = "in"] /\ FeedUpto' = [FeedUpto EXCEPT ![c] = 0]
    BY <2>4, <2>5, ViewsExcept
  <2>7. FeedModes[c] = "out" /\ FeedUpto' = FeedUpto
    BY <2>4, <2>6 DEF FeedModes, FeedUpto
  <2>8. Feed!Subscribe(c)
    BY <2>1, <2>2, <2>6, <2>7 DEF Feed!Subscribe, FeedModes, FeedUpto, FeedOpen
  <2> QED BY <2>8 DEF Feed!Next
<1>9. ASSUME NEW c \in Clients, Receive(c) PROVE [Feed!Next]_(Feed!feedVars)
  <2>1. /\ pc[c] = "range" /\ pc'[c] = "write" /\ \A d \in Clients \ {c} : pc'[d] = pc[d]
        /\ chan[c] # <<>> /\ chan'[c] = Tail(chan[c]) /\ \A d \in Clients \ {c} : chan'[d] = chan[d]
        /\ UNCHANGED <<head, sd, clients, next>> /\ chan[c] \in Seq(Nat) /\ next[c] \in Nat
    BY <1>9 DEF Receive, Goto, TypeOK
  <2>2. Len(chan'[c]) = Len(chan[c]) - 1 /\ Len(chan[c]) \in Nat
    BY <2>1
  <2>3. Queued(c)' = Queued(c)
    BY <2>1, <2>2 DEF Queued, InHand
  <2>4. Same(c)
    BY <2>1, <2>3 DEF Mode, Upto
  <2>5. \A d \in Clients \ {c} : Same(d)
    BY <2>1, SameView
  <2> QED BY <2>1, <2>4, <2>5, <1>s, ViewsStutter DEF FeedOpen
<1>10. ASSUME NEW c \in Clients, Written(c) PROVE [Feed!Next]_(Feed!feedVars)
  <2>1. /\ pc[c] = "write" /\ pc'[c] = "range" /\ \A d \in Clients \ {c} : pc'[d] = pc[d]
        /\ next' = [next EXCEPT ![c] = frame[c] + 1]
        /\ UNCHANGED <<head, sd, clients, chan>> /\ chan[c] \in Seq(Nat)
        /\ next[c] \in Nat /\ head \in Nat /\ next \in [Clients -> Nat]
    BY <1>10 DEF Written, Goto, TypeOK
  <2>2. frame[c] = next[c] /\ next[c] # 0 /\ next'[c] = next[c] + 1 /\ Len(chan[c]) \in Nat
    BY <1>q, <2>1 DEF ClientQueue
  <2>3. Queued(c)' = Queued(c) /\ next[c] <= Queued(c)
    BY <2>1, <2>2 DEF Queued, InHand
  <2>4. Same(c)
    BY <2>1, <2>2, <2>3 DEF Mode, Upto
  <2>5. \A d \in Clients \ {c} : Same(d)
    BY <2>1, SameView
  <2>6. FeedModes' = FeedModes /\ FeedUpto' = FeedUpto
    BY <2>4, <2>5, ViewsStutter
  <2>7. \/ FeedModes[c] = "in" /\ next[c] <= head
        \/ FeedModes[c] = "ending" /\ next[c] <= FeedUpto[c]
    <3>1. CASE c \in clients
      <4>1. Queued(c) = IF c \in todo THEN head - 1 ELSE head
        BY <1>q, <2>1, <3>1 DEF ClientQueue
      <4>2. next[c] <= head
        BY <2>1, <2>3, <4>1
      <4> QED BY <2>2, <3>1, <4>2 DEF Mode, FeedModes
    <3>2. CASE c \notin clients
      BY <2>1, <2>2, <2>3, <3>2 DEF Mode, Upto, FeedModes, FeedUpto
    <3> QED BY <3>1, <3>2
  <2>8. Feed!Deliver(c)
    BY <2>1, <2>2, <2>6, <2>7 DEF Feed!Deliver, FeedModes, FeedUpto, FeedOpen
  <2> QED BY <2>8 DEF Feed!Next
<1>11. ASSUME NEW c \in Clients, UNCHANGED <<head, next, sd>>, next[c] # 0,
              Mode(c) \in {"in", "ending"}, Mode(c)' = "ended",
              \A d \in Clients \ {c} : Same(d)
       PROVE  [Feed!Next]_(Feed!feedVars)
  <2>1. Upto(c)' = 0
    BY <1>11 DEF Upto
  <2>2. FeedModes' = [FeedModes EXCEPT ![c] = "ended"] /\ FeedUpto' = [FeedUpto EXCEPT ![c] = 0]
    BY <1>11, <2>1, ViewsExcept
  <2>3. FeedModes[c] \in {"in", "ending"}
    BY <1>11 DEF FeedModes
  <2>4. Feed!End(c)
    BY <1>11, <2>2, <2>3 DEF Feed!End, FeedModes, FeedUpto, FeedOpen
  <2> QED BY <2>4 DEF Feed!Next
<1>12. ASSUME NEW c \in Clients, RangeEnds(c) \/ WriteFails(c) PROVE [Feed!Next]_(Feed!feedVars)
  <2>1. /\ pc[c] \in Streaming /\ pc'[c] = "unregister" /\ \A d \in Clients \ {c} : pc'[d] = pc[d]
        /\ UNCHANGED <<head, sd, clients, next, chan>>
    BY <1>12 DEF RangeEnds, WriteFails, Goto, TypeOK
  <2>2. next[c] # 0
    BY <1>q, <2>1 DEF ClientQueue
  <2>3. \A d \in Clients \ {c} : Same(d)
    BY <2>1, SameView
  <2>4. CASE c \in clients
    <3>1. Same(c)
      BY <2>1, <2>2, <2>4 DEF Mode, Upto
    <3> QED BY <2>1, <2>3, <3>1, <1>s, ViewsStutter DEF FeedOpen
  <2>5. CASE c \notin clients
    <3>1. Mode(c) = "ending" /\ Mode(c)' = "ended"
      BY <2>1, <2>2, <2>5 DEF Mode
    <3> QED BY <1>11, <2>1, <2>2, <2>3, <3>1
  <2> QED BY <2>4, <2>5
<1>13. ASSUME NEW c \in Clients, Unregister(c) PROVE [Feed!Next]_(Feed!feedVars)
  <2>1. /\ pc[c] = "unregister" /\ pc'[c] = "close" /\ \A d \in Clients \ {c} : pc'[d] = pc[d]
        /\ UNCHANGED <<head, sd, next, chan>> /\ clients' = clients \ {c}
    BY <1>13 DEF Unregister, DeleteAndClose, Goto, TypeOK
  <2>2. next[c] # 0
    BY <1>q, <2>1 DEF ClientQueue
  <2>3. \A d \in Clients \ {c} : Same(d)
    BY <2>1, SameView
  <2>4. Mode(c)' = "ended" /\ Mode(c) = IF c \in clients THEN "in" ELSE "ended"
    BY <2>1, <2>2 DEF Mode
  <2>5. CASE c \in clients
    BY <1>11, <2>1, <2>2, <2>3, <2>4, <2>5
  <2>6. CASE c \notin clients
    <3>1. Same(c)
      BY <2>4, <2>6 DEF Upto
    <3> QED BY <2>1, <2>3, <3>1, <1>s, ViewsStutter DEF FeedOpen
  <2> QED BY <2>5, <2>6
<1>14. ASSUME NEW c \in Clients, c \in clients, clients' = clients \ {c},
              UNCHANGED <<head, sd, next, chan, pc>>
       PROVE  [Feed!Next]_(Feed!feedVars)
  <2>1. pc[c] \in Streaming \cup {"unregister"} /\ next[c] # 0 /\ Mode(c) = "in"
    BY <1>14, <1>q DEF ClientQueue, Mode
  <2>2. \A d \in Clients \ {c} : Same(d)
    BY <1>14, SameView
  <2>3. CASE pc[c] = "unregister"
    <3>1. Mode(c)' = "ended"
      BY <1>14, <2>1, <2>3 DEF Mode
    <3> QED BY <1>11, <1>14, <2>1, <2>2, <3>1
  <2>4. CASE pc[c] \in Streaming
    <3>1. Mode(c)' = "ending" /\ Upto(c)' = Queued(c)
      BY <1>14, <2>1, <2>4 DEF Mode, Upto, Queued, InHand
    <3>2. Queued(c) = (IF c \in todo THEN head - 1 ELSE head)
      BY <1>14, <1>q, <2>4 DEF ClientQueue
    <3>3. head \in Nat /\ next[c] \in Nat /\ Len(chan[c]) \in Nat
      BY DEF TypeOK
    <3>4. Queued(c) \in next[c] - 1 .. head
      <4>1. Queued(c) = next[c] - 1 + Len(chan[c]) \/ Queued(c) = next[c] - 1 + 1 + Len(chan[c])
        BY <3>3 DEF Queued, InHand
      <4> QED BY <3>2, <3>3, <4>1
    <3>5. FeedModes' = [FeedModes EXCEPT ![c] = "ending"] /\ FeedUpto' = [FeedUpto EXCEPT ![c] = Queued(c)]
      BY <2>2, <3>1, ViewsExcept
    <3>6. FeedModes[c] = "in"
      BY <2>1 DEF FeedModes
    <3>7. Feed!Leave(c)
      BY <1>14, <3>4, <3>5, <3>6 DEF Feed!Leave, FeedModes, FeedUpto, FeedOpen
    <3> QED BY <3>7 DEF Feed!Next
  <2> QED BY <2>1, <2>3, <2>4
<1>15. ASSUME NEW c \in Clients, ShutdownClient(c) PROVE [Feed!Next]_(Feed!feedVars)
  BY <1>14, <1>15 DEF ShutdownClient, DeleteAndClose
<1>16. ASSUME NEW c \in Clients, BroadcastSend(c) PROVE [Feed!Next]_(Feed!feedVars)
  <2>1. c \in clients /\ UNCHANGED <<head, sd, next, pc>>
    BY <1>16 DEF BroadcastSend
  <2>2. CASE chan' = [chan EXCEPT ![c] = Append(@, head)] /\ clients' = clients
    <3>1. \A d \in Clients : chan'[d] = chan[d] \/ d \in clients
      BY <2>1, <2>2 DEF TypeOK
    <3>2. \A d \in Clients : Same(d)
      BY <2>1, <2>2, <3>1, SameView
    <3> QED BY <2>1, <3>2, <1>s, ViewsStutter DEF FeedOpen
  <2>3. CASE clients' = clients \ {c} /\ chan' = chan
    BY <1>14, <2>1, <2>3
  <2> QED BY <1>16, <2>2, <2>3 DEF BroadcastSend, DeleteAndClose
<1> HIDE DEF Stutter, Same, IInv, RegistryInv, MutexInv
<1> QED
  BY <1>1, <1>2, <1>3, <1>4, <1>6, <1>7, <1>8, <1>9, <1>10, <1>12, <1>13, <1>15, <1>16, NextCases, Zenon

(* The server implements the feed: every client is written a gapless,      *)
(* in-order run of the snapshots broadcast since it registered.            *)
THEOREM ServeImplementsFeed == Safety => ImplementsFeed
<1>1. Init => Feed!Init
  BY DEF Init, Feed!Init, Mode, Upto
<1>2. TypeOK /\ IInv /\ QueueInv /\ [Next]_vars => [Feed!Next]_(Feed!feedVars)
  BY FeedStep
<1> QED
  BY <1>1, <1>2, TypeCorrect, RegistryInvariant, QueuesAreRuns, PTL DEF Safety, ImplementsFeed, Feed!Spec
=============================================================================
