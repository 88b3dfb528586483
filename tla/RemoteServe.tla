---------------------------- MODULE RemoteServe -----------------------------
(***************************************************************************)
(* remote.Serve and handleConn (internal/remote/server.go): the accept     *)
(* loop, the ticker goroutine that collects and broadcasts, the shutdown   *)
(* goroutine and one handler goroutine per connection.  They share the     *)
(* registry of client channels under the mutex mu; a handler receives from *)
(* its channel without mu.  Snapshots are numbered in broadcast order.     *)
(* A channel is named by its connection: handleConn makes exactly one.     *)
(***************************************************************************)
EXTENDS Integers, Sequences

CONSTANTS
  Clients,   \* connections that peers may open
  Cap,       \* capacity of a client's channel (4 in the code)
  MaxSnap    \* bound: snapshots broadcast in a behaviour

ASSUME ServeAssumption == Cap \in Nat \ {0} /\ MaxSnap \in Nat \ {0}

VARIABLES
  ctxDone,   \* the context passed to Serve is cancelled
  lnClosed,  \* the listener is closed
  main,      \* Serve itself
  tk,        \* the ticker goroutine
  sd,        \* the shutdown goroutine
  mu,        \* which critical section holds the mutex
  todo,      \* channels the running broadcast loop has not visited yet
  head,      \* number of snapshots broadcast (the latest one's number)
  clients,   \* the registry: channels that broadcasts reach
  chan,      \* buffered snapshots of each channel
  closed,    \* channels that were closed
  pc,        \* each connection's handler
  frame,     \* the snapshot each handler is writing
  next,      \* after registration: the number of the next snapshot to write
  token,     \* what the peer presents, until read: "good", "bad", "silent"
  peer,      \* whether the peer reads its socket while it is written to
  panicked   \* a send on or a close of a closed channel happened

serverVars == <<ctxDone, lnClosed, main, tk, sd, mu, todo, head>>
chanVars == <<clients, chan, closed, panicked>>
connVars == <<pc, frame, next>>
peerVars == <<token, peer>>
vars == <<serverVars, chanVars, connVars, peerVars>>

Init ==
  /\ ctxDone = FALSE /\ lnClosed = FALSE /\ panicked = FALSE
  /\ main = "first" /\ tk = "unstarted" /\ sd = "waiting" /\ mu = "free"
  /\ todo = {} /\ head = 0 /\ clients = {}
  /\ chan = [c \in Clients |-> <<>>]
  /\ closed = [c \in Clients |-> FALSE]
  /\ pc = [c \in Clients |-> "absent"]
  /\ frame = [c \in Clients |-> 0]
  /\ next = [c \in Clients |-> 0]
  /\ token = [c \in Clients |-> "silent"]
  /\ peer = [c \in Clients |-> "reading"]

Goto(c, from, to) == pc[c] = from /\ pc' = [pc EXCEPT ![c] = to]

(* delete(clients, ch); close(ch).  Closing a closed channel panics. *)
DeleteAndClose(c) ==
  /\ clients' = clients \ {c}
  /\ closed' = [closed EXCEPT ![c] = TRUE]
  /\ panicked' = (panicked \/ closed[c])

(* ln.Close: the kernel resets the connections nobody has accepted. *)
Refuse == pc' = [c \in Clients |-> IF pc[c] = "backlog" THEN "refused" ELSE pc[c]]

-----------------------------------------------------------------------------
(* The environment: peers and the owner of the context. *)

Connect(c, t) ==
  /\ ~lnClosed
  /\ Goto(c, "absent", "backlog")
  /\ token' = [token EXCEPT ![c] = t]
  /\ UNCHANGED <<serverVars, chanVars, frame, next, peer>>

(* A laptop falls asleep or wakes up: its socket buffers fill or drain,    *)
(* which only a handler that writes can notice.                            *)
TogglePeer(c) ==
  /\ pc[c] = "write"
  /\ peer' = [peer EXCEPT ![c] = IF @ = "reading" THEN "stalled" ELSE "reading"]
  /\ UNCHANGED <<serverVars, chanVars, connVars, token>>

Cancel ==
  /\ ~ctxDone
  /\ ctxDone' = TRUE
  /\ UNCHANGED <<lnClosed, main, tk, sd, mu, todo, head, chanVars, connVars, peerVars>>

-----------------------------------------------------------------------------
(* Serve: the first sample, then the accept loop. *)

(* collect, set the Hello hostname, broadcast to a registry that is still  *)
(* empty, start the ticker goroutine.                                      *)
FirstBroadcast ==
  /\ main = "first" /\ mu = "free"
  /\ main' = "accept"
  /\ tk' = "idle"
  /\ head' = head + 1
  /\ UNCHANGED <<ctxDone, lnClosed, sd, mu, todo, chanVars, connVars, peerVars>>

Accept(c) ==
  /\ main = "accept" /\ ~lnClosed
  /\ Goto(c, "backlog", "auth")
  /\ UNCHANGED <<serverVars, chanVars, frame, next, peerVars>>

(* Accept fails and Serve returns: nil when the context is done, the error *)
(* otherwise; either way its deferred ln.Close runs.                       *)
ReturnFromServe ==
  /\ main = "accept"
  /\ main' = IF ctxDone THEN "returned" ELSE "failed"
  /\ lnClosed' = TRUE
  /\ Refuse
  /\ UNCHANGED <<ctxDone, tk, sd, mu, todo, head, chanVars, frame, next, peerVars>>

AcceptAfterClose == lnClosed /\ ReturnFromServe

(* The system refuses another descriptor, say.  Nothing cancels the        *)
(* context: the ticker and the streams outlive Serve.                      *)
AcceptError == ~lnClosed /\ ReturnFromServe

-----------------------------------------------------------------------------
(* The ticker goroutine. *)

Tick ==
  /\ tk = "idle" /\ head < MaxSnap
  /\ tk' = "lock"                                  \* collected, about to broadcast
  /\ UNCHANGED <<ctxDone, lnClosed, main, sd, mu, todo, head, chanVars, connVars, peerVars>>

TickerReturns ==
  /\ tk = "idle" /\ ctxDone
  /\ tk' = "done"
  /\ UNCHANGED <<ctxDone, lnClosed, main, sd, mu, todo, head, chanVars, connVars, peerVars>>

BroadcastLock ==
  /\ tk = "lock" /\ mu = "free"
  /\ tk' = "send" /\ mu' = "broadcast"
  /\ head' = head + 1
  /\ todo' = clients
  /\ UNCHANGED <<ctxDone, lnClosed, main, sd, chanVars, connVars, peerVars>>

(* Mutant of BroadcastSend: one snapshot too many fits.                    *)
BroadcastSend_OffByOne(c) ==
  /\ tk = "send" /\ c \in todo
  /\ todo' = todo \ {c}
  /\ \/ /\ Len(chan[c]) <= Cap
        /\ chan' = [chan EXCEPT ![c] = Append(@, head)]
        /\ UNCHANGED <<clients, closed, panicked>>
     \/ /\ Len(chan[c]) > Cap
        /\ DeleteAndClose(c)
        /\ UNCHANGED chan
  /\ UNCHANGED <<ctxDone, lnClosed, main, tk, sd, mu, head, connVars, peerVars>>

(* Mutant of BroadcastSend: a slow client loses its oldest snapshot, not   *)
(* its place.                                                              *)
BroadcastSend_Conflates(c) ==
  /\ tk = "send" /\ c \in todo
  /\ todo' = todo \ {c}
  /\ chan' = [chan EXCEPT ![c] = Append(IF Len(@) < Cap THEN @ ELSE Tail(@), head)]
  /\ UNCHANGED <<clients, closed, panicked>>
  /\ UNCHANGED <<ctxDone, lnClosed, main, tk, sd, mu, head, connVars, peerVars>>

(* Mutant of BroadcastSend: a slow client is deleted and not closed.       *)
BroadcastSend_Forgets(c) ==
  /\ tk = "send" /\ c \in todo
  /\ todo' = todo \ {c}
  /\ IF Len(chan[c]) < Cap
       THEN chan' = [chan EXCEPT ![c] = Append(@, head)] /\ UNCHANGED clients
       ELSE clients' = clients \ {c} /\ UNCHANGED chan
  /\ UNCHANGED <<closed, panicked>>
  /\ UNCHANGED <<ctxDone, lnClosed, main, tk, sd, mu, head, connVars, peerVars>>

(* Mutant of BroadcastSend: the channel has no buffer and the send no      *)
(* default case, so it waits for a receiver.                               *)
BroadcastSend_Blocks(c) ==
  /\ tk = "send" /\ c \in todo
  /\ pc[c] = "range" /\ chan[c] = <<>>
  /\ todo' = todo \ {c}
  /\ chan' = [chan EXCEPT ![c] = Append(@, head)]
  /\ UNCHANGED <<clients, closed, panicked>>
  /\ UNCHANGED <<ctxDone, lnClosed, main, tk, sd, mu, head, connVars, peerVars>>

(* One iteration of the loop over the registry: a send that never blocks;  *)
(* a full channel costs the client its place.                              *)
BroadcastSend(c) ==
  /\ tk = "send" /\ c \in todo
  /\ todo' = todo \ {c}
  /\ \/ /\ Len(chan[c]) < Cap
        /\ chan' = [chan EXCEPT ![c] = Append(@, head)]
        /\ panicked' = (panicked \/ closed[c])
        /\ UNCHANGED <<clients, closed>>
     \/ /\ Len(chan[c]) >= Cap
        /\ DeleteAndClose(c)
        /\ UNCHANGED chan
  /\ UNCHANGED <<ctxDone, lnClosed, main, tk, sd, mu, head, connVars, peerVars>>

BroadcastUnlock ==
  /\ tk = "send" /\ todo = {}
  /\ tk' = "idle" /\ mu' = "free"
  /\ UNCHANGED <<ctxDone, lnClosed, main, sd, todo, head, chanVars, connVars, peerVars>>

-----------------------------------------------------------------------------
(* The shutdown goroutine. *)

ShutdownListener ==
  /\ sd = "waiting" /\ ctxDone
  /\ sd' = "lock"
  /\ lnClosed' = TRUE
  /\ Refuse
  /\ UNCHANGED <<ctxDone, main, tk, mu, todo, head, chanVars, frame, next, peerVars>>

ShutdownLock ==
  /\ sd = "lock" /\ mu = "free"
  /\ sd' = "closing" /\ mu' = "shutdown"
  /\ UNCHANGED <<ctxDone, lnClosed, main, tk, todo, head, chanVars, connVars, peerVars>>

ShutdownClient(c) ==
  /\ sd = "closing" /\ c \in clients
  /\ DeleteAndClose(c)
  /\ UNCHANGED <<serverVars, chan, connVars, peerVars>>

(* Mutant of ShutdownUnlock: the loop stops before the registry is empty.  *)
ShutdownUnlock_Early ==
  /\ sd = "closing"
  /\ sd' = "done" /\ mu' = "free"
  /\ UNCHANGED <<ctxDone, lnClosed, main, tk, todo, head, chanVars, connVars, peerVars>>

ShutdownUnlock ==
  /\ sd = "closing" /\ clients = {}
  /\ sd' = "done" /\ mu' = "free"
  /\ UNCHANGED <<ctxDone, lnClosed, main, tk, todo, head, chanVars, connVars, peerVars>>

-----------------------------------------------------------------------------
(* handleConn: the handshake. *)

(* ReadFrame and Authorize: a wrong token, an oversized or garbled frame   *)
(* and an end of stream all close the connection without an answer.        *)
AuthRead(c) ==
  /\ \/ token[c] = "good" /\ Goto(c, "auth", "hello")
     \/ token[c] = "bad" /\ Goto(c, "auth", "close")
  /\ token' = [token EXCEPT ![c] = "silent"]
  /\ UNCHANGED <<serverVars, chanVars, frame, next, peer>>

(* The five-second deadline, or a reset, ends the read or the hello write. *)
HandshakeFails(c) ==
  /\ Goto(c, "auth", "close") \/ Goto(c, "hello", "close")
  /\ token' = [token EXCEPT ![c] = "silent"]
  /\ UNCHANGED <<serverVars, chanVars, frame, next, peer>>

HelloWritten(c) ==
  /\ Goto(c, "hello", "register")
  /\ UNCHANGED <<serverVars, chanVars, frame, next, peerVars>>

(* Mutant of RegisterLock: the context is not looked at.                   *)
RegisterLock_Blind(c) ==
  /\ mu = "free"
  /\ Goto(c, "register", "insert") /\ mu' = "register"
  /\ UNCHANGED <<ctxDone, lnClosed, main, tk, sd, todo, head>>
  /\ UNCHANGED <<chanVars, frame, next, peerVars>>

(* register takes mu and looks at the context... *)
RegisterLock(c) ==
  /\ mu = "free"
  /\ \/ ctxDone /\ Goto(c, "register", "close") /\ UNCHANGED mu
     \/ ~ctxDone /\ Goto(c, "register", "insert") /\ mu' = "register"
  /\ UNCHANGED <<ctxDone, lnClosed, main, tk, sd, todo, head>>
  /\ UNCHANGED <<chanVars, frame, next, peerVars>>

(* ...and inserts the channel, still under mu; the context may have been   *)
(* cancelled in between.                                                   *)
RegisterInsert(c) ==
  /\ Goto(c, "insert", "range")
  /\ clients' = clients \cup {c}
  /\ next' = [next EXCEPT ![c] = head + 1]
  /\ mu' = "free"
  /\ UNCHANGED <<ctxDone, lnClosed, main, tk, sd, todo, head>>
  /\ UNCHANGED <<chan, closed, panicked, frame, peerVars>>

-----------------------------------------------------------------------------
(* handleConn: the stream. *)

(* for snap := range ch *)
Receive(c) ==
  /\ chan[c] # <<>>
  /\ Goto(c, "range", "write")
  /\ frame' = [frame EXCEPT ![c] = Head(chan[c])]
  /\ chan' = [chan EXCEPT ![c] = Tail(@)]
  /\ UNCHANGED <<serverVars, clients, closed, panicked, next, peerVars>>

RangeEnds(c) ==
  /\ chan[c] = <<>> /\ closed[c]
  /\ Goto(c, "range", "unregister")
  /\ UNCHANGED <<serverVars, chanVars, frame, next, peerVars>>

Written(c) ==
  /\ peer[c] = "reading"
  /\ Goto(c, "write", "range")
  /\ next' = [next EXCEPT ![c] = frame[c] + 1]
  /\ frame' = [frame EXCEPT ![c] = 0]
  /\ UNCHANGED <<serverVars, chanVars, peerVars>>

(* The write deadline of a frame expires, or the connection is reset: what *)
(* the peer does from now on no longer matters.                            *)
WriteFails(c) ==
  /\ Goto(c, "write", "unregister")
  /\ frame' = [frame EXCEPT ![c] = 0]
  /\ peer' = [peer EXCEPT ![c] = "reading"]
  /\ UNCHANGED <<serverVars, chanVars, next, token>>

(* Mutant of Unregister: closes a channel the registry no longer holds.    *)
Unregister_Always(c) ==
  /\ mu = "free"
  /\ Goto(c, "unregister", "close")
  /\ DeleteAndClose(c)
  /\ UNCHANGED <<serverVars, chan, frame, next, peerVars>>

(* The deferred unregister: under mu, and only a channel still registered. *)
Unregister(c) ==
  /\ mu = "free"
  /\ Goto(c, "unregister", "close")
  /\ \/ c \in clients /\ DeleteAndClose(c)
     \/ c \notin clients /\ UNCHANGED <<clients, closed, panicked>>
  /\ UNCHANGED <<serverVars, chan, frame, next, peerVars>>

CloseConn(c) ==
  /\ Goto(c, "close", "done")
  /\ UNCHANGED <<serverVars, chanVars, frame, next, peerVars>>

-----------------------------------------------------------------------------
Main == FirstBroadcast \/ AcceptAfterClose \/ \E c \in Clients : Accept(c)

Ticker ==
  \/ Tick \/ TickerReturns \/ BroadcastLock \/ BroadcastUnlock
  \/ \E c \in Clients : BroadcastSend(c)

Shutdown ==
  \/ ShutdownListener \/ ShutdownLock \/ ShutdownUnlock
  \/ \E c \in Clients : ShutdownClient(c)

Handler(c) ==
  \/ AuthRead(c) \/ HandshakeFails(c) \/ HelloWritten(c)
  \/ RegisterLock(c) \/ RegisterInsert(c)
  \/ Receive(c) \/ RangeEnds(c) \/ Written(c) \/ WriteFails(c)
  \/ Unregister(c) \/ CloseConn(c)

Peer(c) == TogglePeer(c) \/ \E t \in {"good", "bad", "silent"} : Connect(c, t)

(* Everything has ended: the server is shut down and no handler is left. *)
Stopped ==
  /\ sd = "done" /\ tk = "done" /\ main \in {"returned", "failed"}
  /\ \A c \in Clients : pc[c] \in {"absent", "refused", "done"}
  /\ UNCHANGED vars

Next ==
  \/ Cancel \/ AcceptError \/ Main \/ Ticker \/ Shutdown \/ Stopped
  \/ \E c \in Clients : Handler(c) \/ Peer(c)

(* A goroutine that can run eventually runs; sync.Mutex starves no waiter. *)
(* Peers, the system's accept errors and the owner of the context owe      *)
(* nothing.                                                                *)
Fairness ==
  /\ WF_vars(Main) /\ WF_vars(Ticker) /\ WF_vars(Shutdown)
  /\ \A c \in Clients : WF_vars(Handler(c))

Safety == Init /\ [][Next]_vars
Spec == Safety /\ Fairness

-----------------------------------------------------------------------------
(* Properties. *)

Before == {"absent", "backlog", "refused", "auth", "hello", "register", "insert"}
Streaming == {"range", "write"}
After == {"unregister", "close", "done"}

(* The type invariant; a channel never holds more than its capacity.       *)
TypeOK ==
  /\ ctxDone \in BOOLEAN /\ lnClosed \in BOOLEAN /\ panicked \in BOOLEAN
  /\ main \in {"first", "accept", "returned", "failed"}
  /\ tk \in {"unstarted", "idle", "lock", "send", "done"}
  /\ sd \in {"waiting", "lock", "closing", "done"}
  /\ mu \in {"free", "broadcast", "shutdown", "register"}
  /\ head \in Nat
  /\ todo \subseteq Clients /\ clients \subseteq Clients
  /\ chan \in [Clients -> Seq(Nat)]
  /\ \A c \in Clients : Len(chan[c]) <= Cap
  /\ closed \in [Clients -> BOOLEAN]
  /\ pc \in [Clients -> Before \cup Streaming \cup After]
  /\ frame \in [Clients -> Nat] /\ next \in [Clients -> Nat]
  /\ token \in [Clients -> {"good", "bad", "silent"}]
  /\ peer \in [Clients -> {"reading", "stalled"}]

(* No interleaving of the broadcast, the shutdown loop and the handlers'   *)
(* unregister sends on, or closes, a channel that is already closed: the   *)
(* whole server would go down with the panic.                              *)
NoPanic == ~panicked

(* A handler that waits on its channel will be woken: the registry still   *)
(* holds the channel, so a broadcast or the shutdown reaches it, or it is  *)
(* closed.  A handler outside both is parked for ever with its connection. *)
NoOrphan == \A c \in Clients : pc[c] \in Streaming => (c \in clients <=> ~closed[c])

(* A handshake that overlaps the shutdown does not slip into the registry  *)
(* behind the shutdown goroutine: no broadcast and no close would ever     *)
(* end that stream.                                                        *)
NobodyAfterShutdown ==
  sd = "done" => clients = {} /\ \A c \in Clients : pc[c] # "insert"

(* The inductive invariant behind the three: who holds the mutex, what the *)
(* registry contains, and what the shutdown goroutine may rely on.         *)
MutexInv ==
  /\ mu = "broadcast" <=> tk = "send"
  /\ mu = "shutdown" <=> sd = "closing"
  /\ \A c \in Clients : pc[c] = "insert" => mu = "register"
  /\ \A c, d \in Clients : pc[c] = "insert" /\ pc[d] = "insert" => c = d

RegistryInv ==
  /\ todo \subseteq clients
  /\ tk # "send" => todo = {}
  /\ \A c \in Clients : c \in clients => ~closed[c] /\ pc[c] \in Streaming \cup {"unregister"}
  /\ \A c \in Clients : pc[c] \in Before => ~closed[c]
  /\ \A c \in Clients : pc[c] \in Streaming /\ c \notin clients => closed[c]

ShutdownInv ==
  /\ sd # "waiting" => ctxDone
  /\ \A c \in Clients : pc[c] = "insert" => sd \in {"waiting", "lock"}
  /\ sd = "done" => clients = {}

IInv == NoPanic /\ MutexInv /\ RegistryInv /\ ShutdownInv

(* What a handler that is let go may still write: the snapshot in hand and *)
(* those in its channel.                                                   *)
InHand(c) == IF pc[c] = "write" THEN 1 ELSE 0
Queued(c) == next[c] - 1 + InHand(c) + Len(chan[c])

(* The inductive invariant behind the refinement: a channel holds the      *)
(* snapshots that follow the one in hand, up to the latest, which a        *)
(* running broadcast has yet to send to the channels in todo.              *)
ClientQueue(c) ==
  /\ pc[c] \in Before => next[c] = 0 /\ chan[c] = <<>>
  /\ pc[c] \in Streaming \cup {"unregister"} => next[c] # 0
  /\ pc[c] = "write" => frame[c] = next[c]
  /\ pc[c] \in Streaming =>
       /\ \A i \in 1 .. Len(chan[c]) : chan[c][i] = next[c] - 1 + InHand(c) + i
       /\ c \in clients => Queued(c) = IF c \in todo THEN head - 1 ELSE head
QueueInv ==
  /\ main = "first" =>
       tk = "unstarted" /\ \A c \in Clients : pc[c] \in {"absent", "backlog", "refused"}
  /\ \A c \in Clients : ClientQueue(c)

Mode(c) ==
  IF next[c] = 0 THEN "out"
  ELSE IF c \in clients THEN "in"
  ELSE IF pc[c] \in After THEN "ended" ELSE "ending"

Upto(c) == IF Mode(c) = "ending" THEN Queued(c) ELSE 0

Feed == INSTANCE SnapshotFeed WITH
  open <- sd \in {"waiting", "lock"},
  mode <- [c \in Clients |-> Mode(c)],
  upto <- [c \in Clients |-> Upto(c)]

(* Every client is written a gapless, in-order run of snapshots that       *)
(* begins with the first one broadcast after it registered, whatever the   *)
(* other clients do and however it is dropped.                             *)
ImplementsFeed == Feed!Spec

(* Once the context is cancelled every stream ends and every connection is *)
(* closed, stalled peers included.                                         *)
ShutdownEndsStreams ==
  ctxDone ~> \A c \in Clients : pc[c] \in {"absent", "refused", "done"}

(* A handler leaves every wait that a peer could prolong: the handshake    *)
(* and the write of a frame, even if the peer never reads or writes again. *)
NoHandlerParked ==
  \A c \in Clients : pc[c] \in {"auth", "hello", "write"}
                        ~> pc[c] \notin {"auth", "hello", "write"}

(* The broadcast loop ends whatever the clients do: a stalled client costs *)
(* the others nothing.                                                     *)
BroadcastEnds == tk = "send" ~> tk # "send"

(* A peer that stalls blocks neither its handler for ever nor the others.  *)
PeersCannotBlock == NoHandlerParked /\ BroadcastEnds
=============================================================================
