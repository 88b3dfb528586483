---------------------------- MODULE SnapshotFeed ----------------------------
(***************************************************************************)
(* What the monitoring server promises to its clients, with no mutex, no   *)
(* channels and no goroutines: snapshots are published one after another,  *)
(* a subscriber receives, in order and without a gap, every snapshot       *)
(* published from its subscription until the server stops serving it, and  *)
(* nobody subscribes once the feed is shut.  RemoteServe implements this.  *)
(***************************************************************************)
EXTENDS Integers

CONSTANT Clients

VARIABLES
  head,   \* number of the latest published snapshot
  open,   \* FALSE once the feed accepts no further subscriber
  mode,   \* "out" (never subscribed), "in", "ending" (draining), "ended"
  next,   \* the number of the snapshot each subscriber receives next
  upto    \* the last snapshot a draining subscriber may still receive

feedVars == <<head, open, mode, next, upto>>

Init ==
  /\ head = 0
  /\ open = TRUE
  /\ mode = [c \in Clients |-> "out"]
  /\ next = [c \in Clients |-> 0]
  /\ upto = [c \in Clients |-> 0]

Publish ==
  /\ head' = head + 1
  /\ UNCHANGED <<open, mode, next, upto>>

Subscribe(c) ==
  /\ open
  /\ mode[c] = "out"
  /\ mode' = [mode EXCEPT ![c] = "in"]
  /\ next' = [next EXCEPT ![c] = head + 1]
  /\ UNCHANGED <<head, open, upto>>

(* The next snapshot in order, and none that was published after the      *)
(* subscriber was let go.                                                  *)
Deliver(c) ==
  /\ \/ mode[c] = "in" /\ next[c] <= head
     \/ mode[c] = "ending" /\ next[c] <= upto[c]
  /\ next' = [next EXCEPT ![c] = @ + 1]
  /\ UNCHANGED <<head, open, mode, upto>>

(* The server lets a subscriber go; what it has already queued may still   *)
(* be delivered.                                                           *)
Leave(c) ==
  /\ mode[c] = "in"
  /\ mode' = [mode EXCEPT ![c] = "ending"]
  /\ \E last \in next[c] - 1 .. head : upto' = [upto EXCEPT ![c] = last]
  /\ UNCHANGED <<head, open, next>>

End(c) ==
  /\ mode[c] \in {"in", "ending"}
  /\ mode' = [mode EXCEPT ![c] = "ended"]
  /\ upto' = [upto EXCEPT ![c] = 0]
  /\ UNCHANGED <<head, open, next>>

Shut ==
  /\ open
  /\ open' = FALSE
  /\ UNCHANGED <<head, mode, next, upto>>

Next ==
  \/ Publish
  \/ Shut
  \/ \E c \in Clients : Subscribe(c) \/ Deliver(c) \/ Leave(c) \/ End(c)

Spec == Init /\ [][Next]_feedVars
=============================================================================
