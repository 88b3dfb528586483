---------------------------- MODULE RemoteClient ----------------------------
(***************************************************************************)
(* remote.Dial and Client.Next (internal/remote/remote.go) as `wrongtop    *)
(* connect` uses them: a dial and a handshake bounded by a ten-second      *)
(* context whose AfterFunc closes the connection, then a stream that must  *)
(* outlive that context.  AfterFunc runs its callback in a goroutine of    *)
(* its own; stop() neither waits for nor undoes one that has started.      *)
(***************************************************************************)
EXTENDS Integers, Sequences

CONSTANTS
  MaxWire,  \* bound: frames on the wire at once
  MaxSent   \* bound: frames the server sends

ClientAssumption == MaxWire \in Nat \ {0} /\ MaxSent \in Nat \ {0}

VARIABLES
  ctx,    \* the caller's context: "none" yet, "live" or "done"
  hook,   \* AfterFunc: "none", "armed", "stopped", "started", "ran"
  conn,   \* our end of the connection: "none", "open", "closed"
  pc,     \* where Dial, then the reader goroutine, is
  wire,   \* frames sent and not read: "hello", "other" (a Hello of another
          \* protocol), "snap", "bad" (too long, or not JSON)
  sent,   \* frames the server has sent
  hung    \* the server closed its end

vars == <<ctx, hook, conn, pc, wire, sent, hung>>
netVars == <<wire, sent, hung>>

Init ==
  /\ ctx = "none" /\ hook = "none" /\ conn = "none" /\ pc = "idle"
  /\ wire = <<>> /\ sent = 0 /\ hung = FALSE

InDial == {"dial", "arm", "auth", "hello", "return"}

-----------------------------------------------------------------------------
(* The environment: the command, its context's deadline, the server. *)

(* `wrongtop connect`: a context of ten seconds, then Dial.                *)
Start ==
  /\ pc = "idle"
  /\ pc' = "dial" /\ ctx' = "live"
  /\ UNCHANGED <<hook, conn, netVars>>

(* The deadline passes, or the caller cancels.                             *)
CtxDone ==
  /\ ctx = "live"
  /\ ctx' = "done"
  /\ hook' = IF hook = "armed" THEN "started" ELSE hook
  /\ UNCHANGED <<conn, pc, netVars>>

(* The server answers the Auth frame, then streams.                        *)
ServerSends(f) ==
  /\ conn = "open" /\ ~hung /\ pc \notin {"arm", "auth"}
  /\ sent < MaxSent /\ Len(wire) < MaxWire
  /\ f \in IF sent = 0 THEN {"hello", "other", "bad"} ELSE {"snap", "bad"}
  /\ sent' = sent + 1
  /\ wire' = Append(wire, f)
  /\ UNCHANGED <<ctx, hook, conn, pc, hung>>

ServerHangsUp ==
  /\ conn = "open" /\ ~hung
  /\ hung' = TRUE
  /\ UNCHANGED <<ctx, hook, conn, pc, wire, sent>>

-----------------------------------------------------------------------------
(* The AfterFunc goroutine. *)

HookRuns ==
  /\ hook = "started"
  /\ hook' = "ran"
  /\ conn' = "closed"
  /\ UNCHANGED <<ctx, pc, netVars>>

-----------------------------------------------------------------------------
(* Dial. *)

(* stop(), deferred: disarms a hook that has not started.                  *)
Stopped == IF hook = "armed" THEN "stopped" ELSE hook

(* Mutant of Fail: an error path that forgets to close.                    *)
Fail_Leaks ==
  /\ pc' = "failed"
  /\ hook' = Stopped
  /\ UNCHANGED conn

Fail ==
  /\ pc' = "failed"
  /\ conn' = "closed"
  /\ hook' = Stopped

(* The five-second dial timeout, a refusal or the context end a dial       *)
(* without a connection.                                                   *)
Connect ==
  /\ pc = "dial"
  /\ \/ ctx = "live" /\ pc' = "arm" /\ conn' = "open"
     \/ pc' = "failed" /\ UNCHANGED conn
  /\ UNCHANGED <<ctx, hook, netVars>>

(* Mutant of Arm: the handshake is not bounded by the context.             *)
Arm_Never ==
  /\ pc = "arm"
  /\ pc' = "auth"
  /\ UNCHANGED <<ctx, hook, conn, netVars>>

(* AfterFunc on a context that is already done starts its callback.        *)
Arm ==
  /\ pc = "arm"
  /\ pc' = "auth"
  /\ hook' = IF ctx = "live" THEN "armed" ELSE "started"
  /\ UNCHANGED <<ctx, conn, netVars>>

(* A peer that hung up fails the write at once or only the read after it.  *)
WriteAuth ==
  /\ pc = "auth"
  /\ \/ conn = "open" /\ pc' = "hello" /\ UNCHANGED <<hook, conn>>
     \/ (conn = "closed" \/ hung) /\ Fail
  /\ UNCHANGED <<ctx, netVars>>

ReadHello ==
  /\ pc = "hello"
  /\ \/ /\ conn = "open" /\ wire # <<>>
        /\ wire' = Tail(wire)
        /\ \/ Head(wire) = "hello" /\ pc' = "return" /\ UNCHANGED <<hook, conn>>
           \/ Head(wire) # "hello" /\ Fail
     \/ /\ conn = "closed" \/ (hung /\ wire = <<>>)
        /\ Fail
        /\ UNCHANGED wire
  /\ UNCHANGED <<ctx, sent, hung>>

(* Mutant of Return: Dial without its deferred stop().                     *)
Return_KeepsHook ==
  /\ pc = "return"
  /\ pc' = "stream"
  /\ UNCHANGED <<ctx, hook, conn, netVars>>

Return ==
  /\ pc = "return"
  /\ pc' = "stream"
  /\ hook' = Stopped
  /\ UNCHANGED <<ctx, conn, netVars>>

-----------------------------------------------------------------------------
(* The reader goroutine: it ends with the first error. *)

ReadSnap ==
  /\ pc = "stream"
  /\ \/ /\ conn = "open" /\ wire # <<>>
        /\ wire' = Tail(wire)
        /\ pc' = IF Head(wire) = "snap" THEN "stream" ELSE "ended"
     \/ /\ conn = "closed" \/ (hung /\ wire = <<>>)
        /\ pc' = "ended"
        /\ UNCHANGED wire
  /\ UNCHANGED <<ctx, hook, conn, sent, hung>>

-----------------------------------------------------------------------------
Dial == Connect \/ Arm \/ WriteAuth \/ ReadHello \/ Return

Next ==
  \/ Start \/ CtxDone \/ HookRuns \/ Dial \/ ReadSnap \/ ServerHangsUp
  \/ \E f \in {"hello", "other", "snap", "bad"} : ServerSends(f)

(* Goroutines run, and the ten-second deadline passes.  The server owes    *)
(* nothing.                                                                *)
Fairness == WF_vars(CtxDone) /\ WF_vars(HookRuns) /\ WF_vars(Dial) /\ WF_vars(ReadSnap)

Spec == Init /\ [][Next]_vars /\ Fairness

-----------------------------------------------------------------------------
(* Properties. *)

(* The type invariant.                                                     *)
TypeOK ==
  /\ ctx \in {"none", "live", "done"} /\ conn \in {"none", "open", "closed"}
  /\ hook \in {"none", "armed", "stopped", "started", "ran"}
  /\ pc \in InDial \cup {"idle", "stream", "ended", "failed"}
  /\ wire \in Seq({"hello", "other", "snap", "bad"}) /\ Len(wire) <= MaxWire
  /\ sent \in 0 .. MaxSent /\ hung \in BOOLEAN

(* A Dial that returns an error leaves no connection open behind it, on    *)
(* whatever step the server, the deadline or the network failed it.        *)
FailedDialLeaksNothing == pc = "failed" => conn # "open"

(* The context bounds Dial and nothing else: a deadline that passes after  *)
(* Dial returned starts no callback.                                       *)
DeadlineEndsWithDial ==
  [][pc \notin InDial /\ ctx = "live" /\ ctx' = "done" => hook' # "started"]_vars

(* Dial leaves nothing behind: no connection after an error, and no        *)
(* deadline after a success.                                               *)
DialLeavesNothing == []FailedDialLeaksNothing /\ DeadlineEndsWithDial

(* Dial returns although the server never answers: the deadline closes     *)
(* the connection under the blocked read.                                  *)
DialEnds == pc = "dial" ~> pc \notin InDial

(* "stop() runs before return, so a live post-handshake stream is never    *)
(* closed": the reader of a stream that Dial returned finds it open.       *)
LiveStreamStaysOpen == pc = "stream" => conn = "open"
=============================================================================
