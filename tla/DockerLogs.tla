----------------------------- MODULE DockerLogs -----------------------------
(***************************************************************************)
(* The log viewer of the Docker tab (internal/ui/docker/docker.go): the    *)
(* event loop opens and closes the pane; every opening starts a pump       *)
(* goroutine that scans a pipe, a copier goroutine that fills it           *)
(* (dockerclient.CopyLogStream), and a chain of wait commands that hand    *)
(* one line at a time to the event loop.  Streams are numbered in the      *)
(* order in which the pane was opened; the lines of a stream are numbered  *)
(* too, and a line is a pair.  Docker's own end is the environment.        *)
(***************************************************************************)
EXTENDS Integers, Sequences

CONSTANTS
  ChanCap,   \* capacity of a stream's channel (256 in the code)
  LogLines,  \* dockerLogLines: lines the pane keeps (1000)
  MaxOpen,   \* bound: openings of the pane
  MaxLine    \* bound: lines a container writes

ASSUME LogsAssumption ==
  /\ ChanCap \in Nat \ {0} /\ LogLines \in Nat \ {0}
  /\ MaxOpen \in Nat /\ MaxLine \in Nat

VARIABLES
  front,     \* the Docker tab is the active one (the root model's m.active)
  pane,      \* the stream on screen (m.logFor, m.logStream), 0: list mode
  logs,      \* m.logs
  opened,    \* openings so far
  cancelled, \* streams whose context is cancelled
  pump,      \* the pump: "none", "dial", "scan", "send", "done"
  line,      \* lines the pump has scanned (in "send": the one in hand)
  chan,      \* the buffered lines of each stream
  ended,     \* streams whose channel is closed
  copier,    \* "none", "read", "write" (blocked in the pipe), "done"
  body,      \* the log response: "none", "open", "eof" (daemon's end), "shut"
  wait,      \* the wait command: "none", "blocked", "line", "done"
  carried    \* the line its message carries (0: an error text)

loopVars == <<front, pane, logs, opened>>
ioVars == <<copier, body>>
waitVars == <<wait, carried>>
vars == <<loopVars, cancelled, pump, line, chan, ended, ioVars, waitVars>>

Streams == 1 .. MaxOpen

Init ==
  /\ front = FALSE /\ pane = 0 /\ logs = <<>> /\ opened = 0
  /\ cancelled = {} /\ ended = {}
  /\ pump = [s \in Streams |-> "none"]
  /\ line = [s \in Streams |-> 0]
  /\ chan = [s \in Streams |-> <<>>]
  /\ copier = [s \in Streams |-> "none"]
  /\ body = [s \in Streams |-> "none"]
  /\ wait = [s \in Streams |-> "none"]
  /\ carried = [s \in Streams |-> 0]

Becomes(f, s, from, to) == f[s] = from /\ f' = [f EXCEPT ![s] = to]

-----------------------------------------------------------------------------
(* The event loop. *)

(* setActive: the user leaves the Docker tab for another one, or comes     *)
(* back; neither its pane nor its stream is touched.                       *)
SetActive ==
  /\ front' = ~front
  /\ UNCHANGED <<pane, logs, opened, cancelled, pump, line, chan, ended, ioVars, waitVars>>

(* enter on a running container, in list mode only; keys go to the active  *)
(* tab alone.                                                              *)
OpenLogs ==
  /\ front /\ pane = 0 /\ opened < MaxOpen
  /\ opened' = opened + 1
  /\ pane' = opened' /\ logs' = <<>>
  /\ Becomes(pump, opened', "none", "dial")
  /\ Becomes(wait, opened', "none", "blocked")
  /\ UNCHANGED <<front, cancelled, line, chan, ended, ioVars, carried>>

(* Mutant of CloseLogs: the stream's context is left alone.                *)
CloseLogs_NoCancel ==
  /\ front /\ pane # 0
  /\ pane' = 0 /\ logs' = <<>>
  /\ UNCHANGED <<front, opened, cancelled, pump, line, chan, ended, ioVars, waitVars>>

CloseLogs ==
  /\ front /\ pane # 0
  /\ cancelled' = cancelled \cup {pane}
  /\ pane' = 0 /\ logs' = <<>>
  /\ UNCHANGED <<front, opened, pump, line, chan, ended, ioVars, waitVars>>

(* Mutant of Kept: a full buffer drops the newest line.                    *)
Kept_Oldest(lines) == IF Len(lines) > LogLines THEN SubSeq(lines, 1, LogLines) ELSE lines

(* m.logs after a line was appended and the oldest ones were cut.          *)
Kept(lines) ==
  IF Len(lines) > LogLines THEN SubSeq(lines, Len(lines) - LogLines + 1, Len(lines)) ELSE lines

(* Mutants of LogLine: a line is shown in whatever pane is open; only the  *)
(* active tab is told of completions, and the others' are lost; the pane   *)
(* is not cut.                                                             *)
LogLine_AnyPane(s) ==
  /\ wait[s] = "line"
  /\ IF pane = 0
       THEN wait' = [wait EXCEPT ![s] = "none"] /\ UNCHANGED logs
       ELSE logs' = Kept(Append(logs, <<s, carried[s]>>)) /\ wait' = [wait EXCEPT ![s] = "blocked"]
  /\ UNCHANGED <<front, pane, opened, cancelled, pump, line, chan, ended, ioVars, carried>>
LogLine_ActiveTabOnly(s) ==
  /\ wait[s] = "line"
  /\ IF pane # s \/ ~front
       THEN wait' = [wait EXCEPT ![s] = "none"] /\ UNCHANGED logs
       ELSE logs' = Kept(Append(logs, <<s, carried[s]>>)) /\ wait' = [wait EXCEPT ![s] = "blocked"]
  /\ UNCHANGED <<front, pane, opened, cancelled, pump, line, chan, ended, ioVars, carried>>
LogLine_Unbounded(s) ==
  /\ wait[s] = "line"
  /\ IF pane # s
       THEN wait' = [wait EXCEPT ![s] = "none"] /\ UNCHANGED logs
       ELSE logs' = Append(logs, <<s, carried[s]>>) /\ wait' = [wait EXCEPT ![s] = "blocked"]
  /\ UNCHANGED <<front, pane, opened, cancelled, pump, line, chan, ended, ioVars, carried>>

(* logLineMsg, which the root model routes to every tab, active or not: a  *)
(* line of a stream that the pane does not follow is dropped, and its      *)
(* chain is not armed again.                                               *)
LogLine(s) ==
  /\ wait[s] = "line"
  /\ IF pane # s
       THEN wait' = [wait EXCEPT ![s] = "none"] /\ UNCHANGED logs
       ELSE logs' = Kept(Append(logs, <<s, carried[s]>>)) /\ wait' = [wait EXCEPT ![s] = "blocked"]
  /\ UNCHANGED <<front, pane, opened, cancelled, pump, line, chan, ended, ioVars, carried>>

LogDone(s) ==
  /\ Becomes(wait, s, "done", "none")
  /\ UNCHANGED <<loopVars, cancelled, pump, line, chan, ended, ioVars, carried>>

-----------------------------------------------------------------------------
(* A wait command: blocked on the channel, then a message to the loop.     *)

WaitForLog(s) ==
  /\ \/ /\ chan[s] # <<>>
        /\ Becomes(wait, s, "blocked", "line")
        /\ carried' = [carried EXCEPT ![s] = Head(chan[s])]
        /\ chan' = [chan EXCEPT ![s] = Tail(@)]
     \/ /\ chan[s] = <<>> /\ s \in ended
        /\ Becomes(wait, s, "blocked", "done")
        /\ UNCHANGED <<carried, chan>>
  /\ UNCHANGED <<loopVars, cancelled, pump, line, ended, ioVars>>

-----------------------------------------------------------------------------
(* The pump. *)

(* Its deferred calls: the body is closed, then the channel.               *)
PumpReturns(s) ==
  /\ pump' = [pump EXCEPT ![s] = "done"]
  /\ ended' = ended \cup {s}
  /\ body' = [body EXCEPT ![s] = IF @ = "none" THEN @ ELSE "shut"]

(* Client.Logs: an error (a cancelled context is one, unless the answer is *)
(* already there) becomes the only line; otherwise the copier starts.      *)
LogsCall(s) ==
  /\ pump[s] = "dial"
  /\ \/ /\ chan' = [chan EXCEPT ![s] = Append(@, 0)]
        /\ PumpReturns(s)
        /\ UNCHANGED copier
     \/ /\ pump' = [pump EXCEPT ![s] = "scan"]
        /\ body' = [body EXCEPT ![s] = "open"]
        /\ copier' = [copier EXCEPT ![s] = "read"]
        /\ UNCHANGED <<chan, ended>>
  /\ UNCHANGED <<loopVars, cancelled, line, waitVars>>

(* Scan takes what the copier is writing, or ends when the copier closed   *)
(* the pipe, or at a line longer than the buffer.                          *)
Scan(s) ==
  /\ pump[s] = "scan"
  /\ \/ /\ Becomes(copier, s, "write", "read")
        /\ line' = [line EXCEPT ![s] = @ + 1]
        /\ pump' = [pump EXCEPT ![s] = "send"]
        /\ UNCHANGED <<ended, body>>
     \/ /\ copier[s] \in {"write", "done"}
        /\ PumpReturns(s)
        /\ UNCHANGED <<copier, line>>
  /\ UNCHANGED <<loopVars, cancelled, chan, waitVars>>

(* Mutant of Send: the pump waits for room only.                           *)
Send_Blocks(s) ==
  /\ pump[s] = "send"
  /\ Len(chan[s]) < ChanCap
  /\ chan' = [chan EXCEPT ![s] = Append(@, line[s])]
  /\ pump' = [pump EXCEPT ![s] = "scan"]
  /\ UNCHANGED <<loopVars, cancelled, ended, body, line, copier, waitVars>>

(* select: the channel has room, or the context is cancelled; when both    *)
(* are ready the choice is random.                                         *)
Send(s) ==
  /\ pump[s] = "send"
  /\ \/ /\ Len(chan[s]) < ChanCap
        /\ chan' = [chan EXCEPT ![s] = Append(@, line[s])]
        /\ pump' = [pump EXCEPT ![s] = "scan"]
        /\ UNCHANGED <<ended, body>>
     \/ /\ s \in cancelled
        /\ PumpReturns(s)
        /\ UNCHANGED chan
  /\ UNCHANGED <<loopVars, cancelled, line, copier, waitVars>>

-----------------------------------------------------------------------------
(* The copier: CopyLogStream, then CloseWithError. *)

CopyRead(s) ==
  /\ \/ body[s] = "open" /\ line[s] < MaxLine /\ Becomes(copier, s, "read", "write")
     \/ (body[s] \in {"eof", "shut"} \/ s \in cancelled) /\ Becomes(copier, s, "read", "done")
  /\ UNCHANGED <<loopVars, cancelled, pump, line, chan, ended, body, waitVars>>

(* The container exits or the daemon closes the stream.                    *)
DaemonEnds(s) ==
  /\ Becomes(body, s, "open", "eof")
  /\ UNCHANGED <<loopVars, cancelled, pump, line, chan, ended, copier, waitVars>>

-----------------------------------------------------------------------------
Next ==
  \/ SetActive \/ OpenLogs \/ CloseLogs
  \/ \E s \in Streams :
       \/ LogLine(s) \/ LogDone(s) \/ WaitForLog(s)
       \/ LogsCall(s) \/ Scan(s) \/ Send(s) \/ CopyRead(s) \/ DaemonEnds(s)

(* Goroutines and the event loop run; a request whose context is cancelled *)
(* returns.  The user, the daemon and the container owe nothing: CopyRead  *)
(* is fair only where the read cannot stay blocked.                        *)
Fairness ==
  \A s \in Streams :
    /\ WF_vars(LogLine(s)) /\ WF_vars(LogDone(s)) /\ WF_vars(WaitForLog(s))
    /\ WF_vars(s \in cancelled /\ LogsCall(s))
    /\ WF_vars(Scan(s)) /\ WF_vars(Send(s))
    /\ WF_vars((s \in cancelled \/ body[s] # "open") /\ CopyRead(s))

Spec == Init /\ [][Next]_vars /\ Fairness

-----------------------------------------------------------------------------
(* Properties. *)

(* The type invariant: channel and pane stay within their capacities.      *)
TypeOK ==
  /\ front \in BOOLEAN /\ pane \in 0 .. MaxOpen /\ opened \in 0 .. MaxOpen
  /\ logs \in Seq(Streams \X Nat) /\ Len(logs) <= LogLines
  /\ cancelled \subseteq Streams /\ ended \subseteq Streams
  /\ pump \in [Streams -> {"none", "dial", "scan", "send", "done"}]
  /\ line \in [Streams -> 0 .. MaxLine]
  /\ \A s \in Streams : chan[s] \in Seq(Nat) /\ Len(chan[s]) <= ChanCap
  /\ copier \in [Streams -> {"none", "read", "write", "done"}]
  /\ body \in [Streams -> {"none", "open", "eof", "shut"}]
  /\ wait \in [Streams -> {"none", "blocked", "line", "done"}]
  /\ carried \in [Streams -> Nat]

(* The pane shows lines of its own container only, consecutive and in the  *)
(* order the container wrote them, across any number of close and reopen   *)
(* with messages of earlier streams still in flight.                       *)
PaneShowsItsStream ==
  \A i \in DOMAIN logs :
    /\ logs[i][1] = pane
    /\ i > 1 => logs[i][2] = logs[i - 1][2] + 1

(* Between the container and the pane nothing is lost: what the pane shows *)
(* last, what is in flight and what is buffered reach to the pump's line.  *)
NothingLost ==
  pane # 0 /\ line[pane] > 0 =>
    LET shown == IF logs = <<>> THEN 0 ELSE logs[Len(logs)][2]
        flying == IF wait[pane] = "line" THEN 1 ELSE 0
        inHand == IF pump[pane] = "send" THEN 1 ELSE 0
    IN shown + flying + Len(chan[pane]) + inHand = line[pane]

(* The chain of the stream the pane follows is never broken while it has   *)
(* lines to come, whatever tab is active when a line arrives: the pane     *)
(* does not freeze with its pump parked (comment app.go:338-345).          *)
PaneStaysArmed ==
  pane # 0 /\ wait[pane] \in {"none", "done"} => pane \in ended /\ chan[pane] = <<>>

(* Closing the pane ends its pump and its wait command, however full the   *)
(* channel is and whatever the daemon does.                                *)
ClosedPaneEnds ==
  \A s \in Streams : s \in cancelled ~> pump[s] = "done" /\ wait[s] = "none"

(* "It returns when the stream ends or ctx's reader is closed": once the   *)
(* log response is closed the copier returns.                              *)
CopierReturns == \A s \in Streams : body[s] = "shut" ~> copier[s] = "done"
=============================================================================
