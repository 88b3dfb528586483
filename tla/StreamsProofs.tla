--------------------------- MODULE StreamsProofs ----------------------------
(***************************************************************************)
(* Proofs about the two streams a front end follows: DockerLogs, for any   *)
(* capacities, any number of openings and of lines, and RemoteClient, for  *)
(* any bounds on its frames.                                               *)
(***************************************************************************)
EXTENDS MCStreams, SequenceTheorems, TLAPS

USE LogsAssumption DEF LogsAssumption, Streams, loopVars, ioVars, waitVars, vars

(* The line a pump holds, and the line a message carries.                  *)
InHand(s) == IF pump[s] = "send" THEN 1 ELSE 0
Flying(s) == IF wait[s] = "line" THEN 1 ELSE 0

(* The number of the line before the first one in the channel.             *)
Behind(s) == line[s] - InHand(s) - Len(chan[s])

-----------------------------------------------------------------------------
(* The inductive invariant.  A stream that was not opened has not begun;   *)
(* before its first line a pump has sent nothing; a channel is closed by a *)
(* pump that is done; and the channel of the stream on screen holds the    *)
(* lines that follow what is in flight, which follows what is shown.  A    *)
(* closed pane's pump may drop the line in its hand, so this holds of the  *)
(* stream on screen only.                                                  *)
LogsTypes ==
  /\ opened \in Nat /\ pane \in 0 .. opened /\ pane <= MaxOpen
  /\ logs \in Seq(Streams \X Nat)
  /\ pump \in [Streams -> {"none", "dial", "scan", "send", "done"}]
  /\ line \in [Streams -> Nat]
  /\ chan \in [Streams -> Seq(Nat)]
  /\ wait \in [Streams -> {"none", "blocked", "line", "done"}]
  /\ carried \in [Streams -> Nat]
Unopened ==
  \A s \in Streams :
    s > opened => pump[s] = "none" /\ wait[s] = "none" /\ s \notin cancelled
Begun ==
  \A s \in Streams :
    /\ s \in ended => pump[s] = "done"
    /\ pump[s] \in {"none", "dial"} => line[s] = 0
    /\ pump[s] = "send" => line[s] > 0
    /\ line[s] = 0 /\ pump[s] # "done" => chan[s] = <<>> /\ wait[s] # "line"
OnScreen(s) ==
  /\ s \notin cancelled
  /\ \A i \in 1 .. Len(chan[s]) : chan[s][i] = Behind(s) + i
  /\ wait[s] = "line" => carried[s] = Behind(s)
  /\ logs # <<>> => logs[Len(logs)][2] = Behind(s) - Flying(s)
  /\ logs = <<>> /\ line[s] > 0 => Behind(s) = Flying(s)
  /\ line[s] = 0 /\ pump[s] # "done" => logs = <<>>
  /\ wait[s] \in {"none", "done"} => s \in ended /\ chan[s] = <<>>
PaneInv ==
  /\ pane = 0 => logs = <<>>
  /\ pane # 0 => OnScreen(pane)
LogsInv == LogsTypes /\ Unopened /\ Begun /\ PaneInv /\ PaneShowsItsStream

(* No pane is open and no stream has begun.                                *)
LEMMA InitLogs == Init => LogsInv
<1> SUFFICES ASSUME Init PROVE LogsInv
  OBVIOUS
<1>1. LogsTypes
  BY DEF Init, LogsTypes
<1>2. Unopened /\ Begun
  BY DEF Init, Unopened, Begun
<1>3. PaneInv /\ PaneShowsItsStream
  BY DEF Init, PaneInv, PaneShowsItsStream
<1> QED BY <1>1, <1>2, <1>3 DEF LogsInv

(* The numbers that follow b, in order.                                    *)
Follows(q, b) == \A i \in 1 .. Len(q) : q[i] = b + i

(* What is left of the lines that follow b when a wait command takes the   *)
(* first one follows b + 1.                                                *)
LEMMA TakeFirst ==
  ASSUME NEW q \in Seq(Nat), NEW b \in Int, q # <<>>, Follows(q, b)
  PROVE  /\ Head(q) = b + 1 /\ Head(q) \in Nat /\ Tail(q) \in Seq(Nat)
         /\ Len(q) \in Nat /\ Len(Tail(q)) = Len(q) - 1 /\ Follows(Tail(q), b + 1)
<1>1. Len(q) \in Nat \ {0} /\ Len(Tail(q)) = Len(q) - 1 /\ Head(q) = q[1] /\ q[1] \in Nat /\ Tail(q) \in Seq(Nat)
  OBVIOUS
<1>2. ASSUME NEW i \in 1 .. Len(Tail(q)) PROVE Tail(q)[i] = b + 1 + i
  <2>1. i + 1 \in 1 .. Len(q) /\ Tail(q)[i] = q[i + 1]
    BY <1>1
  <2>2. q[i + 1] = b + (i + 1)
    BY <2>1 DEF Follows
  <2> QED BY <2>1, <2>2
<1> QED BY <1>1, <1>2 DEF Follows

(* The line a pump sends after those that follow b follows the last one.   *)
LEMMA AddLast ==
  ASSUME NEW q \in Seq(Nat), NEW b \in Int, NEW n \in Nat, Follows(q, b), n = b + Len(q) + 1
  PROVE  /\ Append(q, n) \in Seq(Nat) /\ Len(q) \in Nat /\ Len(Append(q, n)) = Len(q) + 1
         /\ Follows(Append(q, n), b) /\ Append(q, n) # <<>>
<1>1. Append(q, n) \in Seq(Nat) /\ Len(q) \in Nat /\ Len(Append(q, n)) = Len(q) + 1
  OBVIOUS
<1>2. ASSUME NEW i \in 1 .. Len(q) + 1 PROVE Append(q, n)[i] = b + i
  <2>1. CASE i = Len(q) + 1
    BY <2>1
  <2>2. CASE i # Len(q) + 1
    <3>1. i \in 1 .. Len(q)
      BY <1>1, <2>2
    <3> QED BY <3>1 DEF Follows
  <2> QED BY <2>1, <2>2
<1> QED BY <1>1, <1>2 DEF Follows

(* The pane's buffer after a line: it ends with that line, and its lines   *)
(* are among the old ones and the new one, in their order.                 *)
EndOf(kept, q, x) ==
  /\ kept # <<>> /\ kept[Len(kept)] = x
  /\ \A i \in 1 .. Len(kept) : \E k \in 1 .. Len(q) + 1 :
       /\ kept[i] = Append(q, x)[k]
       /\ i > 1 => k > 1 /\ kept[i - 1] = Append(q, x)[k - 1]

(* Kept, for any number of lines, leaves the end of what it is given.      *)
LEMMA KeptLines ==
  ASSUME NEW S, NEW q \in Seq(S), NEW x \in S
  PROVE  Kept(Append(q, x)) \in Seq(S) /\ EndOf(Kept(Append(q, x)), q, x)
<1> DEFINE all == Append(q, x)
           kept == Kept(all)
           n == Len(q) + 1
           Among(i) == \E k \in 1 .. n : kept[i] = all[k] /\ (i > 1 => k > 1 /\ kept[i - 1] = all[k - 1])
<1> SUFFICES kept \in Seq(S) /\ kept # <<>> /\ kept[Len(kept)] = x /\ \A i \in 1 .. Len(kept) : Among(i)
  BY DEF EndOf
<1>1. all \in Seq(S) /\ n \in Nat \ {0} /\ Len(all) = n /\ all[n] = x
  OBVIOUS
<1>2. kept = IF n > LogLines THEN SubSeq(all, n - LogLines + 1, n) ELSE all
  BY <1>1 DEF Kept
<1> HIDE DEF all, kept, n
<1>3. CASE n > LogLines
  <2>1. PICK d \in Nat, from \in Nat : d = n - LogLines /\ from = d + 1
    BY <1>1, <1>3
  <2>2. kept = SubSeq(all, from, n) /\ from <= n /\ n - from + 1 = LogLines
    <3>1. n - LogLines + 1 = from
      BY <1>1, <2>1
    <3> QED BY <1>1, <1>2, <1>3, <2>1, <3>1
  <2>3. \A j \in from .. n : all[j] \in S
    BY <1>1, <2>1
  <2>4. /\ kept \in Seq(S) /\ Len(kept) = LogLines
        /\ \A i \in 1 .. LogLines : kept[i] = all[from + i - 1]
    <3>1. from \in Int /\ n \in Int
      BY <1>1, <2>1
    <3>2. /\ kept \in Seq(S)
          /\ Len(kept) = IF from <= n THEN n - from + 1 ELSE 0
          /\ \A i \in 1 .. n - from + 1 : kept[i] = all[from + i - 1]
      BY <2>2, <2>3, <3>1, SubSeqProperties
    <3> QED BY <2>2, <3>1, <3>2
  <2>5. ASSUME NEW i \in 1 .. LogLines PROVE i + d \in 1 .. n /\ kept[i] = all[i + d]
    <3>1. from + i - 1 = i + d
      BY <2>1
    <3> QED BY <1>1, <2>1, <2>4, <3>1
  <2>6. kept # <<>> /\ kept[Len(kept)] = x
    <3>1. LogLines \in 1 .. LogLines /\ LogLines + d = n
      BY <1>1, <2>1
    <3> QED BY <1>1, <2>4, <2>5, <3>1
  <2>7. ASSUME NEW i \in 1 .. LogLines PROVE Among(i)
    <3>1. i + d \in 1 .. n /\ kept[i] = all[i + d]
      BY <2>5
    <3>2. ASSUME i > 1 PROVE i + d > 1 /\ kept[i - 1] = all[i + d - 1]
      <4>1. i - 1 \in 1 .. LogLines /\ i - 1 + d = i + d - 1 /\ i + d > 1
        BY <3>2, <2>1
      <4> QED BY <2>5, <4>1
    <3> QED BY <3>1, <3>2
  <2> QED BY <2>4, <2>6, <2>7
<1>4. CASE ~(n > LogLines)
  <2>1. kept = all
    BY <1>1, <1>2, <1>4
  <2>2. ASSUME NEW i \in 1 .. n PROVE Among(i)
    BY <2>1
  <2> QED BY <1>1, <2>1, <2>2
<1> QED BY <1>3, <1>4

(* The pane stays consecutive when the line that follows its last one is   *)
(* appended.                                                               *)
LEMMA PaneGrows ==
  ASSUME LogsTypes, PaneShowsItsStream, pane # 0, NEW n \in Nat,
         logs # <<>> => logs[Len(logs)][2] = n - 1,
         logs' = Kept(Append(logs, <<pane, n>>)), UNCHANGED pane
  PROVE  /\ logs' \in Seq(Streams \X Nat) /\ logs' # <<>> /\ logs'[Len(logs')][2] = n
         /\ PaneShowsItsStream'
<1> DEFINE x == <<pane, n>>
           all == Append(logs, x)
<1> DEFINE S == Streams \X Nat
<1>1. logs \in Seq(S) /\ x \in S /\ x[1] = pane /\ x[2] = n
  <2>1. pane \in Streams
    BY DEF LogsTypes
  <2> QED BY <2>1 DEF LogsTypes
<1> HIDE DEF S
<1>2. /\ logs' \in Seq(S) /\ logs' # <<>> /\ logs'[Len(logs')] = x
      /\ \A i \in 1 .. Len(logs') : \E k \in 1 .. Len(logs) + 1 :
           /\ logs'[i] = all[k]
           /\ i > 1 => k > 1 /\ logs'[i - 1] = all[k - 1]
  <2>1. logs' \in Seq(S) /\ EndOf(logs', logs, x)
    <3>1. logs' = Kept(Append(logs, x)) /\ logs \in Seq(S) /\ x \in S
      BY <1>1
    <3> HIDE DEF x
    <3> QED BY <3>1, KeptLines
  <2> HIDE DEF x
  <2> QED BY <2>1 DEF EndOf
<1>3. /\ Len(logs) \in Nat
      /\ \A k \in 1 .. Len(logs) : all[k] = logs[k]
      /\ all[Len(logs) + 1] = x
  BY <1>1
<1>4. \A i \in 1 .. Len(logs) : logs[i][1] = pane /\ (i > 1 => logs[i][2] = logs[i - 1][2] + 1)
  BY <1>1 DEF PaneShowsItsStream
<1>5. Len(logs) > 0 => x[2] = logs[Len(logs)][2] + 1
  <2> SUFFICES ASSUME Len(logs) > 0 PROVE n = logs[Len(logs)][2] + 1
    BY <1>1
  <2>1. logs # <<>>
    BY <1>1
  <2> QED BY <2>1
<1> HIDE DEF x, all
<1>6. ASSUME NEW k \in 1 .. Len(logs) + 1
      PROVE  all[k][1] = pane /\ (k > 1 => all[k][2] = all[k - 1][2] + 1)
  <2>1. CASE k = Len(logs) + 1
    BY <1>1, <1>3, <1>4, <1>5, <2>1
  <2>2. CASE k # Len(logs) + 1
    <3>1. k \in 1 .. Len(logs) /\ (k > 1 => k - 1 \in 1 .. Len(logs))
      BY <1>3, <2>2
    <3>2. all[k] = logs[k] /\ (k > 1 => all[k - 1] = logs[k - 1])
      BY <1>3, <3>1
    <3> QED BY <1>4, <3>1, <3>2
  <2> QED BY <2>1, <2>2
<1>7. ASSUME NEW i \in 1 .. Len(logs')
      PROVE  logs'[i][1] = pane /\ (i > 1 => logs'[i][2] = logs'[i - 1][2] + 1)
  <2>1. PICK k \in 1 .. Len(logs) + 1 : logs'[i] = all[k] /\ (i > 1 => k > 1 /\ logs'[i - 1] = all[k - 1])
    BY <1>2
  <2> QED BY <1>6, <2>1
<1>8. PaneShowsItsStream'
  <2>1. DOMAIN logs' = 1 .. Len(logs')
    BY <1>2
  <2> QED BY <1>7, <2>1 DEF PaneShowsItsStream
<1> QED BY <1>1, <1>2, <1>8 DEF S

-----------------------------------------------------------------------------
(* What the other streams do is nothing to the one on screen.              *)
LEMMA PaneUntouched ==
  ASSUME LogsInv, UNCHANGED <<pane, logs>>, ended \subseteq ended',
         pane # 0 =>
           /\ pane \in cancelled' => pane \in cancelled
           /\ pump'[pane] = pump[pane] /\ line'[pane] = line[pane] /\ chan'[pane] = chan[pane]
           /\ wait'[pane] = wait[pane] /\ carried'[pane] = carried[pane]
  PROVE  PaneInv' /\ PaneShowsItsStream'
<1>1. PaneShowsItsStream'
  BY DEF LogsInv, PaneShowsItsStream
<1>2. PaneInv'
  BY DEF LogsInv, PaneInv, OnScreen, Behind, InHand, Flying
<1> QED BY <1>1, <1>2

(* The event loop's steps.                                                 *)
LEMMA LoopStep ==
  ASSUME LogsInv, OpenLogs \/ CloseLogs \/ \E s \in Streams : LogLine(s) \/ LogDone(s)
  PROVE  LogsInv'
<1> USE DEF LogsInv
<1>1. CASE OpenLogs
  <2> DEFINE s == opened + 1
  <2>1. s \in Streams /\ pane' = s /\ opened' = s /\ logs' = <<>> /\ UNCHANGED <<cancelled, line, chan, ended, carried>>
    BY <1>1 DEF OpenLogs, LogsTypes
  <2>2. /\ pump[s] = "none" /\ pump' = [pump EXCEPT ![s] = "dial"]
        /\ wait[s] = "none" /\ wait' = [wait EXCEPT ![s] = "blocked"]
    BY <1>1, <2>1 DEF OpenLogs, Becomes
  <2>3. s \notin cancelled /\ line[s] = 0 /\ chan[s] = <<>> /\ s \notin ended
    BY <2>1, <2>2 DEF LogsTypes, Unopened, Begun
  <2>4. pump'[s] = "dial" /\ wait'[s] = "blocked"
    BY <2>1, <2>2 DEF LogsTypes
  <2>5. \A t \in Streams \ {s} : pump'[t] = pump[t] /\ wait'[t] = wait[t]
    BY <2>2 DEF LogsTypes
  <2>6. LogsTypes'
    BY <2>1, <2>2 DEF LogsTypes
  <2>7. Unopened'
    BY <2>1, <2>5 DEF Unopened, LogsTypes
  <2>8. Begun'
    BY <2>1, <2>3, <2>4, <2>5 DEF Begun
  <2>9. PaneInv'
    BY <2>1, <2>3, <2>4 DEF PaneInv, OnScreen, Behind, Flying, InHand
  <2>10. PaneShowsItsStream'
    BY <2>1 DEF PaneShowsItsStream
  <2> QED BY <2>6, <2>7, <2>8, <2>9, <2>10
<1>2. CASE CloseLogs
  <2>1. /\ pane' = 0 /\ logs' = <<>> /\ cancelled' = cancelled \cup {pane}
        /\ UNCHANGED <<opened, pump, line, chan, ended, wait, carried>>
    BY <1>2 DEF CloseLogs
  <2>2. LogsTypes' /\ Unopened'
    BY <2>1 DEF LogsTypes, Unopened
  <2>3. Begun'
    BY <2>1 DEF Begun
  <2>4. PaneInv' /\ PaneShowsItsStream'
    BY <2>1 DEF PaneInv, PaneShowsItsStream
  <2> QED BY <2>2, <2>3, <2>4
<1>3. ASSUME NEW s \in Streams, LogLine(s), pane # s PROVE LogsInv'
  <2>1. /\ UNCHANGED <<pane, logs, opened, cancelled, pump, line, chan, ended, carried>>
        /\ wait[s] = "line" /\ wait' = [wait EXCEPT ![s] = "none"]
    BY <1>3 DEF LogLine
  <2>2. LogsTypes'
    BY <2>1 DEF LogsTypes
  <2>3. wait'[s] = "none" /\ \A t \in Streams \ {s} : wait'[t] = wait[t]
    BY <2>1 DEF LogsTypes
  <2>4. Unopened' /\ Begun'
    BY <2>1, <2>3 DEF Unopened, Begun
  <2>5. pane # 0 => wait'[pane] = wait[pane]
    <3>1. pane # 0 => pane \in Streams
      BY DEF LogsTypes
    <3> QED BY <1>3, <2>3, <3>1
  <2> QED BY <2>1, <2>2, <2>4, <2>5, PaneUntouched
<1>4. ASSUME NEW s \in Streams, LogLine(s), pane = s PROVE LogsInv'
  <2>1. /\ UNCHANGED <<pane, opened, cancelled, pump, line, chan, ended, carried>>
        /\ wait[s] = "line" /\ wait' = [wait EXCEPT ![s] = "blocked"]
        /\ logs' = Kept(Append(logs, <<pane, carried[s]>>))
    BY <1>4 DEF LogLine
  <2>2. pane # 0 /\ OnScreen(s)
    BY <1>4 DEF PaneInv
  <2>3. carried[s] \in Nat /\ carried[s] = Behind(s) /\ Flying(s) = 1
    BY <2>1, <2>2 DEF OnScreen, LogsTypes, Flying
  <2>4. logs # <<>> => logs[Len(logs)][2] = carried[s] - 1
    BY <2>2, <2>3 DEF OnScreen
  <2>5. /\ logs' \in Seq(Streams \X Nat) /\ logs' # <<>> /\ logs'[Len(logs')][2] = carried[s]
        /\ PaneShowsItsStream'
    BY <2>1, <2>2, <2>3, <2>4, PaneGrows
  <2>6. LogsTypes'
    BY <2>1, <2>5 DEF LogsTypes
  <2>7. wait'[s] = "blocked" /\ \A t \in Streams \ {s} : wait'[t] = wait[t]
    BY <2>1 DEF LogsTypes
  <2>8. Unopened' /\ Begun'
    BY <2>1, <2>7 DEF Unopened, Begun
  <2>9. Behind(s)' = carried[s] /\ Flying(s)' = 0
    BY <2>1, <2>3, <2>7 DEF Behind, Flying, InHand
  <2>10. ~(line[s] = 0 /\ pump[s] # "done")
    BY <2>1 DEF Begun
  <2>11. OnScreen(s)'
    <3>1. \A i \in 1 .. Len(chan'[s]) : chan'[s][i] = Behind(s)' + i
      BY <2>1, <2>2, <2>3, <2>9 DEF OnScreen
    <3> QED BY <2>1, <2>2, <2>3, <2>5, <2>7, <2>9, <2>10, <3>1 DEF OnScreen
  <2>12. PaneInv'
    BY <1>4, <2>1, <2>2, <2>11 DEF PaneInv
  <2> QED BY <2>5, <2>6, <2>8, <2>12
<1>5. ASSUME NEW s \in Streams, LogDone(s) PROVE LogsInv'
  <2>1. /\ UNCHANGED <<pane, logs, opened, cancelled, pump, line, chan, ended, carried>>
        /\ wait[s] = "done" /\ wait' = [wait EXCEPT ![s] = "none"]
    BY <1>5 DEF LogDone, Becomes
  <2>2. LogsTypes'
    BY <2>1 DEF LogsTypes
  <2>3. wait'[s] = "none" /\ \A t \in Streams \ {s} : wait'[t] = wait[t]
    BY <2>1 DEF LogsTypes
  <2>4. Unopened' /\ Begun'
    BY <2>1, <2>3 DEF Unopened, Begun
  <2>5. PaneInv' /\ PaneShowsItsStream'
    <3>1. CASE pane # s
      <4>1. pane # 0 => pane \in Streams
        BY DEF LogsTypes
      <4>2. pane # 0 => wait'[pane] = wait[pane]
        BY <2>3, <3>1, <4>1
      <4> QED BY <2>1, <4>2, PaneUntouched
    <3>2. CASE pane = s
      <4>1. OnScreen(s)
        BY <3>2 DEF PaneInv
      <4>2. Behind(s)' = Behind(s) /\ Flying(s)' = Flying(s)
        BY <2>1, <2>3 DEF Behind, Flying, InHand
      <4>3. OnScreen(s)'
        BY <2>1, <2>3, <4>1, <4>2 DEF OnScreen
      <4> QED BY <2>1, <3>2, <4>3 DEF PaneInv, PaneShowsItsStream
    <3> QED BY <3>1, <3>2
  <2> QED BY <2>2, <2>4, <2>5
<1> QED BY <1>1, <1>2, <1>3, <1>4, <1>5

(* The steps of a wait command, a pump and a copier.                       *)
LEMMA GoroutineStep ==
  ASSUME LogsInv, NEW s \in Streams,
         WaitForLog(s) \/ LogsCall(s) \/ Scan(s) \/ Send(s) \/ CopyRead(s) \/ DaemonEnds(s)
  PROVE  LogsInv'
<1> USE DEF LogsInv
<1>0. /\ pane # 0 => pane \in Streams
      /\ pane = s => OnScreen(s)
      /\ chan[s] \in Seq(Nat) /\ line[s] \in Nat /\ Behind(s) \in Int
  <2>1. (pane # 0 => pane \in Streams) /\ chan[s] \in Seq(Nat) /\ line[s] \in Nat
    BY DEF LogsTypes
  <2>2. pane = s => OnScreen(s)
    BY DEF PaneInv
  <2>3. Len(chan[s]) \in Nat /\ InHand(s) \in Nat
    BY <2>1 DEF InHand
  <2>4. Behind(s) \in Int
    BY <2>1, <2>3 DEF Behind
  <2> QED BY <2>1, <2>2, <2>4
<1>1. CASE CopyRead(s) \/ DaemonEnds(s)
  <2>1. UNCHANGED <<pane, logs, opened, cancelled, pump, line, chan, ended, wait, carried>>
    BY <1>1 DEF CopyRead, DaemonEnds
  <2>2. LogsTypes' /\ Unopened'
    BY <2>1 DEF LogsTypes, Unopened
  <2>3. Begun'
    BY <2>1 DEF Begun
  <2> QED BY <2>1, <2>2, <2>3, PaneUntouched
<1>2. CASE WaitForLog(s)
  <2>1. /\ UNCHANGED <<pane, logs, opened, cancelled, pump, line, ended>>
        /\ wait[s] = "blocked"
    BY <1>2 DEF WaitForLog, Becomes
  <2>2. CASE /\ chan[s] # <<>> /\ wait' = [wait EXCEPT ![s] = "line"]
             /\ carried' = [carried EXCEPT ![s] = Head(chan[s])]
             /\ chan' = [chan EXCEPT ![s] = Tail(chan[s])]
    <3>1. Head(chan[s]) \in Nat /\ Tail(chan[s]) \in Seq(Nat)
      BY <1>0, <2>2
    <3>2. LogsTypes'
      BY <2>1, <2>2, <3>1 DEF LogsTypes
    <3>3. /\ wait'[s] = "line" /\ carried'[s] = Head(chan[s]) /\ chan'[s] = Tail(chan[s])
          /\ \A t \in Streams \ {s} : wait'[t] = wait[t] /\ carried'[t] = carried[t] /\ chan'[t] = chan[t]
      BY <2>2 DEF LogsTypes
    <3>4. Unopened'
      BY <2>1, <3>3 DEF Unopened
    <3>5. Begun'
      BY <2>1, <2>2, <3>3 DEF Begun
    <3>6. PaneInv' /\ PaneShowsItsStream'
      <4>1. CASE pane # s
        BY <1>0, <2>1, <3>3, <4>1, PaneUntouched
      <4>2. CASE pane = s
        <5>1. OnScreen(s) /\ Follows(chan[s], Behind(s))
          BY <1>0, <4>2 DEF OnScreen, Follows
        <5>2. /\ Head(chan[s]) = Behind(s) + 1 /\ Len(chan[s]) \in Nat
              /\ Len(Tail(chan[s])) = Len(chan[s]) - 1 /\ Follows(Tail(chan[s]), Behind(s) + 1)
          BY <1>0, <2>2, <5>1, TakeFirst
        <5>3. InHand(s)' = InHand(s) /\ InHand(s) \in Int /\ Flying(s)' = 1 /\ Flying(s) = 0
          BY <2>1, <3>3 DEF InHand, Flying
        <5>4. Behind(s)' = Behind(s) + 1
          <6>1. line'[s] = line[s] /\ pump'[s] = pump[s] /\ Len(chan'[s]) = Len(chan[s]) - 1
            BY <2>1, <3>3, <5>2
          <6> DEFINE n == Len(chan[s])
                     h == InHand(s)
          <6>2. n \in Nat /\ h \in Int /\ line[s] \in Nat
            BY <1>0, <5>2, <5>3
          <6>3. Behind(s)' = line[s] - h - (n - 1)
            BY <5>3, <6>1 DEF Behind
          <6>4. Behind(s) = line[s] - h - n
            BY DEF Behind
          <6> HIDE DEF n, h
          <6> QED BY <6>2, <6>3, <6>4
        <5>5. \A i \in 1 .. Len(chan'[s]) : chan'[s][i] = Behind(s)' + i
          BY <3>3, <5>2, <5>4 DEF Follows
        <5>6. OnScreen(s)'
          BY <1>0, <2>1, <2>2, <3>3, <3>5, <5>1, <5>2, <5>3, <5>4, <5>5 DEF OnScreen, Begun
        <5> QED BY <2>1, <4>2, <5>6 DEF PaneInv, PaneShowsItsStream
      <4> QED BY <4>1, <4>2
    <3> QED BY <3>2, <3>4, <3>5, <3>6
  <2>3. CASE /\ chan[s] = <<>> /\ s \in ended /\ wait' = [wait EXCEPT ![s] = "done"]
             /\ UNCHANGED <<carried, chan>>
    <3>1. LogsTypes'
      BY <2>1, <2>3 DEF LogsTypes
    <3>2. wait'[s] = "done" /\ \A t \in Streams \ {s} : wait'[t] = wait[t]
      BY <2>3 DEF LogsTypes
    <3>3. Unopened' /\ Begun'
      BY <2>1, <2>3, <3>2 DEF Unopened, Begun
    <3>4. PaneInv' /\ PaneShowsItsStream'
      <4>1. CASE pane # s
        BY <1>0, <2>1, <2>3, <3>2, <4>1, PaneUntouched
      <4>2. CASE pane = s
        <5>1. Behind(s)' = Behind(s) /\ Flying(s)' = Flying(s)
          BY <2>1, <2>3, <3>2 DEF Behind, Flying, InHand
        <5>2. OnScreen(s)'
          BY <1>0, <2>1, <2>3, <3>2, <4>2, <5>1 DEF OnScreen
        <5> QED BY <2>1, <4>2, <5>2 DEF PaneInv, PaneShowsItsStream
      <4> QED BY <4>1, <4>2
    <3> QED BY <3>1, <3>3, <3>4
  <2> QED BY <1>2, <2>2, <2>3 DEF WaitForLog, Becomes
<1>3. CASE LogsCall(s)
  <2>1. UNCHANGED <<pane, logs, opened, cancelled, line, wait, carried>> /\ pump[s] = "dial"
    BY <1>3 DEF LogsCall
  <2>2. line[s] = 0 /\ chan[s] = <<>> /\ wait[s] # "line" /\ s \notin ended
    BY <2>1 DEF Begun
  <2>3. CASE chan' = [chan EXCEPT ![s] = Append(chan[s], 0)] /\ PumpReturns(s)
    <3>1. pump' = [pump EXCEPT ![s] = "done"] /\ ended' = ended \cup {s}
      BY <2>3 DEF PumpReturns
    <3>2. Append(chan[s], 0) \in Seq(Nat) /\ Append(chan[s], 0) = <<0>>
      BY <2>2
    <3>3. LogsTypes'
      BY <2>1, <2>3, <3>1, <3>2 DEF LogsTypes
    <3>4. /\ pump'[s] = "done" /\ chan'[s] = <<0>>
          /\ \A t \in Streams \ {s} : pump'[t] = pump[t] /\ chan'[t] = chan[t]
      BY <2>3, <3>1, <3>2 DEF LogsTypes
    <3>5. Unopened'
      BY <2>1, <3>4 DEF Unopened
    <3>6. Begun'
      BY <2>1, <3>1, <3>4 DEF Begun
    <3>7. PaneInv' /\ PaneShowsItsStream'
      <4>1. CASE pane # s
        BY <1>0, <2>1, <3>1, <3>4, <4>1, PaneUntouched
      <4>2. CASE pane = s
        <5>1. OnScreen(s) /\ logs = <<>>
          BY <1>0, <2>1, <2>2, <4>2 DEF OnScreen
        <5>2. Behind(s)' = 0 - 1 /\ Flying(s)' = 0
          BY <2>1, <2>2, <3>4 DEF Behind, InHand, Flying
        <5>3. \A i \in 1 .. Len(chan'[s]) : chan'[s][i] = Behind(s)' + i
          BY <3>4, <5>2
        <5>4. OnScreen(s)'
          BY <2>1, <2>2, <3>1, <3>4, <5>1, <5>2, <5>3 DEF OnScreen
        <5> QED BY <2>1, <4>2, <5>4 DEF PaneInv, PaneShowsItsStream
      <4> QED BY <4>1, <4>2
    <3> QED BY <3>3, <3>5, <3>6, <3>7
  <2>4. CASE pump' = [pump EXCEPT ![s] = "scan"] /\ UNCHANGED <<chan, ended>>
    <3>1. LogsTypes'
      BY <2>1, <2>4 DEF LogsTypes
    <3>2. pump'[s] = "scan" /\ \A t \in Streams \ {s} : pump'[t] = pump[t]
      BY <2>4 DEF LogsTypes
    <3>3. Unopened' /\ Begun'
      BY <2>1, <2>2, <2>4, <3>2 DEF Unopened, Begun
    <3>4. PaneInv' /\ PaneShowsItsStream'
      <4>1. CASE pane # s
        BY <1>0, <2>1, <2>4, <3>2, <4>1, PaneUntouched
      <4>2. CASE pane = s
        <5>1. Behind(s)' = Behind(s) /\ Flying(s)' = Flying(s)
          BY <2>1, <2>4, <3>2 DEF Behind, Flying, InHand
        <5>2. OnScreen(s)'
          BY <1>0, <2>1, <2>4, <3>2, <4>2, <5>1 DEF OnScreen
        <5> QED BY <2>1, <4>2, <5>2 DEF PaneInv, PaneShowsItsStream
      <4> QED BY <4>1, <4>2
    <3> QED BY <3>1, <3>3, <3>4
  <2> QED BY <1>3, <2>3, <2>4 DEF LogsCall
<1>4. ASSUME pump[s] # "dial", pump[s] # "none", UNCHANGED <<pane, logs, opened, cancelled, line, chan, wait, carried>>,
             PumpReturns(s), pump[s] = "scan" \/ s \in cancelled
      PROVE  LogsInv'
  <2>1. pump' = [pump EXCEPT ![s] = "done"] /\ ended' = ended \cup {s}
    BY <1>4 DEF PumpReturns
  <2>2. LogsTypes'
    BY <1>4, <2>1 DEF LogsTypes
  <2>3. pump'[s] = "done" /\ \A t \in Streams \ {s} : pump'[t] = pump[t]
    BY <2>1 DEF LogsTypes
  <2>4. Unopened' /\ Begun'
    BY <1>4, <2>1, <2>3 DEF Unopened, Begun
  <2>5. PaneInv' /\ PaneShowsItsStream'
    <3>1. CASE pane # s
      BY <1>0, <1>4, <2>1, <2>3, <3>1, PaneUntouched
    <3>2. CASE pane = s
      <4>1. pump[s] = "scan"
        BY <1>0, <1>4, <3>2 DEF OnScreen
      <4>2. Behind(s)' = Behind(s) /\ Flying(s)' = Flying(s)
        BY <1>4, <2>3, <4>1 DEF Behind, Flying, InHand
      <4>3. OnScreen(s)'
        BY <1>0, <1>4, <2>1, <2>3, <3>2, <4>2 DEF OnScreen
      <4> QED BY <1>4, <3>2, <4>3 DEF PaneInv, PaneShowsItsStream
    <3> QED BY <3>1, <3>2
  <2> QED BY <2>2, <2>4, <2>5
<1>5. CASE Scan(s)
  <2>1. UNCHANGED <<pane, logs, opened, cancelled, chan, wait, carried>> /\ pump[s] = "scan" /\ s \notin ended
    BY <1>5 DEF Scan, Begun
  <2>2. CASE /\ line' = [line EXCEPT ![s] = line[s] + 1] /\ pump' = [pump EXCEPT ![s] = "send"]
             /\ UNCHANGED ended
    <3>1. line[s] + 1 \in Nat
      BY <1>0
    <3>2. LogsTypes'
      BY <2>1, <2>2, <3>1 DEF LogsTypes
    <3>3. /\ pump'[s] = "send" /\ line'[s] = line[s] + 1
          /\ \A t \in Streams \ {s} : pump'[t] = pump[t] /\ line'[t] = line[t]
      BY <2>2 DEF LogsTypes
    <3>4. Unopened'
      BY <2>1, <3>3 DEF Unopened
    <3>5. Begun'
      BY <1>0, <2>1, <2>2, <3>3 DEF Begun
    <3>6. PaneInv' /\ PaneShowsItsStream'
      <4>1. CASE pane # s
        BY <1>0, <2>1, <2>2, <3>3, <4>1, PaneUntouched
      <4>2. CASE pane = s
        <5>1. Len(chan[s]) \in Nat
          BY <1>0
        <5>2. Behind(s)' = Behind(s) /\ Flying(s)' = Flying(s)
          BY <1>0, <2>1, <3>3, <5>1 DEF Behind, Flying, InHand
        <5>3. line[s] = 0 => Behind(s) = 0 /\ Flying(s) = 0 /\ logs = <<>>
          <6> SUFFICES ASSUME line[s] = 0 PROVE Behind(s) = 0 /\ Flying(s) = 0 /\ logs = <<>>
            OBVIOUS
          <6>1. chan[s] = <<>> /\ wait[s] # "line"
            BY <2>1 DEF Begun
          <6>2. logs = <<>>
            BY <1>0, <2>1, <4>2 DEF OnScreen
          <6>3. Len(chan[s]) = 0 /\ InHand(s) = 0 /\ Flying(s) = 0
            BY <2>1, <6>1 DEF Flying, InHand
          <6> QED BY <6>2, <6>3 DEF Behind
        <5>4. logs = <<>> => Behind(s) = Flying(s)
          BY <1>0, <4>2, <5>3 DEF OnScreen
        <5>5. OnScreen(s)'
          BY <1>0, <2>1, <2>2, <3>3, <4>2, <5>2, <5>4 DEF OnScreen
        <5> QED BY <2>1, <4>2, <5>5 DEF PaneInv, PaneShowsItsStream
      <4> QED BY <4>1, <4>2
    <3> QED BY <3>2, <3>4, <3>5, <3>6
  <2>3. CASE PumpReturns(s) /\ UNCHANGED line
    BY <1>4, <2>1, <2>3
  <2> QED BY <1>5, <2>2, <2>3 DEF Scan, Becomes
<1>6. CASE Send(s)
  <2>1. /\ UNCHANGED <<pane, logs, opened, cancelled, line, wait, carried>> /\ pump[s] = "send"
        /\ s \notin ended /\ line[s] > 0
    BY <1>6 DEF Send, Begun
  <2>2. CASE /\ chan' = [chan EXCEPT ![s] = Append(chan[s], line[s])] /\ pump' = [pump EXCEPT ![s] = "scan"]
             /\ UNCHANGED ended
    <3>1. Append(chan[s], line[s]) \in Seq(Nat)
      BY <1>0
    <3>2. LogsTypes'
      BY <2>1, <2>2, <3>1 DEF LogsTypes
    <3>3. /\ pump'[s] = "scan" /\ chan'[s] = Append(chan[s], line[s])
          /\ \A t \in Streams \ {s} : pump'[t] = pump[t] /\ chan'[t] = chan[t]
      BY <2>2 DEF LogsTypes
    <3>4. Unopened'
      BY <2>1, <3>3 DEF Unopened
    <3>5. Begun'
      BY <1>0, <2>1, <2>2, <3>3 DEF Begun
    <3>6. PaneInv' /\ PaneShowsItsStream'
      <4>1. CASE pane # s
        BY <1>0, <2>1, <2>2, <3>3, <4>1, PaneUntouched
      <4>2. CASE pane = s
        <5>1. OnScreen(s) /\ Follows(chan[s], Behind(s))
          BY <1>0, <4>2 DEF OnScreen, Follows
        <5>2. Len(chan[s]) \in Nat /\ line[s] = Behind(s) + Len(chan[s]) + 1
          BY <1>0, <2>1 DEF Behind, InHand
        <5>3. /\ Len(Append(chan[s], line[s])) = Len(chan[s]) + 1
              /\ Follows(Append(chan[s], line[s]), Behind(s))
          BY <1>0, <5>1, <5>2, AddLast
        <5>4. Behind(s)' = Behind(s) /\ Flying(s)' = Flying(s)
          BY <1>0, <2>1, <3>3, <5>2, <5>3 DEF Behind, Flying, InHand
        <5>5. \A i \in 1 .. Len(chan'[s]) : chan'[s][i] = Behind(s)' + i
          BY <3>3, <5>3, <5>4 DEF Follows
        <5>6. OnScreen(s)'
          BY <1>0, <2>1, <2>2, <5>1, <5>4, <5>5 DEF OnScreen
        <5> QED BY <2>1, <4>2, <5>6 DEF PaneInv, PaneShowsItsStream
      <4> QED BY <4>1, <4>2
    <3> QED BY <3>2, <3>4, <3>5, <3>6
  <2>3. CASE s \in cancelled /\ PumpReturns(s) /\ UNCHANGED chan
    BY <1>4, <2>1, <2>3
  <2> QED BY <1>6, <2>2, <2>3 DEF Send
<1> QED BY <1>1, <1>2, <1>3, <1>5, <1>6

(* The event loop and the goroutines keep the invariant.                   *)
LEMMA LogsStep ==
  ASSUME LogsInv, [Next]_vars
  PROVE  LogsInv'
<1>1. CASE Next /\ ~SetActive
  BY <1>1, LoopStep, GoroutineStep DEF Next
<1>2. CASE SetActive \/ UNCHANGED vars
  <2>1. UNCHANGED <<pane, logs, opened, cancelled, pump, line, chan, ended, wait, carried>>
    BY <1>2 DEF SetActive
  <2> QED BY <2>1 DEF LogsInv, LogsTypes, Unopened, Begun, PaneInv, OnScreen, Behind, InHand, Flying, PaneShowsItsStream
<1> QED BY <1>1, <1>2

(* LogLine takes a line of the stream on screen only, however many closed  *)
(* panes still have a message in flight, and Kept cuts at the front.       *)
THEOREM PaneIsItsStream == Spec => []PaneShowsItsStream
<1>1. LogsInv => PaneShowsItsStream
  BY DEF LogsInv
<1> QED BY <1>1, InitLogs, LogsStep, PTL DEF Spec

(* The pump's select, the channel and the wait command lose, repeat and    *)
(* reorder no line of the stream on screen, for any capacity.              *)
THEOREM PaneLosesNothing == Spec => []NothingLost
<1>1. LogsInv => NothingLost
  <2> SUFFICES ASSUME LogsInv, pane # 0, line[pane] > 0
        PROVE  (IF logs = <<>> THEN 0 ELSE logs[Len(logs)][2]) + Flying(pane) + Len(chan[pane]) + InHand(pane) = line[pane]
    BY DEF NothingLost, Flying, InHand
  <2>1. OnScreen(pane) /\ pane \in Streams
    BY DEF LogsInv, PaneInv, LogsTypes
  <2>2. line[pane] \in Nat /\ Len(chan[pane]) \in Nat /\ Flying(pane) \in Nat /\ InHand(pane) \in Nat
    BY <2>1 DEF LogsInv, LogsTypes, Flying, InHand
  <2>3. (IF logs = <<>> THEN 0 ELSE logs[Len(logs)][2]) = Behind(pane) - Flying(pane)
    BY <2>1, <2>2 DEF OnScreen, Behind
  <2> QED BY <2>2, <2>3 DEF Behind
<1> QED BY <1>1, InitLogs, LogsStep, PTL DEF Spec

(* The chain of wait commands of the stream the pane follows ends only     *)
(* when its channel is closed and empty, whatever tab is active when its   *)
(* messages arrive (Update's routing of completions to every tab).         *)
THEOREM PaneIsArmed == Spec => []PaneStaysArmed
<1>1. LogsInv => PaneStaysArmed
  BY DEF LogsInv, PaneInv, OnScreen, PaneStaysArmed
<1> QED BY <1>1, InitLogs, LogsStep, PTL DEF Spec

-----------------------------------------------------------------------------
(* The capacities: the channel's, which LogsCall fills without looking at  *)
(* it, and the pane's.  A copier that is writing has not counted its line. *)
LogsBounded ==
  /\ Len(logs) <= LogLines /\ opened <= MaxOpen
  /\ cancelled \subseteq Streams /\ ended \subseteq Streams
  /\ copier \in [Streams -> {"none", "read", "write", "done"}]
  /\ body \in [Streams -> {"none", "open", "eof", "shut"}]
  /\ \A s \in Streams :
       /\ Len(chan[s]) <= ChanCap /\ line[s] <= MaxLine
       /\ copier[s] = "write" => line[s] < MaxLine

(* What is kept of the pane's lines is within its capacity.                *)
LEMMA KeptBounded ==
  ASSUME NEW S, NEW q \in Seq(S), Len(q) <= LogLines, NEW x \in S
  PROVE  Len(Kept(Append(q, x))) <= LogLines
<1> DEFINE all == Append(q, x)
<1>1. all \in Seq(S) /\ Len(all) = Len(q) + 1 /\ Len(q) \in Nat
  OBVIOUS
<1> HIDE DEF all
<1>2. CASE Len(all) > LogLines
  <2> DEFINE kept == SubSeq(all, Len(all) - LogLines + 1, Len(all))
  <2>1. \A i \in Len(all) - LogLines + 1 .. Len(all) : all[i] \in S
    <3>1. \A i \in 1 .. Len(all) : all[i] \in S
      BY <1>1
    <3> QED BY <1>1, <1>2, <3>1
  <2>2. Len(kept) = LogLines
    BY <1>1, <1>2, <2>1, SubSeqProperties, SMT
  <2> HIDE DEF kept
  <2> QED BY <1>2, <2>2 DEF Kept, kept
<1>3. CASE ~(Len(all) > LogLines)
  BY <1>1, <1>3 DEF Kept
<1> QED BY <1>2, <1>3 DEF all

(* The deferred calls of a pump.                                           *)
LEMMA ReturnBounded ==
  ASSUME LogsBounded, NEW s \in Streams, PumpReturns(s)
  PROVE  ended' \subseteq Streams /\ body' \in [Streams -> {"none", "open", "eof", "shut"}]
BY DEF LogsBounded, PumpReturns

(* Every step keeps the capacities.                                        *)
LEMMA LogsBoundedStep ==
  ASSUME LogsInv, LogsBounded, [Next]_vars
  PROVE  LogsBounded'
<1>0. /\ LogsTypes /\ opened \in Nat
      /\ \A s \in Streams : chan[s] \in Seq(Nat) /\ Len(chan[s]) \in Nat /\ line[s] \in Nat
  <2>1. LogsTypes /\ opened \in Nat
    BY DEF LogsInv, LogsTypes
  <2>2. \A s \in Streams : chan[s] \in Seq(Nat) /\ line[s] \in Nat
    BY <2>1 DEF LogsTypes
  <2>3. \A s \in Streams : Len(chan[s]) \in Nat
    BY <2>2
  <2> QED BY <2>1, <2>2, <2>3
<1> USE DEF LogsBounded
<1>1. CASE OpenLogs
  <2>1. Len(logs') <= LogLines
    BY <1>1 DEF OpenLogs
  <2> QED BY <1>0, <1>1, <2>1 DEF OpenLogs
<1>2. CASE CloseLogs
  <2>1. pane \in Streams /\ logs' = <<>>
    BY <1>0, <1>2 DEF CloseLogs, LogsTypes
  <2> QED BY <1>2, <2>1 DEF CloseLogs
<1>3. ASSUME NEW s \in Streams, LogLine(s) PROVE LogsBounded'
  <2>1. Len(logs') <= LogLines
    <3>1. <<s, carried[s]>> \in Streams \X Nat /\ logs \in Seq(Streams \X Nat)
      BY <1>0 DEF LogsTypes
    <3>2. Len(Kept(Append(logs, <<s, carried[s]>>))) <= LogLines
      BY <3>1, KeptBounded
    <3> QED BY <1>3, <3>2 DEF LogLine
  <2> QED BY <1>3, <2>1 DEF LogLine
<1>4. ASSUME NEW s \in Streams, LogDone(s) PROVE LogsBounded'
  BY <1>4 DEF LogDone
<1>5. ASSUME NEW s \in Streams, WaitForLog(s) PROVE LogsBounded'
  <2>1. /\ UNCHANGED <<logs, opened, cancelled, ended, copier, body, line>>
        /\ \A t \in Streams : Len(chan'[t]) <= ChanCap
    <3>1. CASE chan' = chan
      BY <1>5, <3>1 DEF WaitForLog
    <3>2. CASE chan[s] # <<>> /\ chan' = [chan EXCEPT ![s] = Tail(@)]
      <4>1. Len(Tail(chan[s])) <= ChanCap
        BY <1>0, <3>2
      <4> QED BY <1>0, <1>5, <3>2, <4>1 DEF WaitForLog, LogsTypes
    <3> QED BY <1>5, <3>1, <3>2 DEF WaitForLog
  <2>2. \A t \in Streams : line'[t] <= MaxLine /\ (copier'[t] = "write" => line'[t] < MaxLine)
    BY <2>1
  <2> QED BY <2>1, <2>2
<1>6. ASSUME NEW s \in Streams, LogsCall(s) PROVE LogsBounded'
  <2>1. pump[s] = "dial" /\ chan[s] = <<>> /\ line[s] = 0
    BY <1>6 DEF LogsCall, LogsInv, Begun
  <2>2. CASE chan' = [chan EXCEPT ![s] = Append(@, 0)] /\ PumpReturns(s) /\ UNCHANGED copier
    <3>1. Len(Append(chan[s], 0)) = 1
      BY <2>1
    <3>2. \A t \in Streams : Len(chan'[t]) <= ChanCap
      <4>1. DOMAIN chan = Streams
        BY <1>0 DEF LogsTypes
      <4>2. chan'[s] = Append(chan[s], 0) /\ \A t \in Streams \ {s} : chan'[t] = chan[t]
        BY <2>2, <4>1
      <4>3. Len(chan'[s]) <= ChanCap
        BY <3>1, <4>2, LogsAssumption DEF LogsAssumption
      <4>4. ASSUME NEW t \in Streams \ {s} PROVE Len(chan'[t]) <= ChanCap
        BY <4>2 DEF LogsBounded
      <4> QED BY <4>3, <4>4
    <3> QED BY <1>6, <2>2, <3>2, ReturnBounded DEF LogsCall
  <2>3. CASE /\ body' = [body EXCEPT ![s] = "open"] /\ copier' = [copier EXCEPT ![s] = "read"]
             /\ UNCHANGED <<chan, ended>>
    BY <1>6, <2>3 DEF LogsCall
  <2> QED BY <1>6, <2>2, <2>3 DEF LogsCall
<1>7. ASSUME NEW s \in Streams, Scan(s) PROVE LogsBounded'
  <2>1. CASE /\ Becomes(copier, s, "write", "read") /\ line' = [line EXCEPT ![s] = @ + 1]
             /\ UNCHANGED <<ended, body>>
    <3>1. line[s] < MaxLine /\ copier' = [copier EXCEPT ![s] = "read"]
      BY <2>1 DEF Becomes
    <3>2. \A t \in Streams : line'[t] <= MaxLine /\ (copier'[t] = "write" => line'[t] < MaxLine)
      BY <1>0, <2>1, <3>1 DEF LogsTypes
    <3> QED BY <1>7, <2>1, <3>1, <3>2 DEF Scan
  <2>2. CASE PumpReturns(s) /\ UNCHANGED <<copier, line>>
    BY <1>7, <2>2, ReturnBounded DEF Scan
  <2> QED BY <1>7, <2>1, <2>2 DEF Scan
<1>8. ASSUME NEW s \in Streams, Send(s) PROVE LogsBounded'
  <2>1. CASE /\ Len(chan[s]) < ChanCap /\ chan' = [chan EXCEPT ![s] = Append(@, line[s])]
             /\ UNCHANGED <<ended, body>>
    <3>1. Len(Append(chan[s], line[s])) = Len(chan[s]) + 1
      BY <1>0
    <3>2. \A t \in Streams : Len(chan'[t]) <= ChanCap
      BY <1>0, <2>1, <3>1 DEF LogsTypes
    <3> QED BY <1>8, <2>1, <3>2 DEF Send
  <2>2. CASE PumpReturns(s) /\ UNCHANGED chan
    BY <1>8, <2>2, ReturnBounded DEF Send
  <2> QED BY <1>8, <2>1, <2>2 DEF Send
<1>9. ASSUME NEW s \in Streams, CopyRead(s) PROVE LogsBounded'
  BY <1>9 DEF CopyRead, Becomes
<1>10. ASSUME NEW s \in Streams, DaemonEnds(s) PROVE LogsBounded'
  BY <1>10 DEF DaemonEnds, Becomes
<1>11. CASE SetActive \/ UNCHANGED vars
  BY <1>11 DEF SetActive
<1> QED BY <1>1, <1>2, <1>3, <1>4, <1>5, <1>6, <1>7, <1>8, <1>9, <1>10, <1>11 DEF Next

(* Only setActive moves the user to another tab, or back.                  *)
FrontTyped == front \in BOOLEAN

LEMMA FrontStep ==
  ASSUME FrontTyped, [Next]_vars
  PROVE  FrontTyped'
<1>1. CASE SetActive
  BY <1>1 DEF SetActive, FrontTyped
<1>2. CASE UNCHANGED front
  BY <1>2 DEF FrontTyped
<1>3. SetActive \/ UNCHANGED front
  BY DEF Next, vars, loopVars, OpenLogs, CloseLogs, LogLine, LogDone, WaitForLog, LogsCall,
         Scan, Send, CopyRead, DaemonEnds
<1> QED BY <1>1, <1>2, <1>3

-----------------------------------------------------------------------------
(* The remote client.                                                      *)

(* Its inductive invariant: the hook is armed between Arm and the return   *)
(* of Dial only, and only while the context lives; until then there is no  *)
(* callback that could close the connection.                               *)
HookInv ==
  /\ hook = "armed" => ctx = "live" /\ pc \in {"auth", "hello", "return"}
  /\ hook \in {"started", "ran"} => ctx = "done"
  /\ pc \in {"idle", "dial", "arm"} => hook = "none"
  /\ pc = "idle" <=> ctx = "none"
  /\ pc \in {"idle", "dial"} => conn = "none"
  /\ C!FailedDialLeaksNothing

ClientInv == C!TypeOK /\ HookInv

(* Dial has not begun.                                                     *)
LEMMA ClientInit == C!Init => ClientInv
<1> SUFFICES ASSUME C!Init PROVE ClientInv
  OBVIOUS
<1>1. C!TypeOK
  <2>1. wire \in Seq({"hello", "other", "snap", "bad"}) /\ Len(wire) <= MaxWire
    BY FramesAssumption DEF C!Init, C!ClientAssumption
  <2>2. sent \in 0 .. MaxSent
    BY FramesAssumption DEF C!Init, C!ClientAssumption
  <2>3. hung \in BOOLEAN
    BY DEF C!Init
  <2> QED BY <2>1, <2>2, <2>3 DEF C!Init, C!TypeOK
<1>2. HookInv
  BY DEF C!Init, HookInv, C!FailedDialLeaksNothing
<1> QED BY <1>1, <1>2 DEF ClientInv

(* Every step of the client, its context and the server keeps the types.   *)
LEMMA ClientTyped ==
  ASSUME C!TypeOK, C!Next
  PROVE  C!TypeOK'
<1> DEFINE Frames == {"hello", "other", "snap", "bad"}
<1>1. ASSUME NEW f \in Frames, C!ServerSends(f) PROVE C!TypeOK'
  <2>1. /\ wire' = Append(wire, f) /\ Len(wire) < MaxWire /\ sent' = sent + 1 /\ sent < MaxSent
        /\ UNCHANGED <<ctx, hook, conn, pc, hung>>
    BY <1>1 DEF C!ServerSends
  <2>2. wire \in Seq(Frames) /\ sent \in 0 .. MaxSent /\ MaxSent \in Nat /\ MaxWire \in Nat
    BY FramesAssumption DEF C!TypeOK, C!ClientAssumption
  <2>3. wire' \in Seq(Frames) /\ Len(wire') <= MaxWire /\ sent' \in 0 .. MaxSent
    BY <2>1, <2>2
  <2> QED BY <2>1, <2>3 DEF C!TypeOK
<1>2. wire # <<>> => Tail(wire) \in Seq(Frames) /\ Len(Tail(wire)) <= MaxWire
  <2>1. wire \in Seq(Frames) /\ Len(wire) <= MaxWire /\ MaxWire \in Nat
    BY FramesAssumption DEF C!TypeOK, C!ClientAssumption
  <2> QED BY <2>1
<1>3. CASE C!Start \/ C!CtxDone \/ C!HookRuns \/ C!ServerHangsUp
  BY <1>3 DEF C!Start, C!CtxDone, C!HookRuns, C!ServerHangsUp, C!netVars, C!TypeOK, C!InDial
<1>4. CASE C!Connect \/ C!Arm \/ C!WriteAuth \/ C!Return
  BY <1>4 DEF C!Connect, C!Arm, C!WriteAuth, C!Return, C!Fail, C!Stopped, C!netVars, C!TypeOK, C!InDial
<1>5. CASE C!ReadHello
  BY <1>2, <1>5 DEF C!ReadHello, C!Fail, C!Stopped, C!TypeOK, C!InDial
<1>6. CASE C!ReadSnap
  BY <1>2, <1>6 DEF C!ReadSnap, C!TypeOK, C!InDial
<1> QED BY <1>1, <1>3, <1>4, <1>5, <1>6 DEF C!Next, C!Dial

(* And the hook's place.                                                   *)
LEMMA HookKept ==
  ASSUME ClientInv, C!Next
  PROVE  HookInv'
<1> USE DEF ClientInv, HookInv, C!FailedDialLeaksNothing, C!TypeOK, C!netVars
<1>1. CASE C!Start
  BY <1>1 DEF C!Start
<1>2. CASE C!CtxDone
  BY <1>2 DEF C!CtxDone
<1>3. CASE C!HookRuns
  BY <1>3 DEF C!HookRuns
<1>4. CASE C!Connect
  <2>1. pc = "dial" /\ hook = "none" /\ conn = "none" /\ hook' = hook /\ ctx' = ctx
    BY <1>4 DEF C!Connect
  <2>2. pc' = "arm" \/ (pc' = "failed" /\ conn' = conn)
    BY <1>4 DEF C!Connect
  <2> QED BY <2>1, <2>2
<1>10. CASE C!Arm
  BY <1>10 DEF C!Arm
<1>5. CASE C!WriteAuth
  BY <1>5 DEF C!WriteAuth, C!Fail, C!Stopped
<1>6. CASE C!ReadHello
  BY <1>6 DEF C!ReadHello, C!Fail, C!Stopped
<1>7. CASE C!Return
  BY <1>7 DEF C!Return, C!Stopped
<1>8. CASE C!ReadSnap
  BY <1>8 DEF C!ReadSnap
<1>9. ASSUME NEW f, C!ServerHangsUp \/ C!ServerSends(f) PROVE HookInv'
  BY <1>9 DEF C!ServerHangsUp, C!ServerSends
<1> QED BY <1>1, <1>2, <1>3, <1>4, <1>5, <1>6, <1>7, <1>8, <1>9, <1>10 DEF C!Next, C!Dial

(* No way out of Dial leaves a connection behind an error, and a deadline  *)
(* that passes after Dial returned starts no callback.                     *)
THEOREM DialLeavesNoTrace == C!Spec => DialLeavesNothing
<1> DEFINE Past == pc \notin C!InDial /\ ctx = "live" /\ ctx' = "done" => hook' # "started"
<1>1. ClientInv /\ [C!Next]_C!vars => ClientInv'
  <2>1. CASE UNCHANGED C!vars
    BY <2>1 DEF C!vars, C!netVars, ClientInv, HookInv, C!FailedDialLeaksNothing, C!TypeOK
  <2> QED BY <2>1, ClientTyped, HookKept DEF ClientInv
<1>2. ClientInv => C!FailedDialLeaksNothing
  BY DEF ClientInv, HookInv
<1>3. ClientInv /\ [C!Next]_C!vars => [Past]_C!vars
  <2> SUFFICES ASSUME ClientInv, C!Next, pc \notin C!InDial, ctx = "live", ctx' = "done"
               PROVE  hook' # "started"
    OBVIOUS
  <2>1. hook # "armed" /\ hook # "started"
    BY DEF ClientInv, HookInv, C!InDial
  <2>2. CASE C!CtxDone
    BY <2>1, <2>2 DEF C!CtxDone
  <2>3. CASE ~C!CtxDone
    BY <2>3 DEF C!Next, C!Start, C!HookRuns, C!Dial, C!Connect, C!Arm, C!WriteAuth, C!ReadHello,
                C!Return, C!ReadSnap, C!ServerHangsUp, C!ServerSends
  <2> QED BY <2>2, <2>3
<1> QED BY <1>1, <1>2, <1>3, ClientInit, PTL
        DEF C!Spec, DialLeavesNothing, C!DialLeavesNothing, C!DeadlineEndsWithDial

(* Whichever stream a behaviour follows, its state is well typed: the      *)
(* channel and the pane stay within their capacities.                      *)
THEOREM StreamsTypesCorrect == MCSpec => []Types
<1> DEFINE TInv == LogsInv /\ LogsBounded /\ FrontTyped /\ C!TypeOK
<1>1. MCInit => TInv
  <2>1. Init => LogsBounded
    BY DEF Init, LogsBounded
  <2>2. Init => FrontTyped
    BY DEF Init, FrontTyped
  <2> QED BY <2>1, <2>2, InitLogs, ClientInit DEF MCInit, ClientInv
<1>2. TInv /\ [MCNext]_<<vars, half, remoteVars>> => TInv'
  <2> SUFFICES ASSUME TInv, [MCNext]_<<vars, half, remoteVars>> PROVE TInv'
    OBVIOUS
  <2>1. [Next]_vars
    BY DEF MCNext
  <2>2. C!Next \/ UNCHANGED remoteVars
    BY DEF MCNext
  <2>3. UNCHANGED remoteVars => C!TypeOK'
    BY DEF remoteVars, C!TypeOK
  <2> QED BY <2>1, <2>2, <2>3, LogsStep, LogsBoundedStep, FrontStep, ClientTyped
<1>3. TInv => Types
  <2> SUFFICES ASSUME LogsInv, LogsBounded, FrontTyped PROVE TypeOK
    BY DEF Types
  <2>1. opened <= MaxOpen
    BY DEF LogsBounded
  <2>2. front \in BOOLEAN
    BY DEF FrontTyped
  <2> QED BY <2>1, <2>2 DEF LogsInv, LogsTypes, LogsBounded, TypeOK
<1> QED BY <1>1, <1>2, <1>3, PTL DEF MCSpec

(* A behaviour of the composition is one of the log viewer and one of the  *)
(* client: a step of either leaves the other alone.                        *)
LEMMA HalvesRun == MCSpec => Spec /\ C!Spec
<1>1. MCInit => Init /\ C!Init
  BY DEF MCInit
<1>2. [MCNext]_<<vars, half, remoteVars>> => [Next]_vars
  BY DEF MCNext
<1>3. [MCNext]_<<vars, half, remoteVars>> => [C!Next]_C!vars
  <2>1. UNCHANGED remoteVars => UNCHANGED C!vars
    BY DEF remoteVars, C!vars, C!netVars
  <2> QED BY <2>1 DEF MCNext
<1> HIDE DEF vars
<1> QED BY <1>1, <1>2, <1>3, PTL DEF MCSpec, Spec, C!Spec

(* All the safety that the model checker is asked of one instance of the   *)
(* two streams, of every instance.                                         *)
THEOREM StreamsCorrect ==
  MCSpec => /\ [](Types /\ PaneShowsItsStream /\ NothingLost /\ PaneStaysArmed)
            /\ DialLeavesNothing
<1>1. Spec => [](PaneShowsItsStream /\ NothingLost /\ PaneStaysArmed)
  BY PaneIsItsStream, PaneLosesNothing, PaneIsArmed, PTL
<1> QED BY <1>1, HalvesRun, StreamsTypesCorrect, DialLeavesNoTrace, PTL
=============================================================================
