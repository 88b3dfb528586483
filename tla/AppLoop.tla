------------------------------ MODULE AppLoop -------------------------------
(***************************************************************************)
(* The root model's event loop (internal/app/app.go): the tick that starts *)
(* a Collect and a container listing without waiting for the previous      *)
(* ones, the docker connect and retry chain, the alert history, the config *)
(* reload and, in remote mode, the reader goroutine that feeds the loop.   *)
(*                                                                         *)
(* Commands run in goroutines of their own and their messages arrive in    *)
(* any order.  A sample is named by the position of its Collect among all  *)
(* Collects, which is the order of the Time it carries; a remote sample by *)
(* its position in the stream.                                             *)
(***************************************************************************)
EXTENDS Integers, Sequences, FiniteSets, SequencesExt

CONSTANTS
  Keys,           \* what can raise an alert
  AlertHistory,   \* capacity of the alert history (256 in the code)
  MaxSample       \* bound: samples taken in a behaviour

ASSUME AppAssumption ==
  AlertHistory \in Nat \ {0} /\ MaxSample \in Nat \ {0} /\ IsFiniteSet(Keys)

VARIABLES
  stream,      \* remote mode: snapshots come from a server
  dockerOn,    \* cfg.Modules.Docker
  readOnly,    \* cfg.ReadOnly
  ticks,       \* armed refresh timers
  spawned,     \* collect commands whose Collect has not begun
  running,     \* Collects begun and not yet delivered
  begun,       \* Collects begun so far
  latest,      \* the sample m.latest holds (0: none yet)
  lastKeys,    \* the keys that sample raised
  openAlerts,  \* key -> the sample that opened its event
  alerts,      \* the history, oldest first; end = 0 while ongoing
  connecting,  \* docker connect commands in flight
  retries,     \* armed docker retry timers
  client,      \* m.docker # nil
  lists,       \* container listings in flight
  reader,      \* the reader goroutine: "next", "send", "ended", "done"
  got,         \* snapshots it has read from the stream
  lost         \* m.remoteLost

modeVars == <<stream, dockerOn>>
pollVars == <<ticks, spawned, running, begun>>
alertVars == <<latest, lastKeys, openAlerts, alerts>>
dockerVars == <<connecting, retries, client, lists>>
remoteVars == <<reader, got, lost>>
vars == <<modeVars, readOnly, pollVars, alertVars, dockerVars, remoteVars>>

Empty == [k \in {} |-> 0]

(* New or NewRemote, then Init: remotely docker is off, the view is        *)
(* read-only and nothing is polled.                                        *)
Init ==
  /\ stream \in BOOLEAN
  /\ dockerOn \in IF stream THEN {FALSE} ELSE BOOLEAN
  /\ readOnly \in IF stream THEN {TRUE} ELSE BOOLEAN
  /\ ticks = IF stream THEN 0 ELSE 1
  /\ spawned = IF stream THEN 0 ELSE 1
  /\ running = {} /\ begun = 0
  /\ latest = 0 /\ lastKeys = {} /\ openAlerts = Empty /\ alerts = <<>>
  /\ connecting = IF dockerOn THEN 1 ELSE 0
  /\ retries = 0 /\ client = FALSE /\ lists = 0
  /\ reader = IF stream THEN "next" ELSE "done"
  /\ got = 0 /\ lost = FALSE

-----------------------------------------------------------------------------
(* Alerts. *)

(* The history after one event of each new key was appended, the events of *)
(* the keys in gone were closed, and the oldest events were cut.           *)
Closed(ev, gone, t) ==
  IF ev.key \in gone /\ ev.start = openAlerts[ev.key] THEN [ev EXCEPT !.end = t] ELSE ev

(* Mutants of Cut: keeps one event only; keeps them all.                   *)
Cut_All(s) == s
Cut_One(s) == IF Len(s) > AlertHistory THEN SubSeq(s, Len(s), Len(s)) ELSE s

Cut(s) ==
  IF Len(s) > AlertHistory THEN SubSeq(s, Len(s) - AlertHistory + 1, Len(s)) ELSE s

(* Mutant of TrackAlerts: a key that disappeared is forgotten, and its     *)
(* event is left ongoing.                                                  *)
TrackAlerts_Forget(t, raised) ==
  LET known == DOMAIN openAlerts
      opened == SetToSeq(raised \ known)
  IN
  /\ openAlerts' = [k \in raised |-> IF k \in known THEN openAlerts[k] ELSE t]
  /\ alerts' = Cut(alerts \o [i \in DOMAIN opened |->
                                [key |-> opened[i], start |-> t, end |-> 0]])

(* Mutant of TrackAlerts: a key still raised opens an event again.         *)
TrackAlerts_Reopen(t, raised) ==
  LET known == DOMAIN openAlerts
      opened == SetToSeq(raised)
      kept == [i \in DOMAIN alerts |-> Closed(alerts[i], known \ raised, t)]
  IN
  /\ openAlerts' = [k \in raised |-> t]
  /\ alerts' = Cut(kept \o [i \in DOMAIN opened |->
                              [key |-> opened[i], start |-> t, end |-> 0]])

(* New keys open events, keys that disappeared close theirs.               *)
TrackAlerts(t, raised) ==
  LET known == DOMAIN openAlerts
      opened == SetToSeq(raised \ known)
      kept == [i \in DOMAIN alerts |-> Closed(alerts[i], known \ raised, t)]
  IN
  /\ openAlerts' = [k \in raised |-> IF k \in known THEN openAlerts[k] ELSE t]
  /\ alerts' = Cut(kept \o [i \in DOMAIN opened |->
                              [key |-> opened[i], start |-> t, end |-> 0]])

(* SnapshotMsg: the sample becomes the latest one; raised is what          *)
(* EvaluateAlerts finds in it under the thresholds of the moment.          *)
Snapshot(t, raised) ==
  /\ latest' = t
  /\ lastKeys' = raised
  /\ TrackAlerts(t, raised)

-----------------------------------------------------------------------------
(* Local polling. *)

BeginCollect ==
  /\ spawned > 0
  /\ spawned' = spawned - 1
  /\ begun' = begun + 1
  /\ running' = running \cup {begun + 1}
  /\ UNCHANGED <<modeVars, readOnly, ticks, alertVars, dockerVars, remoteVars>>

SnapshotMsg(t, raised) ==
  /\ t \in running
  /\ running' = running \ {t}
  /\ Snapshot(t, raised)
  /\ UNCHANGED <<modeVars, readOnly, ticks, spawned, begun, dockerVars, remoteVars>>

(* Mutant of TickMsg: dials the daemon again when there is no client yet.  *)
TickMsg_Redial ==
  /\ ticks > 0 /\ begun + spawned < MaxSample
  /\ spawned' = spawned + 1
  /\ lists' = IF dockerOn /\ client THEN lists + 1 ELSE lists
  /\ connecting' = IF dockerOn /\ ~client THEN connecting + 1 ELSE connecting
  /\ UNCHANGED <<modeVars, readOnly, ticks, running, begun, alertVars>>
  /\ UNCHANGED <<retries, client, remoteVars>>

(* The timer fires and is armed again in the same step.                    *)
TickMsg ==
  /\ ticks > 0 /\ begun + spawned < MaxSample
  /\ spawned' = spawned + 1
  /\ lists' = IF dockerOn /\ client THEN lists + 1 ELSE lists
  /\ UNCHANGED <<modeVars, readOnly, ticks, running, begun, alertVars>>
  /\ UNCHANGED <<connecting, retries, client, remoteVars>>

-----------------------------------------------------------------------------
(* Docker. *)

(* The connect command's UpdateMsg: a client, or an error and a pause.     *)
ConnectMsg ==
  /\ connecting > 0
  /\ connecting' = connecting - 1
  /\ \/ client' = TRUE /\ UNCHANGED retries
     \/ retries' = retries + 1 /\ UNCHANGED client
  /\ UNCHANGED <<modeVars, readOnly, pollVars, alertVars, lists, remoteVars>>

DockerRetryMsg ==
  /\ retries > 0
  /\ retries' = retries - 1
  /\ connecting' = connecting + 1
  /\ UNCHANGED <<modeVars, readOnly, pollVars, alertVars, client, lists, remoteVars>>

(* A listing's UpdateMsg carries the client it used: an error in it does   *)
(* not start a retry.                                                      *)
ListMsg ==
  /\ lists > 0
  /\ lists' = lists - 1
  /\ UNCHANGED <<modeVars, readOnly, pollVars, alertVars>>
  /\ UNCHANGED <<connecting, retries, client, remoteVars>>

-----------------------------------------------------------------------------
(* Reload. *)

(* Mutants of ReloadConfig: takes read_only from the file in remote mode   *)
(* too; re-arms the refresh timer for the new cadence.                     *)
ReloadConfig_Trusting ==
  /\ readOnly' \in BOOLEAN
  /\ UNCHANGED <<modeVars, pollVars, alertVars, dockerVars, remoteVars>>
ReloadConfig_Rearm ==
  /\ readOnly' \in IF stream THEN {TRUE} ELSE BOOLEAN
  /\ ticks' = IF stream THEN ticks ELSE ticks + 1
  /\ ticks < 2
  /\ UNCHANGED <<modeVars, spawned, running, begun, alertVars, dockerVars, remoteVars>>

(* The file's values replace the configuration in place, except for the    *)
(* module set, and read_only in remote mode.                               *)
ReloadConfig ==
  /\ readOnly' \in IF stream THEN {TRUE} ELSE BOOLEAN
  /\ UNCHANGED <<modeVars, pollVars, alertVars, dockerVars, remoteVars>>

-----------------------------------------------------------------------------
(* The remote reader goroutine. *)

ReadNext ==
  /\ reader = "next"
  /\ \/ got < MaxSample /\ got' = got + 1 /\ reader' = "send"
     \/ reader' = "ended" /\ UNCHANGED got
  /\ UNCHANGED <<modeVars, readOnly, pollVars, alertVars, dockerVars, lost>>

RemoteSnapshotMsg(raised) ==
  /\ reader = "send"
  /\ reader' = "next"
  /\ Snapshot(got, raised)
  /\ UNCHANGED <<modeVars, readOnly, pollVars, dockerVars, got, lost>>

(* Mutant of RemoteEndedMsg: only a flash that fades.                      *)
RemoteEndedMsg_Flash ==
  /\ reader = "ended"
  /\ reader' = "done"
  /\ UNCHANGED <<modeVars, readOnly, pollVars, alertVars, dockerVars, got, lost>>

RemoteEndedMsg ==
  /\ reader = "ended"
  /\ reader' = "done"
  /\ lost' = TRUE
  /\ UNCHANGED <<modeVars, readOnly, pollVars, alertVars, dockerVars, got>>

-----------------------------------------------------------------------------
Commands == BeginCollect \/ ConnectMsg \/ DockerRetryMsg \/ ListMsg \/ TickMsg

Next ==
  \/ Commands \/ ReloadConfig \/ ReadNext \/ RemoteEndedMsg
  \/ \E raised \in SUBSET Keys :
       RemoteSnapshotMsg(raised) \/ \E t \in running : SnapshotMsg(t, raised)

(* Commands, timers and the reader make progress; the user owes nothing.   *)
Fairness ==
  /\ WF_vars(ReadNext) /\ WF_vars(RemoteEndedMsg)
  /\ WF_vars(\E raised \in SUBSET Keys : RemoteSnapshotMsg(raised))

Spec == Init /\ [][Next]_vars /\ Fairness

-----------------------------------------------------------------------------
(* Properties. *)

Event == [key : Keys, start : Nat, end : Nat]

(* The type invariant; the history never outgrows its capacity.            *)
TypeOK ==
  /\ stream \in BOOLEAN /\ dockerOn \in BOOLEAN /\ readOnly \in BOOLEAN
  /\ ticks \in Nat /\ spawned \in Nat /\ begun \in Nat
  /\ running \subseteq 1 .. begun
  /\ latest \in Nat /\ lastKeys \subseteq Keys
  /\ DOMAIN openAlerts \subseteq Keys
  /\ alerts \in Seq(Event) /\ Len(alerts) <= AlertHistory
  /\ connecting \in Nat /\ retries \in Nat /\ lists \in Nat
  /\ client \in BOOLEAN
  /\ reader \in {"next", "send", "ended", "done"}
  /\ got \in Nat /\ lost \in BOOLEAN

(* Local polling is driven by one timer for ever: no handler drops it, and *)
(* none arms a second one; remotely there is none and nothing is polled.   *)
OneTickChain ==
  IF stream THEN ticks = 0 /\ spawned = 0 /\ running = {} ELSE ticks = 1

(* At any time exactly one of: a connect in flight, a retry timer armed, a *)
(* client.  The retry chain neither dies nor forks, however ticks, replies *)
(* and timers interleave.                                                  *)
OneConnectChain ==
  connecting + retries + (IF client THEN 1 ELSE 0) = IF dockerOn THEN 1 ELSE 0

(* Whatever the order of messages, no chain of commands dies or forks.     *)
ChainsStayOne == OneTickChain /\ OneConnectChain

(* The alerts shown as open are those of the sample on screen, and an      *)
(* event of the history is ongoing exactly when it is its key's open one:  *)
(* none stays ongoing after its key cleared, none is listed twice.         *)
HistoryConsistent ==
  /\ DOMAIN openAlerts = lastKeys
  /\ \A i \in DOMAIN alerts :
       alerts[i].end = 0 <=> /\ alerts[i].key \in DOMAIN openAlerts
                             /\ openAlerts[alerts[i].key] = alerts[i].start
  /\ \A i, j \in DOMAIN alerts :
       alerts[i].key = alerts[j].key /\ alerts[i].start = alerts[j].start => i = j

(* A step cuts the history only when it is full, and never removes an      *)
(* event that is newer than one it keeps.                                  *)
KeepsNewest ==
  LET in(i, list) == \E j \in DOMAIN list :
                       list[j].key = alerts[i].key /\ list[j].start = alerts[i].start
  IN \A i \in DOMAIN alerts :
       \/ in(i, alerts')
       \/ /\ Len(alerts') = AlertHistory
          /\ \A k \in DOMAIN alerts : k < i => ~in(k, alerts')

(* Remote pids are not local pids: no reload re-arms signaling.            *)
RemoteReadOnly == stream => readOnly /\ ~dockerOn /\ ~client

(* Remotely samples are shown in stream order and none is skipped, and     *)
(* when the connection is reported lost the screen holds the last one read.*)
RemoteInOrder ==
  stream => /\ latest = IF reader = "send" THEN got - 1 ELSE got
            /\ lost <=> reader = "done"

(* What a remote view promises.                                            *)
RemoteViewSound == RemoteReadOnly /\ RemoteInOrder

(* The alert history: every step leaves it consistent and loses no event   *)
(* but the oldest, and those only at its capacity.                         *)
HistorySound == [][HistoryConsistent' /\ KeepsNewest]_vars

(* The inductive invariant behind it: an event starts at a sample that has *)
(* been shown, so the next one to be shown has opened none yet.            *)
OnScreen == IF stream THEN 1 .. latest ELSE (1 .. begun) \ running
HistoryInv ==
  /\ HistoryConsistent
  /\ alerts \in Seq(Event)
  /\ openAlerts \in [lastKeys -> Nat] /\ lastKeys \subseteq Keys
  /\ \A i \in DOMAIN alerts : alerts[i].start \in OnScreen

(* A stream that ended is reported, whatever the loop is doing.            *)
LossIsReported == reader = "ended" ~> lost

(* "most recent sample, for the status bar": the sample on screen is never *)
(* replaced by an older one.                                               *)
LatestIsNewest == [][latest' >= latest]_vars
=============================================================================
