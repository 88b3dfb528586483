---------------------------- MODULE AppLoopProofs ----------------------------
(***************************************************************************)
(* Proofs about AppLoop for any set of alert keys, any capacity of the     *)
(* history and any number of samples, and, at the end, about all that      *)
(* MCAppLoop puts beside it.                                               *)
(***************************************************************************)
EXTENDS MCAppLoop, ScreenProofs, DashboardProofs, FiniteSetTheorems, TLAPS

USE AppAssumption DEF AppAssumption, vars, modeVars, pollVars, alertVars, dockerVars, remoteVars

(* The counters and modes the chains are made of; the history has its own  *)
(* types and no part in them.                                              *)
CountersOK ==
  /\ stream \in BOOLEAN /\ dockerOn \in BOOLEAN
  /\ ticks \in Nat /\ spawned \in Nat
  /\ connecting \in Nat /\ retries \in Nat /\ lists \in Nat
  /\ client \in BOOLEAN
  /\ reader \in {"next", "send", "ended", "done"} /\ got \in Nat
  /\ stream => ~dockerOn
  /\ ~stream => reader = "done"

(* Every message and every command keeps the counters in their ranges.     *)
LEMMA CountersStep ==
  ASSUME CountersOK, [Next]_vars
  PROVE  CountersOK'
<1> USE DEF CountersOK
<1>1. CASE Commands
  <2>1. CASE BeginCollect
    BY <2>1 DEF BeginCollect
  <2>2. CASE ConnectMsg
    <3>1. /\ connecting' = connecting - 1 /\ connecting > 0
          /\ UNCHANGED <<stream, dockerOn, ticks, spawned, reader, got>>
          /\ lists' \in Nat
          /\ client' \in BOOLEAN /\ retries' \in {retries, retries + 1}
      <4>1. CASE client' = TRUE /\ UNCHANGED retries
        BY <2>2, <4>1 DEF ConnectMsg
      <4>2. CASE retries' = retries + 1 /\ UNCHANGED client
        BY <2>2, <4>2 DEF ConnectMsg
      <4> QED BY <2>2, <4>1, <4>2 DEF ConnectMsg
    <3> QED BY <3>1
  <2>3. CASE DockerRetryMsg
    BY <2>3 DEF DockerRetryMsg
  <2>4. CASE ListMsg
    BY <2>4 DEF ListMsg
  <2>5. CASE TickMsg
    BY <2>5 DEF TickMsg
  <2> QED BY <1>1, <2>1, <2>2, <2>3, <2>4, <2>5 DEF Commands
<1>2. CASE ReloadConfig \/ ReadNext \/ RemoteEndedMsg
  <2>1. CASE ReloadConfig
    BY <2>1 DEF ReloadConfig
  <2>2. CASE ReadNext
    BY <2>2 DEF ReadNext
  <2>3. CASE RemoteEndedMsg
    BY <2>3 DEF RemoteEndedMsg
  <2> QED BY <1>2, <2>1, <2>2, <2>3
<1>3. ASSUME NEW raised \in SUBSET Keys,
             RemoteSnapshotMsg(raised) \/ \E t \in running : SnapshotMsg(t, raised)
      PROVE  CountersOK'
  BY <1>3 DEF RemoteSnapshotMsg, SnapshotMsg
<1>4. CASE UNCHANGED vars
  BY <1>4
<1> QED BY <1>1, <1>2, <1>3, <1>4 DEF Next

(* For any keys, capacity and number of samples, what app.go counts        *)
(* (timers, commands and connections in flight, the reader's samples)      *)
(* stays a number, and a program with a remote stream has no docker client *)
(* and no local one a reader.                                              *)
THEOREM CountersAreCounters == Spec => []CountersOK
<1>1. Init => CountersOK
  <2> SUFFICES ASSUME Init PROVE CountersOK
    OBVIOUS
  <2>1. CASE stream
    BY <2>1 DEF Init, CountersOK
  <2>2. CASE ~stream
    BY <2>2 DEF Init, CountersOK
  <2> QED BY <2>1, <2>2
<1> QED
  BY <1>1, CountersStep, PTL DEF Spec

(* The refresh timer, and the docker connection, are driven by one chain   *)
(* of commands each, that neither dies nor forks.                          *)
LEMMA ChainsStep ==
  ASSUME CountersOK, ChainsStayOne, [Next]_vars
  PROVE  ChainsStayOne'
<1> USE DEF CountersOK, ChainsStayOne, OneTickChain, OneConnectChain
<1>1. CASE BeginCollect
  BY <1>1 DEF BeginCollect
<1>2. CASE ConnectMsg
  <2>1. dockerOn /\ connecting = 1 /\ retries = 0 /\ client = FALSE
    BY <1>2 DEF ConnectMsg
  <2>2. /\ connecting' = 0 /\ UNCHANGED <<stream, dockerOn, ticks, spawned, running>>
        /\ \/ client' = TRUE /\ retries' = 0
           \/ client' = FALSE /\ retries' = 1
    BY <1>2, <2>1 DEF ConnectMsg
  <2> QED BY <2>1, <2>2
<1>3. CASE DockerRetryMsg
  BY <1>3 DEF DockerRetryMsg
<1>4. CASE ListMsg
  BY <1>4 DEF ListMsg
<1>5. CASE TickMsg
  BY <1>5 DEF TickMsg
<1>6. CASE ReloadConfig \/ ReadNext \/ RemoteEndedMsg
  <2>1. UNCHANGED <<modeVars, pollVars, dockerVars>>
    BY <1>6 DEF ReloadConfig, ReadNext, RemoteEndedMsg
  <2> QED BY <2>1
<1>7. ASSUME NEW raised \in SUBSET Keys, RemoteSnapshotMsg(raised) PROVE ChainsStayOne'
  BY <1>7 DEF RemoteSnapshotMsg
<1>8. ASSUME NEW raised \in SUBSET Keys, NEW t \in running, SnapshotMsg(t, raised) PROVE ChainsStayOne'
  BY <1>8 DEF SnapshotMsg
<1>9. CASE UNCHANGED vars
  BY <1>9
<1> QED BY <1>1, <1>2, <1>3, <1>4, <1>5, <1>6, <1>7, <1>8, <1>9 DEF Next, Commands

(* Of refresh timers and of docker connection commands exactly one is in   *)
(* flight at every moment, in any order of tickMsg, ConnectMsg, retries    *)
(* and reloads: none of the two chains of app.go is ever lost or doubled.  *)
THEOREM ChainsAreOne == Spec => []ChainsStayOne
<1>1. Init => ChainsStayOne
  BY DEF Init, ChainsStayOne, OneTickChain, OneConnectChain
<1> QED
  BY <1>1, ChainsStep, CountersAreCounters, PTL DEF Spec

(* A remote view never signals and never polls, and shows the stream's     *)
(* snapshots in order until it reports the stream's end.  The chains are   *)
(* what rules out a sample of this machine on a remote screen, and a       *)
(* docker client appearing there.                                          *)
LEMMA RemoteStep ==
  ASSUME CountersOK, ChainsStayOne, RemoteViewSound, [Next]_vars
  PROVE  RemoteViewSound'
<1> USE DEF CountersOK, RemoteViewSound, RemoteReadOnly, RemoteInOrder
<1>1. CASE BeginCollect \/ DockerRetryMsg \/ ListMsg \/ TickMsg
  BY <1>1 DEF BeginCollect, DockerRetryMsg, ListMsg, TickMsg
<1>2. CASE ConnectMsg
  <2>1. ~stream
    BY <1>2 DEF ConnectMsg, ChainsStayOne, OneConnectChain
  <2> QED BY <1>2, <2>1 DEF ConnectMsg
<1>3. CASE ReloadConfig
  BY <1>3 DEF ReloadConfig
<1>4. CASE ReadNext
  BY <1>4 DEF ReadNext
<1>5. CASE RemoteEndedMsg
  BY <1>5 DEF RemoteEndedMsg
<1>6. ASSUME NEW raised \in SUBSET Keys, RemoteSnapshotMsg(raised) PROVE RemoteViewSound'
  BY <1>6 DEF RemoteSnapshotMsg, Snapshot
<1>7. ASSUME NEW raised \in SUBSET Keys, NEW t \in running, SnapshotMsg(t, raised) PROVE RemoteViewSound'
  <2>1. ~stream
    BY <1>7 DEF ChainsStayOne, OneTickChain
  <2> QED BY <1>7, <2>1 DEF SnapshotMsg
<1>8. CASE UNCHANGED vars
  BY <1>8
<1> QED BY <1>1, <1>2, <1>3, <1>4, <1>5, <1>6, <1>7, <1>8 DEF Next, Commands

(* With a stream connected the configuration stays read-only through every *)
(* reload, no sample of the stream is skipped or swapped, and the loss is  *)
(* on screen exactly when the reader has ended.                            *)
THEOREM RemoteViewIsSound == Spec => []RemoteViewSound
<1>1. Init => RemoteViewSound
  BY DEF Init, RemoteViewSound, RemoteReadOnly, RemoteInOrder
<1> QED
  BY <1>1, RemoteStep, CountersAreCounters, ChainsAreOne, PTL DEF Spec

-----------------------------------------------------------------------------
(* The alert history. *)

(* A list of a finite set has each element once.                           *)
LEMMA SetToSeqOnce ==
  ASSUME NEW S, IsFiniteSet(S)
  PROVE  /\ SetToSeq(S) \in Seq(S)
         /\ \A i, j \in 1 .. Len(SetToSeq(S)) : SetToSeq(S)[i] = SetToSeq(S)[j] => i = j
<1>1. Cardinality(S) \in Nat /\ ExistsBijection(1 .. Cardinality(S), S)
  BY FS_CardinalityType
<1>2. \E f \in [1 .. Cardinality(S) -> S] : IsInjective(f)
  BY <1>1 DEF ExistsBijection, Bijection, Injection
<1>3. SetToSeq(S) \in [1 .. Cardinality(S) -> S] /\ IsInjective(SetToSeq(S))
  BY <1>2, Zenon DEF SetToSeq
<1> QED BY <1>1, <1>3 DEF IsInjective

(* Cutting a list drops its oldest elements, and only when it is too long. *)
LEMMA CutDropsOldest ==
  ASSUME NEW E, NEW s \in Seq(E)
  PROVE  \E shift \in Nat :
           /\ Cut(s) \in Seq(E) /\ Len(Cut(s)) = Len(s) - shift /\ shift <= Len(s)
           /\ \A i \in 1 .. Len(Cut(s)) : Cut(s)[i] = s[i + shift] /\ i + shift \in 1 .. Len(s)
           /\ shift > 0 => Len(Cut(s)) = AlertHistory
           /\ Len(Cut(s)) <= AlertHistory
<1>1. Len(s) \in Nat /\ AlertHistory \in Nat \ {0}
  OBVIOUS
<1>2. CASE Len(s) > AlertHistory
  <2> DEFINE shift == Len(s) - AlertHistory
  <2>1. shift \in Nat /\ shift > 0 /\ Len(s) - shift = AlertHistory
    BY <1>1, <1>2
  <2>2. Cut(s) = SubSeq(s, shift + 1, Len(s))
    BY <1>2 DEF Cut
  <2>3. Cut(s) \in Seq(E) /\ Len(Cut(s)) = AlertHistory
    BY <1>1, <1>2, <2>1, <2>2
  <2>4. ASSUME NEW i \in 1 .. AlertHistory PROVE Cut(s)[i] = s[i + shift] /\ i + shift \in 1 .. Len(s)
    BY <1>1, <1>2, <2>1, <2>2
  <2>5. shift <= Len(s) /\ Len(Cut(s)) = Len(s) - shift
    BY <1>1, <2>1, <2>3
  <2> HIDE DEF shift
  <2> QED BY <1>1, <2>1, <2>3, <2>4, <2>5
<1>3. CASE ~(Len(s) > AlertHistory)
  <2>1. Cut(s) = s
    BY <1>3 DEF Cut
  <2> QED BY <1>1, <1>3, <2>1
<1> QED BY <1>2, <1>3

(* Showing a new sample t: TrackAlerts keeps the history consistent, and   *)
(* only the oldest events fall out of it.                                  *)
LEMMA TrackSound ==
  ASSUME HistoryInv, NEW t \in Nat \ {0}, NEW raised \in SUBSET Keys,
         t \notin OnScreen, lastKeys' = raised, TrackAlerts(t, raised)
  PROVE  /\ HistoryConsistent' /\ KeepsNewest
         /\ alerts' \in Seq(Event) /\ openAlerts' \in [raised -> Nat]
         /\ \A j \in DOMAIN alerts' : alerts'[j].start \in OnScreen \cup {t}
         /\ Len(alerts') <= AlertHistory
<1> DEFINE known == lastKeys
           n == Len(alerts)
           opened == SetToSeq(raised \ known)
           kept == [i \in DOMAIN alerts |-> Closed(alerts[i], known \ raised, t)]
           new == [i \in DOMAIN opened |-> [key |-> opened[i], start |-> t, end |-> 0]]
           grown == kept \o new
<1>1. /\ DOMAIN openAlerts = known /\ alerts \in Seq(Event) /\ n \in Nat
      /\ openAlerts \in [known -> Nat]
      /\ \A i \in 1 .. n : alerts[i].start \in OnScreen
  BY DEF HistoryInv
<1>2. /\ openAlerts' = [k \in raised |-> IF k \in known THEN openAlerts[k] ELSE t]
      /\ alerts' = Cut(grown)
  BY <1>1 DEF TrackAlerts
<1>3. IsFiniteSet(raised \ known)
  BY FS_Subset
<1>4. /\ opened \in Seq(raised \ known) /\ Len(opened) \in Nat
      /\ \A i, j \in 1 .. Len(opened) : opened[i] = opened[j] => i = j
      /\ \A i \in 1 .. Len(opened) : opened[i] \in raised \ known
  <2>1. /\ opened \in Seq(raised \ known)
        /\ \A i, j \in 1 .. Len(opened) : opened[i] = opened[j] => i = j
    BY <1>3, SetToSeqOnce
  <2> HIDE DEF opened
  <2> QED BY <2>1
<1> HIDE DEF opened
<1>5. ASSUME NEW i \in 1 .. n
      PROVE  LET e == alerts[i]
                 k == Closed(e, known \ raised, t)
             IN /\ k \in Event /\ k.key = e.key /\ k.start = e.start
                /\ k.end = IF e.key \in known \ raised /\ e.start = openAlerts[e.key] THEN t ELSE e.end
  <2>1. alerts[i] \in [key : Keys, start : Nat, end : Nat]
    <3>1. alerts[i] \in Event
      BY <1>1
    <3> QED BY <3>1 DEF Event
  <2>2. CASE alerts[i].key \in known \ raised /\ alerts[i].start = openAlerts[alerts[i].key]
    <3>1. Closed(alerts[i], known \ raised, t) = [alerts[i] EXCEPT !.end = t]
      BY <2>2 DEF Closed
    <3> QED BY <2>1, <2>2, <3>1 DEF Event
  <2>3. CASE ~(alerts[i].key \in known \ raised /\ alerts[i].start = openAlerts[alerts[i].key])
    <3>1. Closed(alerts[i], known \ raised, t) = alerts[i]
      BY <2>3 DEF Closed
    <3> QED BY <2>1, <2>3, <3>1 DEF Event
  <2> QED BY <2>2, <2>3
<1>6. kept \in Seq(Event) /\ Len(kept) = n /\ \A i \in 1 .. n : kept[i] = Closed(alerts[i], known \ raised, t)
  <2>1. DOMAIN alerts = 1 .. n
    BY <1>1
  <2>2. kept \in [1 .. n -> Event]
    BY <1>5, <2>1
  <2>3. \A i \in 1 .. n : kept[i] = Closed(alerts[i], known \ raised, t)
    BY <2>1
  <2> HIDE DEF kept, n
  <2>4. n \in Nat
    BY <1>1
  <2>5. kept \in Seq(Event) /\ Len(kept) = n
    BY <2>2, <2>4
  <2> QED BY <2>3, <2>5
<1>7. new \in Seq(Event) /\ Len(new) = Len(opened)
      /\ \A i \in 1 .. Len(opened) : new[i] = [key |-> opened[i], start |-> t, end |-> 0]
  <2>1. DOMAIN opened = 1 .. Len(opened)
    BY <1>4
  <2>2. \A i \in 1 .. Len(opened) : new[i] = [key |-> opened[i], start |-> t, end |-> 0]
    BY <2>1
  <2>3. \A i \in 1 .. Len(opened) : [key |-> opened[i], start |-> t, end |-> 0] \in Event
    BY <1>4 DEF Event
  <2>4. new \in [1 .. Len(opened) -> Event]
    BY <2>1, <2>3
  <2> HIDE DEF new
  <2> QED BY <1>4, <2>2, <2>4
<1> HIDE DEF kept, new
<1>8. /\ grown \in Seq(Event) /\ Len(grown) = n + Len(opened)
      /\ \A i \in 1 .. n : grown[i] = kept[i]
      /\ \A i \in n + 1 .. Len(grown) : grown[i] = new[i - n] /\ i - n \in 1 .. Len(opened)
  <2>1. kept \in Seq(Event) /\ new \in Seq(Event) /\ Len(kept) = n /\ Len(new) = Len(opened)
    BY <1>6, <1>7
  <2> HIDE DEF n
  <2>2. grown \in Seq(Event) /\ Len(grown) = n + Len(opened)
    BY <2>1
  <2>3. \A i \in 1 .. n : grown[i] = kept[i]
    BY <1>1, <1>4, <2>1
  <2>4. ASSUME NEW i \in n + 1 .. Len(grown) PROVE grown[i] = new[i - n] /\ i - n \in 1 .. Len(opened)
    BY <1>1, <1>4, <2>1, <2>2
  <2> QED BY <2>2, <2>3, <2>4
<1> HIDE DEF grown
<1>9. ASSUME NEW i \in 1 .. n
      PROVE  /\ grown[i].key = alerts[i].key /\ grown[i].start = alerts[i].start /\ grown[i].start # t
             /\ grown[i].end = IF alerts[i].key \in known \ raised /\ alerts[i].start = openAlerts[alerts[i].key]
                               THEN t ELSE alerts[i].end
  <2>1. grown[i] = Closed(alerts[i], known \ raised, t)
    BY <1>6, <1>8
  <2>2. alerts[i].start # t
    BY <1>1
  <2> QED BY <1>5, <2>1, <2>2
<1>10. ASSUME NEW i \in n + 1 .. Len(grown)
       PROVE  grown[i].key = opened[i - n] /\ grown[i].start = t /\ grown[i].end = 0
  <2>1. i - n \in 1 .. Len(opened) /\ grown[i] = new[i - n]
    BY <1>8
  <2>2. grown[i] = [key |-> opened[i - n], start |-> t, end |-> 0]
    BY <1>7, <2>1
  <2> QED BY <2>2
<1>11. \A i \in 1 .. Len(grown) : i \in 1 .. n \/ i \in n + 1 .. Len(grown)
  BY <1>1, <1>4, <1>8
<1>12. ASSUME NEW i \in 1 .. Len(grown)
       PROVE  grown[i].end = 0 <=> grown[i].key \in raised /\ openAlerts'[grown[i].key] = grown[i].start
  <2>1. CASE i \in 1 .. n
    <3>1. alerts[i].end = 0 <=> alerts[i].key \in known /\ openAlerts[alerts[i].key] = alerts[i].start
      BY <1>1, <2>1 DEF HistoryInv, HistoryConsistent
    <3> QED BY <1>2, <1>9, <2>1, <3>1
  <2>2. CASE i \in n + 1 .. Len(grown)
    <3>1. opened[i - n] \in raised \ known
      BY <1>4, <1>8, <2>2
    <3> QED BY <1>2, <1>10, <2>2, <3>1
  <2> QED BY <1>11, <2>1, <2>2
<1>13. ASSUME NEW i \in 1 .. Len(grown), NEW j \in 1 .. Len(grown),
              grown[i].key = grown[j].key, grown[i].start = grown[j].start
       PROVE  i = j
  <2>1. CASE i \in 1 .. n /\ j \in 1 .. n
    <3>1. alerts[i].key = alerts[j].key /\ alerts[i].start = alerts[j].start
      BY <1>9, <1>13, <2>1
    <3> QED BY <1>1, <2>1, <3>1 DEF HistoryInv, HistoryConsistent
  <2>2. CASE i \in n + 1 .. Len(grown) /\ j \in n + 1 .. Len(grown)
    <3>1. opened[i - n] = opened[j - n] /\ i - n \in 1 .. Len(opened) /\ j - n \in 1 .. Len(opened)
      BY <1>8, <1>10, <1>13, <2>2
    <3>2. i - n = j - n
      BY <1>4, <3>1
    <3> QED BY <1>1, <2>2, <3>2
  <2>3. CASE i \in 1 .. n /\ j \in n + 1 .. Len(grown)
    BY <1>9, <1>10, <1>13, <2>3
  <2>4. CASE j \in 1 .. n /\ i \in n + 1 .. Len(grown)
    BY <1>9, <1>10, <1>13, <2>4
  <2> QED BY <1>11, <2>1, <2>2, <2>3, <2>4
<1>14. PICK shift \in Nat :
         /\ alerts' \in Seq(Event) /\ Len(alerts') = Len(grown) - shift /\ shift <= Len(grown)
         /\ \A i \in 1 .. Len(alerts') : alerts'[i] = grown[i + shift] /\ i + shift \in 1 .. Len(grown)
         /\ shift > 0 => Len(alerts') = AlertHistory
         /\ Len(alerts') <= AlertHistory
  BY <1>2, <1>8, CutDropsOldest
<1>15. DOMAIN openAlerts' = raised /\ openAlerts' \in [raised -> Nat]
  BY <1>1, <1>2
<1>16. HistoryConsistent'
  <2>1. DOMAIN openAlerts' = lastKeys'
    BY <1>15
  <2>2. ASSUME NEW i \in DOMAIN alerts'
        PROVE  alerts'[i].end = 0 <=> alerts'[i].key \in DOMAIN openAlerts' /\ openAlerts'[alerts'[i].key] = alerts'[i].start
    <3>1. i \in 1 .. Len(alerts') /\ alerts'[i] = grown[i + shift] /\ i + shift \in 1 .. Len(grown)
      BY <1>14
    <3> QED BY <1>12, <1>15, <3>1
  <2>3. ASSUME NEW i \in DOMAIN alerts', NEW j \in DOMAIN alerts',
               alerts'[i].key = alerts'[j].key, alerts'[i].start = alerts'[j].start
        PROVE  i = j
    <3>1. /\ alerts'[i] = grown[i + shift] /\ i + shift \in 1 .. Len(grown)
          /\ alerts'[j] = grown[j + shift] /\ j + shift \in 1 .. Len(grown)
          /\ i \in Nat /\ j \in Nat
      BY <1>14
    <3>2. i + shift = j + shift
      BY <1>13, <2>3, <3>1
    <3> QED BY <3>1, <3>2
  <2> QED BY <2>1, <2>2, <2>3 DEF HistoryConsistent
<1>17. KeepsNewest
  <2> DEFINE in(i) == \E j \in DOMAIN alerts' : alerts'[j].key = alerts[i].key /\ alerts'[j].start = alerts[i].start
  <2>1. ASSUME NEW i \in 1 .. n, i > shift PROVE in(i)
    <3>1. i - shift \in DOMAIN alerts' /\ i \in 1 .. Len(grown)
      BY <1>1, <1>4, <1>8, <1>14, <2>1
    <3>2. alerts'[i - shift] = grown[i]
      BY <1>1, <1>14, <3>1
    <3> QED BY <1>9, <3>1, <3>2
  <2>2. ASSUME NEW i \in 1 .. n, ~(i > shift) PROVE ~in(i)
    <3> SUFFICES ASSUME NEW j \in DOMAIN alerts',
                        alerts'[j].key = alerts[i].key, alerts'[j].start = alerts[i].start
                 PROVE FALSE
      OBVIOUS
    <3>1. alerts'[j] = grown[j + shift] /\ j + shift \in 1 .. Len(grown) /\ j \in Nat \ {0}
      BY <1>14
    <3>2. i \in 1 .. Len(grown)
      BY <1>1, <1>4, <1>8
    <3>3. j + shift = i
      BY <1>9, <1>13, <3>1, <3>2
    <3> QED BY <1>1, <2>2, <3>1, <3>3
  <2>3. ASSUME NEW i \in 1 .. n
        PROVE  in(i) \/ (Len(alerts') = AlertHistory /\ \A k \in 1 .. n : k < i => ~in(k))
    <3>1. CASE i > shift
      BY <2>1, <3>1
    <3>2. CASE ~(i > shift)
      <4>1. shift > 0
        BY <1>1, <3>2
      <4>2. \A k \in 1 .. n : k < i => ~(k > shift)
        BY <1>1, <3>2
      <4> QED BY <1>14, <2>2, <4>1, <4>2
    <3> QED BY <3>1, <3>2
  <2>4. DOMAIN alerts = 1 .. n
    BY <1>1
  <2> HIDE DEF n
  <2> QED BY <2>3, <2>4 DEF KeepsNewest
<1>18. ASSUME NEW j \in DOMAIN alerts' PROVE alerts'[j].start \in OnScreen \cup {t}
  <2>1. alerts'[j] = grown[j + shift] /\ j + shift \in 1 .. Len(grown)
    BY <1>14
  <2>2. CASE j + shift \in 1 .. n
    BY <1>1, <1>9, <2>1, <2>2
  <2>3. CASE j + shift \in n + 1 .. Len(grown)
    BY <1>10, <2>1, <2>3
  <2> QED BY <1>11, <2>1, <2>2, <2>3
<1> QED BY <1>14, <1>15, <1>16, <1>17, <1>18

(* Samples in flight are among those begun.                                *)
SamplesOK == begun \in Nat /\ running \subseteq 1 .. begun /\ latest \in Nat

(* Every message and every command keeps it.                               *)
LEMMA SamplesStep ==
  ASSUME CountersOK, SamplesOK, [Next]_vars
  PROVE  SamplesOK'
<1> USE DEF SamplesOK
<1>1. CASE BeginCollect
  BY <1>1 DEF BeginCollect
<1>2. CASE ConnectMsg \/ DockerRetryMsg \/ ListMsg \/ TickMsg \/ ReloadConfig \/ ReadNext \/ RemoteEndedMsg
             \/ UNCHANGED vars
  <2>1. UNCHANGED <<running, begun, latest>>
    BY <1>2 DEF ConnectMsg, DockerRetryMsg, ListMsg, TickMsg, ReloadConfig, ReadNext, RemoteEndedMsg
  <2> QED BY <2>1
<1>3. ASSUME NEW raised \in SUBSET Keys, RemoteSnapshotMsg(raised) PROVE SamplesOK'
  BY <1>3 DEF RemoteSnapshotMsg, Snapshot, CountersOK
<1>4. ASSUME NEW raised \in SUBSET Keys, NEW t \in running, SnapshotMsg(t, raised) PROVE SamplesOK'
  BY <1>4 DEF SnapshotMsg, Snapshot
<1> QED BY <1>1, <1>2, <1>3, <1>4 DEF Next, Commands

(* A Collect in flight has begun: no sample is delivered that was not      *)
(* taken.                                                                  *)
THEOREM SamplesAreBegun == Spec => []SamplesOK
<1>1. Init => SamplesOK
  BY DEF Init, SamplesOK
<1> QED
  BY <1>1, SamplesStep, CountersAreCounters, PTL DEF Spec

(* The history never outgrows its capacity.                                *)
HistoryBounded == Len(alerts) <= AlertHistory

(* A step keeps the history's invariant and drops no event but the oldest. *)
LEMMA HistoryStep ==
  ASSUME CountersOK, ChainsStayOne, RemoteViewSound, SamplesOK, HistoryInv, HistoryBounded,
         [Next]_vars
  PROVE  HistoryInv' /\ HistoryBounded' /\ KeepsNewest
<1>1. ASSUME UNCHANGED <<alerts, openAlerts, lastKeys>>, OnScreen \subseteq OnScreen'
      PROVE  HistoryInv' /\ HistoryBounded' /\ KeepsNewest
  <2>1. HistoryInv'
    BY <1>1 DEF HistoryInv, HistoryConsistent
  <2>2. KeepsNewest
    BY <1>1 DEF KeepsNewest
  <2> QED BY <1>1, <2>1, <2>2 DEF HistoryBounded
<1>2. ASSUME NEW t \in Nat \ {0}, NEW raised \in SUBSET Keys, Snapshot(t, raised), t \notin OnScreen,
             OnScreen \cup {t} \subseteq OnScreen'
      PROVE  HistoryInv' /\ HistoryBounded' /\ KeepsNewest
  <2>1. lastKeys' = raised /\ TrackAlerts(t, raised)
    BY <1>2 DEF Snapshot
  <2>2. /\ HistoryConsistent' /\ KeepsNewest
        /\ alerts' \in Seq(Event) /\ openAlerts' \in [raised -> Nat]
        /\ \A j \in DOMAIN alerts' : alerts'[j].start \in OnScreen \cup {t}
        /\ HistoryBounded'
    BY <1>2, <2>1, TrackSound DEF HistoryBounded
  <2> QED BY <1>2, <2>1, <2>2 DEF HistoryInv
<1>3. CASE BeginCollect
  <2>1. UNCHANGED <<alerts, openAlerts, lastKeys, stream, latest>>
    BY <1>3 DEF BeginCollect
  <2>2. OnScreen \subseteq OnScreen'
    BY <1>3, <2>1 DEF BeginCollect, OnScreen, SamplesOK
  <2> QED BY <1>1, <2>1, <2>2
<1>4. CASE ConnectMsg \/ DockerRetryMsg \/ ListMsg \/ TickMsg \/ ReloadConfig \/ ReadNext \/ RemoteEndedMsg
             \/ UNCHANGED vars
  <2>1. UNCHANGED <<alerts, openAlerts, lastKeys, stream, latest, running, begun>>
    BY <1>4 DEF ConnectMsg, DockerRetryMsg, ListMsg, TickMsg, ReloadConfig, ReadNext, RemoteEndedMsg
  <2> QED BY <1>1, <2>1 DEF OnScreen
<1>5. ASSUME NEW raised \in SUBSET Keys, RemoteSnapshotMsg(raised) PROVE HistoryInv' /\ HistoryBounded' /\ KeepsNewest
  <2>1. reader = "send" /\ Snapshot(got, raised) /\ UNCHANGED <<stream, running, begun>> /\ got \in Nat
    BY <1>5 DEF RemoteSnapshotMsg, CountersOK
  <2>2. stream
    BY <2>1 DEF CountersOK
  <2>3. latest = got - 1 /\ latest \in Nat /\ latest' = got
    BY <2>1, <2>2 DEF RemoteViewSound, RemoteInOrder, SamplesOK, Snapshot
  <2>4. got \in Nat \ {0} /\ got \notin OnScreen /\ OnScreen \cup {got} \subseteq OnScreen'
    BY <2>1, <2>2, <2>3 DEF OnScreen
  <2> QED BY <1>2, <2>1, <2>4
<1>6. ASSUME NEW raised \in SUBSET Keys, NEW t \in running, SnapshotMsg(t, raised)
      PROVE  HistoryInv' /\ HistoryBounded' /\ KeepsNewest
  <2>1. running' = running \ {t} /\ Snapshot(t, raised) /\ UNCHANGED <<stream, begun>>
    BY <1>6 DEF SnapshotMsg
  <2>2. ~stream
    BY <1>6 DEF ChainsStayOne, OneTickChain
  <2>3. t \in Nat \ {0} /\ t \notin OnScreen /\ OnScreen \cup {t} \subseteq OnScreen'
    BY <2>1, <2>2 DEF OnScreen, SamplesOK
  <2> QED BY <1>2, <2>1, <2>3
<1> QED BY <1>3, <1>4, <1>5, <1>6 DEF Next, Commands

(* What holds of the history at all times.                                 *)
LEMMA HistoryInvariant == Spec => [](HistoryInv /\ HistoryBounded)
<1>1. Init => HistoryInv /\ HistoryBounded
  BY DEF Init, HistoryInv, HistoryBounded, HistoryConsistent, Empty
<1>2. ASSUME CountersOK, ChainsStayOne, RemoteViewSound, SamplesOK, HistoryInv, HistoryBounded,
             [Next]_vars
      PROVE  HistoryInv' /\ HistoryBounded'
  BY <1>2, HistoryStep
<1> QED
  BY <1>1, <1>2, CountersAreCounters, ChainsAreOne, RemoteViewIsSound, SamplesAreBegun, PTL DEF Spec

(* The history agrees with the sample on screen after every step, and      *)
(* loses only its oldest events, and those only when it is full.           *)
THEOREM HistoryIsSound == Spec => HistorySound
<1>1. ASSUME CountersOK, ChainsStayOne, RemoteViewSound, SamplesOK, HistoryInv, HistoryBounded,
             [Next]_vars
      PROVE  [HistoryConsistent' /\ KeepsNewest]_vars
  BY <1>1, HistoryStep DEF HistoryInv
<1> QED
  BY <1>1, HistoryInvariant, CountersAreCounters, ChainsAreOne, RemoteViewIsSound, SamplesAreBegun,
     PTL DEF Spec, HistorySound

-----------------------------------------------------------------------------
(* The types, of the loop and of everything MCAppLoop puts beside it.      *)

(* Reading the file again, and the stream's end, leave flags.              *)
FlagsOK == readOnly \in BOOLEAN /\ lost \in BOOLEAN

(* The event loop's variables stay in their domains, and the history never *)
(* outgrows its capacity (app.go, trackAlerts), whatever the number of     *)
(* alerts a sample raises.                                                 *)
THEOREM LoopTypeCorrect == Spec => []TypeOK
<1>1. ASSUME Init PROVE FlagsOK
  <2>1. CASE stream
    BY <1>1, <2>1 DEF Init, FlagsOK
  <2>2. CASE ~stream
    BY <1>1, <2>2 DEF Init, FlagsOK
  <2> QED BY <2>1, <2>2
<1>2. ASSUME FlagsOK, [Next]_vars PROVE FlagsOK'
  <2>1. CASE Commands \/ ReadNext \/ UNCHANGED vars
    <3>1. UNCHANGED <<readOnly, lost>>
      BY <2>1 DEF Commands, BeginCollect, ConnectMsg, DockerRetryMsg, ListMsg, TickMsg, ReadNext
    <3> QED BY <1>2, <3>1 DEF FlagsOK
  <2>2. CASE ReloadConfig
    <3>1. CASE stream
      BY <1>2, <2>2, <3>1 DEF ReloadConfig, FlagsOK
    <3>2. CASE ~stream
      BY <1>2, <2>2, <3>2 DEF ReloadConfig, FlagsOK
    <3> QED BY <3>1, <3>2
  <2>3. CASE RemoteEndedMsg
    BY <1>2, <2>3 DEF RemoteEndedMsg, FlagsOK
  <2>4. ASSUME NEW raised \in SUBSET Keys, RemoteSnapshotMsg(raised) \/ \E t \in running : SnapshotMsg(t, raised)
        PROVE  FlagsOK'
    BY <1>2, <2>4 DEF RemoteSnapshotMsg, SnapshotMsg, FlagsOK
  <2> QED BY <1>2, <2>1, <2>2, <2>3, <2>4 DEF Next
<1>3. ASSUME FlagsOK, CountersOK, SamplesOK, HistoryInv, HistoryBounded PROVE TypeOK
  <2>1. DOMAIN openAlerts \subseteq Keys /\ lastKeys \subseteq Keys /\ alerts \in Seq(Event)
    BY <1>3 DEF HistoryInv
  <2>2. stream \in BOOLEAN /\ dockerOn \in BOOLEAN /\ readOnly \in BOOLEAN /\ client \in BOOLEAN /\ lost \in BOOLEAN
    BY <1>3 DEF FlagsOK, CountersOK
  <2>3. /\ ticks \in Nat /\ spawned \in Nat /\ begun \in Nat /\ running \subseteq 1 .. begun
        /\ latest \in Nat /\ Len(alerts) <= AlertHistory
        /\ connecting \in Nat /\ retries \in Nat /\ lists \in Nat /\ got \in Nat
        /\ reader \in {"next", "send", "ended", "done"}
    BY <1>3 DEF CountersOK, SamplesOK, HistoryBounded
  <2> QED BY <1>3, <2>1, <2>2, <2>3 DEF TypeOK
<1> QED
  BY <1>1, <1>2, <1>3, CountersAreCounters, SamplesAreBegun, HistoryInvariant, PTL DEF Spec

(* A behaviour of the composition is, for each of its parts, one of that   *)
(* part: a step of another one leaves its variables alone.                 *)
LEMMA PartsRun ==
  MCSpec => Spec /\ ScreenSpec /\ SettingsSpec /\ DashSpec /\ RingSpec
<1> DEFINE all == <<part, loopVars, screenVars, settingsVars, dashVars, graph>>
<1>1. MCInit => Init /\ ScreenInit /\ SettingsInit /\ DashInit /\ RingInit
  BY DEF MCInit
<1>2. ASSUME [MCNext]_all
      PROVE  /\ [Next]_vars /\ [ScreenNext]_screenVars /\ [SettingsNext]_settingsVars
             /\ [DashNext]_dashVars /\ [RingNext]_graph
  <2>1. CASE MCNext
    BY <2>1 DEF MCNext, loopVars
  <2>2. CASE UNCHANGED all
    BY <2>2 DEF loopVars
  <2> QED BY <1>2, <2>1, <2>2
<1> HIDE DEF all
<1> QED BY <1>1, <1>2, PTL DEF MCSpec, Spec, ScreenSpec, SettingsSpec, DashSpec, RingSpec, all

(* The whole composition stays well typed.                                 *)
THEOREM AppTypesCorrect == MCSpec => []Types
<1>1. TypeOK /\ ScreenTypeOK /\ SettingsTypeOK /\ DashTypeOK /\ RingTypeOK => Types
  BY DEF Types
<1> QED
  BY <1>1, PartsRun, LoopTypeCorrect, ScreenTypeCorrect, SettingsTypeCorrect, DashTypeCorrect,
     RingTypeCorrect, PTL

(* All the safety that the model checker is asked of one instance of the   *)
(* application, of every instance: the event loop, the screen, the         *)
(* settings, the dashboard and its graphs.                                 *)
THEOREM AppCorrect ==
  MCSpec => /\ [](Types /\ ChainsStayOne /\ RemoteViewSound /\ ClickHitsShownTab /\ ScreenFits)
            /\ [](SettingsApplied /\ ThemeCycleReachesAll /\ PanelsTile /\ PanelContents /\ FrameIsCurrent)
            /\ HistorySound /\ RingIsWindow
<1>1. Spec => [](ChainsStayOne /\ RemoteViewSound) /\ HistorySound
  BY ChainsAreOne, RemoteViewIsSound, HistoryIsSound, PTL
<1>2. ScreenSpec => [](ClickHitsShownTab /\ ScreenFits)
  BY ClicksReachShownTab, FrameAlwaysFits, PTL
<1>3. SettingsSpec => [](SettingsApplied /\ ThemeCycleReachesAll)
  BY SettingsAlwaysApplied, CycleReachesEveryTheme, PTL
<1>4. DashSpec => [](PanelsTile /\ PanelContents /\ FrameIsCurrent)
  BY PanelsAlwaysTile, PanelContentsHold, FrameStaysCurrent, PTL
<1> QED BY <1>1, <1>2, <1>3, <1>4, PartsRun, AppTypesCorrect, RingRefinesWindow, PTL
=============================================================================
