----------------------------- MODULE DockerPoll -----------------------------
(***************************************************************************)
(* The container table of the Docker tab (internal/ui/docker/docker.go):   *)
(* each tick lists the containers, listings overlap and arrive in any      *)
(* order, rates are differences of lifetime counters, and a lifecycle      *)
(* action is about the highlighted row.  One counter stands for the four.  *)
(* The log pane, which only withholds input from the table, is DockerLogs; *)
(* the feedback line is left out.  Positions count from 1, and a cursor of *)
(* 0 is the table's -1.                                                    *)
(***************************************************************************)
EXTENDS Integers, Sequences, SequencesExt

CONSTANTS
  Containers,  \* container ids
  Polls,       \* listings that may be in flight at once
  MaxEpoch,    \* bound: starts and stops of a container
  MaxTraffic   \* bound: traffic of a container, in units

BoundsAssumption == MaxEpoch \in Nat /\ MaxTraffic \in Nat

VARIABLES
  order,    \* the daemon's list, newest first
  life,     \* "unborn", "running", "exited", "removed"
  count,    \* a container's counter, which begins at zero with each start
  total,    \* its traffic ever (not observable)
  epoch,    \* its starts and stops (not observable)
  polls,    \* the listings in flight
  client,   \* the tab has a client
  cons,     \* m.cons
  prev,     \* m.prev: the sample the next rate starts from, by id
  rates,    \* m.rates, undivided
  rows,     \* the rows in the table
  cursor,   \* its cursor
  active,   \* the Docker tab is the active one
  visible,  \* the tab's own idea of it
  acting    \* containers with a lifecycle action in flight

daemonVars == <<order, life, count, total, epoch>>
rateVars == <<prev, rates>>
tableVars == <<rows, cursor>>
tabVars == <<client, cons, rateVars, tableVars, active, visible>>
vars == <<daemonVars, polls, tabVars, acting>>

Idle == [at |-> "idle", items |-> <<>>, left |-> {}]

(* The tab is built visible although the dashboard is the active tab.      *)
Init ==
  /\ order = <<>> /\ life = [c \in Containers |-> "unborn"]
  /\ count = [c \in Containers |-> 0] /\ total = count /\ epoch = count
  /\ polls = [k \in Polls |-> Idle]
  /\ client = FALSE /\ cons = <<>> /\ prev = <<>> /\ rates = <<>>
  /\ rows = <<>> /\ cursor = 1 /\ active = FALSE /\ visible = TRUE /\ acting = {}

-----------------------------------------------------------------------------
(* The daemon. *)

Starts(c) ==
  /\ life[c] \in {"unborn", "running", "exited"} /\ epoch[c] < MaxEpoch
  /\ life' = [life EXCEPT ![c] = "running"]
  /\ order' = IF life[c] = "unborn" THEN <<c>> \o order ELSE order
  /\ count' = [count EXCEPT ![c] = 0]
  /\ epoch' = [epoch EXCEPT ![c] = @ + 1]
  /\ UNCHANGED total

Stops(c) ==
  /\ life[c] = "running" /\ epoch[c] < MaxEpoch
  /\ life' = [life EXCEPT ![c] = "exited"]
  /\ epoch' = [epoch EXCEPT ![c] = @ + 1]
  /\ UNCHANGED <<order, count, total>>

Removed(c) ==
  /\ life[c] = "exited"
  /\ life' = [life EXCEPT ![c] = "removed"]
  /\ \E i \in DOMAIN order : order[i] = c /\ order' = RemoveAt(order, i)
  /\ UNCHANGED <<count, total, epoch>>

Traffic(c) ==
  /\ life[c] = "running" /\ total[c] < MaxTraffic
  /\ count' = [count EXCEPT ![c] = @ + 1]
  /\ total' = [total EXCEPT ![c] = @ + 1]
  /\ UNCHANGED <<order, life, epoch>>

Daemon(c) ==
  /\ Starts(c) \/ Stops(c) \/ Removed(c) \/ Traffic(c)
  /\ UNCHANGED <<polls, tabVars, acting>>

-----------------------------------------------------------------------------
(* A listing in flight. *)

(* What a sample says of c: ok is FALSE when the stats call failed.        *)
Item(c, n, fine) == [id |-> c, count |-> n, ok |-> fine, total |-> total[c], epoch |-> epoch[c]]

(* The tick's command: ContainerList, and a stats call for each running    *)
(* container; or no answer in four seconds, which is an empty update.      *)
List(k) ==
  /\ client /\ polls[k].at = "idle"
  /\ polls' = [polls EXCEPT ![k] =
       [at |-> "stats", items |-> [i \in DOMAIN order |-> Item(order[i], 0, TRUE)],
        left |-> {i \in DOMAIN order : life[order[i]] = "running"}]]
  /\ UNCHANGED <<daemonVars, tabVars, acting>>

ListFails(k) ==
  /\ client /\ polls[k].at = "idle"
  /\ polls' = [polls EXCEPT ![k].at = "stats"]
  /\ UNCHANGED <<daemonVars, tabVars, acting>>

(* One of the concurrent fillStats calls: it fills its own item, which     *)
(* keeps its zeros when the call fails.  A container that stopped since    *)
(* reports zeros too.                                                      *)
FillStats(k, i) ==
  /\ i \in polls[k].left
  /\ LET c == polls[k].items[i].id IN
       \E fine \in BOOLEAN :
         LET n == IF fine /\ life[c] = "running" THEN count[c] ELSE 0 IN
         polls' = [polls EXCEPT ![k].left = @ \ {i}, ![k].items[i] = Item(c, n, fine)]
  /\ UNCHANGED <<daemonVars, tabVars, acting>>

-----------------------------------------------------------------------------
(* The tab. *)

Ids(items) == [i \in DOMAIN items |-> items[i].id]
ById(items) == [c \in ToSet(Ids(items)) |-> items[CHOOSE i \in DOMAIN items : items[i].id = c]]

(* Mutant of Rebuild: EnsureCursor is not called.                          *)
Rebuild_NoEnsure(items, cur) ==
  /\ rows' = Ids(items)
  /\ cursor' = IF cur > Len(items) THEN Len(items) ELSE cur

(* rebuild: SetRows clamps the cursor downwards, EnsureCursor raises it.   *)
Rebuild(items, cur) ==
  /\ rows' = Ids(items)
  /\ cursor' = IF cur > Len(items) THEN Len(items)
               ELSE IF cur = 0 /\ items # <<>> THEN 1 ELSE cur

(* Mutant of Moved: unsigned subtraction without the test.                 *)
Moved_Wraps(new, old) == (new.count - old.count) % 1000

(* A counter that went backwards has not moved.                            *)
Moved(new, old) == IF new.count < old.count THEN 0 ELSE new.count - old.count

(* updateRates; ticked is FALSE when no time passed since the last one.    *)
UpdateRates(items, ticked) ==
  LET now == ById(items) IN
  /\ rates' = [c \in DOMAIN now |->
                 IF c \in DOMAIN prev /\ ticked THEN Moved(now[c], prev[c]) ELSE 0]
  /\ prev' = now

Apply(items, ticked) ==
  /\ UpdateRates(items, ticked)
  /\ cons' = items
  /\ IF visible THEN Rebuild(items, cursor) ELSE UNCHANGED tableVars

(* UpdateMsg: the connection, which lists nothing, or a listing.           *)
Connected ==
  /\ ~client /\ client' = TRUE
  /\ Apply(<<>>, TRUE)
  /\ UNCHANGED <<daemonVars, polls, active, visible, acting>>

UpdateMsg(k) ==
  /\ polls[k].at = "stats" /\ polls[k].left = {}
  /\ \E ticked \in BOOLEAN : Apply(polls[k].items, ticked)
  /\ polls' = [polls EXCEPT ![k] = Idle]
  /\ UNCHANGED <<daemonVars, client, active, visible, acting>>

(* Mutant of SetActive: activation does not catch up.                      *)
SetActive_NoCatchUp ==
  /\ active' = ~active /\ visible' = ~active
  /\ UNCHANGED <<tableVars, daemonVars, polls, client, cons, rateVars, acting>>

SetActive ==
  /\ active' = ~active /\ visible' = ~active
  /\ IF active THEN UNCHANGED tableVars ELSE Rebuild(cons, cursor)
  /\ UNCHANGED <<daemonVars, polls, client, cons, rateVars, acting>>

(* A resize: a change of the column count clears the table first.          *)
SetSize(reshaped) ==
  /\ Rebuild(cons, IF reshaped THEN 0 ELSE cursor)
  /\ UNCHANGED <<daemonVars, polls, client, cons, rateVars, active, visible, acting>>

(* Arrow keys, the wheel, clicks.                                          *)
MoveCursor(i) ==
  /\ active /\ i \in DOMAIN rows
  /\ cursor' = i
  /\ UNCHANGED <<daemonVars, polls, client, cons, rateVars, rows, active, visible, acting>>

(* s, t, r: the command keeps the id of the container at the cursor.       *)
Action ==
  /\ active /\ client
  /\ cursor \in DOMAIN cons
  /\ acting' = acting \cup {cons[cursor].id}
  /\ UNCHANGED <<daemonVars, polls, tabVars>>

(* The daemon carries it out (a restart is a start) or refuses.            *)
ActionDone(c) ==
  /\ c \in acting
  /\ acting' = acting \ {c}
  /\ Starts(c) \/ Stops(c) \/ UNCHANGED daemonVars
  /\ UNCHANGED <<polls, tabVars>>

-----------------------------------------------------------------------------
Next ==
  \/ Connected \/ SetActive \/ Action
  \/ \E c \in Containers : Daemon(c) \/ ActionDone(c)
  \/ \E k \in Polls :
       \/ List(k) \/ ListFails(k) \/ UpdateMsg(k)
       \/ \E i \in polls[k].left : FillStats(k, i)
  \/ \E reshaped \in BOOLEAN : SetSize(reshaped)
  \/ \E i \in DOMAIN rows : MoveCursor(i)

Spec == Init /\ [][Next]_vars

-----------------------------------------------------------------------------
(* Properties. *)

Items == [id : Containers, count : 0 .. MaxTraffic, ok : BOOLEAN,
          total : 0 .. MaxTraffic, epoch : 0 .. MaxEpoch]

(* The type invariant: rates and their basis are kept for the listed       *)
(* containers only, so that neither grows with every container ever seen.  *)
TypeOK ==
  /\ order \in Seq(Containers)
  /\ life \in [Containers -> {"unborn", "running", "exited", "removed"}]
  /\ count \in [Containers -> 0 .. MaxTraffic] /\ total \in [Containers -> 0 .. MaxTraffic]
  /\ epoch \in [Containers -> 0 .. MaxEpoch]
  /\ \A k \in Polls : polls[k].at \in {"idle", "stats"} /\ polls[k].items \in Seq(Items)
  /\ cons \in Seq(Items) /\ client \in BOOLEAN
  /\ DOMAIN prev = ToSet(Ids(cons)) /\ DOMAIN rates = DOMAIN prev
  /\ rows \in Seq(Containers) /\ cursor \in Nat
  /\ active \in BOOLEAN /\ visible \in BOOLEAN /\ acting \subseteq Containers

(* A lifecycle action is about the container whose row is highlighted on   *)
(* screen when the key is pressed, whatever listings arrived while the     *)
(* tab was hidden, resized or empty.                                       *)
ActsOnShownRow ==
  [][acting' \ acting # {} => cursor \in DOMAIN rows /\ acting' \ acting = {rows[cursor]}]_vars

(* An active table with rows has a row selected: after an empty spell (a   *)
(* failed listing, a reshaping) keys do not dead-end.                      *)
RowSelected == active /\ rows # <<>> => cursor \in DOMAIN rows

Later(new, old) == new.epoch >= old.epoch /\ new.total >= old.total
Real(c) == rates'[c] <= prev'[c].total - prev[c].total

(* Between two samples in order, the earlier of which has its counters, a  *)
(* rate never exceeds the container's traffic: across restarts, removals,  *)
(* overlapping and failed listings.                                        *)
RateOfGoodSamples ==
  [][\A c \in DOMAIN prev \cap DOMAIN prev' :
       Later(prev'[c], prev[c]) /\ prev[c].ok => Real(c)]_<<cons, rateVars>>

(* "Stats are best-effort: zeros are fine when they fail": a failed stats  *)
(* call makes no rate up either.                                           *)
RateIsTraffic ==
  [][\A c \in DOMAIN prev \cap DOMAIN prev' :
       Later(prev'[c], prev[c]) => Real(c)]_<<cons, rateVars>>
=============================================================================
