------------------------------- MODULE MCTabs -------------------------------
(***************************************************************************)
(* The tabs for TLC: the processes and their tree, the tables of the       *)
(* disks, network and connections tabs, and the containers.  They share    *)
(* nothing but the keyboard, so a behaviour exercises one of them.  The    *)
(* Docker tab is checked in two parts, each with what its properties       *)
(* depend on: the table (several containers, one listing at a time, no     *)
(* traffic) and the rates (one container, overlapping listings, no user).  *)
(***************************************************************************)
EXTENDS Tabs, ProcTree

CONSTANTS Containers, Polls, MaxEpoch, MaxTraffic, FirstPoll, FirstContainer
VARIABLES
  part,
  order, life, count, total, epoch, polls, client, cons, prev, rates,
  dRows, dCursor, dActive, dVisible, acting

D == INSTANCE DockerPoll
       WITH rows <- dRows, cursor <- dCursor, active <- dActive, visible <- dVisible
ASSUME PollAssumption == D!BoundsAssumption

dockerVars == <<order, life, count, total, epoch, polls, client, cons, prev, rates,
                dRows, dCursor, dActive, dVisible, acting>>

MCInit ==
  /\ TabsInit /\ D!Init /\ TreeInit
  /\ part \in {"procs", "tree", "tables", "containers", "rates"}
  /\ part # "procs" => ~readOnly

MCNext ==
  /\ UNCHANGED part
  /\ \/ part = "procs" /\ Next /\ UNCHANGED <<dockerVars, treeVars, tabsVars>>
     \/ part = "tree" /\ TreeNext /\ UNCHANGED <<vars, dockerVars, tabsVars>>
     \/ part = "tables" /\ TableNext /\ UNCHANGED <<vars, dockerVars, treeVars>>
     \/ part \in {"containers", "rates"} /\ D!Next /\ UNCHANGED <<vars, treeVars, tabsVars>>
  /\ part = "containers" =>
       /\ UNCHANGED total /\ \A c \in Containers : epoch'[c] <= MaxEpoch - 1
       /\ \A i \in DOMAIN polls'[FirstPoll].items : polls'[FirstPoll].items[i].ok
       /\ \A k \in Polls \ {FirstPoll} : polls'[k] = polls[k]
  /\ part = "rates" =>
       /\ ToSet(order') \subseteq {FirstContainer}
       /\ UNCHANGED <<dActive, dVisible, acting>>

MCSpec == MCInit /\ [][MCNext]_<<part, vars, treeVars, tabsVars, dockerVars>>

(* Pids and names occur in no comparison but equality.                     *)
Symm == Permutations(Pids) \cup Permutations(Names)

(* The type invariants, with the selected row of every table.              *)
Types == TypeOK /\ TreeTypeOK /\ TableTypeOK /\ D!TypeOK /\ D!RowSelected

(* The Docker tab's properties.                                            *)
ActsOnShownRow == D!ActsOnShownRow
RateOfGoodSamples == D!RateOfGoodSamples
=============================================================================
