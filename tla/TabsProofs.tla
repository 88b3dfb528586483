----------------------------- MODULE TabsProofs -----------------------------
(***************************************************************************)
(* Proofs about the tabs: the containers (DockerPoll), for any containers, *)
(* listings and bounds; the processes (ProcTable), for any finite set of   *)
(* processes and any list of signals; the disks, network and connections   *)
(* (TableTabs), for any names and any widths; and their compositions, in   *)
(* which TreeProofs' theorem is one part.                                  *)
(***************************************************************************)
EXTENDS MCTabs, TreeProofs

-----------------------------------------------------------------------------
(* The containers.                                                         *)

(* The inductive invariant: the active tab knows that it is, and a tab     *)
(* that believes it is visible has the rows of its containers.             *)
ShownInv ==
  /\ dActive \in BOOLEAN
  /\ dActive => dVisible
  /\ dVisible => dRows = D!Ids(cons)

(* What a rebuild leaves on screen.                                        *)
LEMMA RebuildShows ==
  ASSUME NEW items, NEW at, D!Rebuild(items, at)
  PROVE  dRows' = D!Ids(items)
BY DEF D!Rebuild

(* An update of the container list keeps the rows in step, visible or not. *)
LEMMA ApplyShows ==
  ASSUME NEW items, NEW ticked, ShownInv, D!Apply(items, ticked), UNCHANGED <<dActive, dVisible>>
  PROVE  ShownInv'
<1>1. cons' = items
  BY DEF D!Apply
<1>2. CASE dVisible
  <2>1. dRows' = D!Ids(items)
    BY <1>2, RebuildShows DEF D!Apply
  <2> QED BY <1>1, <2>1 DEF ShownInv, D!Ids
<1>3. CASE ~dVisible
  BY <1>3 DEF ShownInv
<1> QED BY <1>2, <1>3

(* No operation of the tab, nor anything the daemon does, leaves a visible *)
(* table with other rows than the containers the keys act on.              *)
THEOREM RowsMatchContainers == D!Spec => []ShownInv
<1>1. D!Init => ShownInv
  <2> SUFFICES ASSUME D!Init PROVE ShownInv
    OBVIOUS
  <2>1. D!Ids(<<>>) = <<>>
    BY DEF D!Ids
  <2> QED BY <2>1 DEF D!Init, ShownInv
<1>2. ShownInv /\ [D!Next]_D!vars => ShownInv'
  <2> SUFFICES ASSUME ShownInv, [D!Next]_D!vars PROVE ShownInv'
    OBVIOUS
  <2> USE DEF D!tabVars, D!tableVars, D!rateVars
  <2>1. CASE D!Connected
    BY <2>1, ApplyShows DEF D!Connected
  <2>2. CASE D!SetActive
    <3>1. CASE dActive
      BY <2>2, <3>1 DEF D!SetActive, ShownInv
    <3>2. CASE ~dActive
      <4>1. dRows' = D!Ids(cons) /\ cons' = cons
        BY <2>2, <3>2, RebuildShows DEF D!SetActive
      <4> QED BY <2>2, <4>1 DEF D!SetActive, ShownInv, D!Ids
    <3> QED BY <3>1, <3>2
  <2>3. CASE D!Action
    BY <2>3 DEF D!Action, ShownInv, D!Ids
  <2>4. ASSUME NEW c \in Containers, D!Daemon(c) \/ D!ActionDone(c) PROVE ShownInv'
    <3>1. UNCHANGED <<cons, dRows, dActive, dVisible>>
      BY <2>4 DEF D!Daemon, D!ActionDone
    <3> QED BY <3>1 DEF ShownInv, D!Ids
  <2>5. ASSUME NEW k \in Polls,
               \/ D!List(k) \/ D!ListFails(k)
               \/ \E i \in polls[k].left : D!FillStats(k, i)
        PROVE  ShownInv'
    <3>1. UNCHANGED <<cons, dRows, dActive, dVisible>>
      BY <2>5 DEF D!List, D!ListFails, D!FillStats
    <3> QED BY <3>1 DEF ShownInv, D!Ids
  <2>6. ASSUME NEW k \in Polls, D!UpdateMsg(k) PROVE ShownInv'
    <3>1. PICK ticked \in BOOLEAN : D!Apply(polls[k].items, ticked)
      BY <2>6 DEF D!UpdateMsg
    <3> QED BY <2>6, <3>1, ApplyShows DEF D!UpdateMsg
  <2>7. ASSUME NEW reshaped \in BOOLEAN, D!SetSize(reshaped) PROVE ShownInv'
    <3>1. dRows' = D!Ids(cons) /\ UNCHANGED <<cons, dActive, dVisible>>
      BY <2>7, RebuildShows DEF D!SetSize
    <3> QED BY <3>1 DEF ShownInv, D!Ids
  <2>8. ASSUME NEW i \in DOMAIN dRows, D!MoveCursor(i) PROVE ShownInv'
    BY <2>8 DEF D!MoveCursor, ShownInv, D!Ids
  <2>9. CASE UNCHANGED D!vars
    BY <2>9 DEF D!vars, ShownInv, D!Ids
  <2> QED BY <2>1, <2>2, <2>3, <2>4, <2>5, <2>6, <2>7, <2>8, <2>9 DEF D!Next
<1> QED BY <1>1, <1>2, PTL DEF D!Spec

(* A lifecycle action is about the container whose row is highlighted when *)
(* its key is pressed: Action takes the container at the cursor, and the   *)
(* row at the cursor is that container's.                                  *)
THEOREM KeysActOnShownRow == D!Spec => ActsOnShownRow
<1> DEFINE Added == acting' \ acting
<1>1. ShownInv /\ [D!Next]_D!vars => [Added # {} => dCursor \in DOMAIN dRows /\ Added = {dRows[dCursor]}]_D!vars
  <2> SUFFICES ASSUME ShownInv, [D!Next]_D!vars, Added # {}
               PROVE  dCursor \in DOMAIN dRows /\ Added = {dRows[dCursor]}
    OBVIOUS
  <2> USE DEF D!tabVars, D!tableVars, D!rateVars
  <2>1. CASE D!Action
    <3>1. /\ dCursor \in DOMAIN cons
          /\ acting' = acting \cup {cons[dCursor].id}
          /\ dRows = D!Ids(cons)
      BY <2>1 DEF D!Action, ShownInv
    <3>2. dCursor \in DOMAIN dRows /\ dRows[dCursor] = cons[dCursor].id
      BY <3>1 DEF D!Ids
    <3> QED BY <3>1, <3>2
  <2>2. CASE ~D!Action
    <3>1. acting' \subseteq acting
      BY <2>2 DEF D!Next, D!vars, D!Connected, D!SetActive, D!Daemon, D!ActionDone, D!List, D!ListFails,
                  D!UpdateMsg, D!FillStats, D!SetSize, D!MoveCursor
    <3> QED BY <3>1
  <2> QED BY <2>1, <2>2
<1> QED BY <1>1, RowsMatchContainers, PTL DEF D!Spec, D!ActsOnShownRow, ActsOnShownRow

-----------------------------------------------------------------------------
(* The state is well typed.  The rates below need to know in which order   *)
(* the numbers in the samples in flight were read, hence first that they   *)
(* are numbers.                                                            *)

(* The bounds of the model are naturals.                                   *)
LEMMA BoundsAreNat == MaxEpoch \in Nat /\ MaxTraffic \in Nat
BY PollAssumption DEF D!BoundsAssumption

DaemonTyped ==
  /\ order \in Seq(Containers)
  /\ life \in [Containers -> {"unborn", "running", "exited", "removed"}]
  /\ count \in [Containers -> 0 .. MaxTraffic]
  /\ total \in [Containers -> 0 .. MaxTraffic]
  /\ epoch \in [Containers -> 0 .. MaxEpoch]
  /\ \A c \in Containers : count[c] <= total[c]

Listings ==
  [at : {"idle", "stats"}, items : Seq(D!Items), left : SUBSET Nat]

PollsTyped ==
  /\ polls \in [Polls -> Listings]
  /\ \A k \in Polls : polls[k].left \subseteq DOMAIN polls[k].items

TabTyped ==
  /\ cons \in Seq(D!Items) /\ client \in BOOLEAN
  /\ prev \in [D!ToSet(D!Ids(cons)) -> D!Items] /\ DOMAIN rates = DOMAIN prev
  /\ \A c \in DOMAIN prev : prev[c].id = c
  /\ dRows \in Seq(Containers) /\ dCursor \in Nat
  /\ dActive \in BOOLEAN /\ dVisible \in BOOLEAN

TypeInv == DaemonTyped /\ PollsTyped /\ TabTyped /\ acting \subseteq Containers

(* What the daemon does keeps its containers well typed.                   *)
LEMMA DaemonStaysTyped ==
  ASSUME DaemonTyped, NEW c \in Containers,
         D!Starts(c) \/ D!Stops(c) \/ D!Removed(c) \/ D!Traffic(c)
  PROVE  DaemonTyped'
<1> USE BoundsAreNat DEF DaemonTyped
<1>1. CASE D!Starts(c)
  BY <1>1 DEF D!Starts
<1>2. CASE D!Stops(c)
  BY <1>2 DEF D!Stops
<1>3. CASE D!Removed(c)
  <2>1. PICK i \in DOMAIN order : order' = D!RemoveAt(order, i)
    BY <1>3 DEF D!Removed
  <2>2. /\ SubSeq(order, 1, i - 1) \in Seq(Containers)
        /\ SubSeq(order, i + 1, Len(order)) \in Seq(Containers)
    <3>1. /\ Len(order) \in Nat /\ i \in 1 .. Len(order)
          /\ \A j \in 1 .. Len(order) : order[j] \in Containers
      OBVIOUS
    <3> HIDE BoundsAreNat DEF DaemonTyped
    <3>2. /\ i - 1 \in Int /\ i + 1 \in Int /\ 1 \in Int /\ Len(order) \in Int
          /\ \A j \in 1 .. i - 1 : order[j] \in Containers
          /\ \A j \in i + 1 .. Len(order) : order[j] \in Containers
      BY <3>1
    <3>3. SubSeq(order, 1, i - 1) \in Seq(Containers)
      BY <3>2, SubSeqProperties
    <3>4. SubSeq(order, i + 1, Len(order)) \in Seq(Containers)
      BY <3>2, SubSeqProperties
    <3> QED BY <3>3, <3>4
  <2>3. order' = SubSeq(order, 1, i - 1) \o SubSeq(order, i + 1, Len(order))
    BY <2>1 DEF D!RemoveAt
  <2>4. order' \in Seq(Containers)
    BY <2>2, <2>3, ConcatProperties
  <2> QED BY <1>3, <2>4 DEF D!Removed
<1>4. CASE D!Traffic(c)
  BY <1>4 DEF D!Traffic
<1> QED BY <1>1, <1>2, <1>3, <1>4

(* A function on 1 .. n is a sequence.                                     *)
LEMMA IsSequence ==
  ASSUME NEW S, NEW n \in Nat, NEW s \in [1 .. n -> S]
  PROVE  s \in Seq(S)
OBVIOUS

(* A sample of a well-typed daemon is a sample.                            *)
LEMMA ItemTyped ==
  ASSUME DaemonTyped, NEW c \in Containers, NEW fine \in BOOLEAN,
         NEW n \in 0 .. MaxTraffic
  PROVE  D!Item(c, n, fine) \in D!Items
BY DEF DaemonTyped, D!Item, D!Items

(* The ids of a listing, and what ById makes of it: an item of the listing *)
(* under the id of each.                                                   *)
LEMMA ByIdTyped ==
  ASSUME NEW items \in Seq(D!Items)
  PROVE  /\ D!Ids(items) \in Seq(Containers)
         /\ D!ById(items) \in [D!ToSet(D!Ids(items)) -> D!Items]
         /\ \A c \in DOMAIN D!ById(items) :
              \E i \in DOMAIN items : D!ById(items)[c] = items[i] /\ items[i].id = c
<1>1. D!Ids(items) \in Seq(Containers)
  <2>1. \A i \in 1 .. Len(items) : items[i].id \in Containers
    <3>1. \A i \in 1 .. Len(items) : items[i] \in D!Items
      OBVIOUS
    <3> QED BY <3>1 DEF D!Items
  <2>2. D!Ids(items) = [i \in 1 .. Len(items) |-> items[i].id] /\ Len(items) \in Nat
    BY DEF D!Ids
  <2> QED BY <2>1, <2>2
<1>2. ASSUME NEW c \in D!ToSet(D!Ids(items))
      PROVE  \E i \in DOMAIN items : D!ById(items)[c] = items[i] /\ items[i].id = c
  <2>1. \E i \in DOMAIN items : items[i].id = c
    BY <1>2 DEF D!ToSet, D!Ids
  <2> QED BY <1>2, <2>1 DEF D!ById
<1>3. DOMAIN D!ById(items) = D!ToSet(D!Ids(items))
  BY DEF D!ById
<1>4. D!ById(items) \in [D!ToSet(D!Ids(items)) -> D!Items]
  <2>1. \A c \in D!ToSet(D!Ids(items)) : D!ById(items)[c] \in D!Items
    BY <1>2
  <2> QED BY <2>1 DEF D!ById
<1> QED BY <1>1, <1>2, <1>3, <1>4

(* A rebuild leaves a typed table.                                         *)
LEMMA RebuildTyped ==
  ASSUME NEW items \in Seq(D!Items), NEW at \in Nat, D!Rebuild(items, at)
  PROVE  dRows' \in Seq(Containers) /\ dCursor' \in Nat
BY ByIdTyped DEF D!Rebuild

(* An applied listing leaves a typed tab.                                  *)
LEMMA ApplyTyped ==
  ASSUME TabTyped, NEW items \in Seq(D!Items), NEW ticked \in BOOLEAN, D!Apply(items, ticked),
         client' \in BOOLEAN, dActive' = dActive, dVisible' = dVisible
  PROVE  TabTyped'
<1>1. /\ cons' = items /\ prev' = D!ById(items)
      /\ DOMAIN rates' = DOMAIN D!ById(items)
  BY DEF D!Apply, D!UpdateRates
<1>2. dRows' \in Seq(Containers) /\ dCursor' \in Nat
  BY RebuildTyped DEF D!Apply, TabTyped, D!tableVars
<1>3. D!ToSet(D!Ids(cons))' = D!ToSet(D!Ids(items))
  BY <1>1 DEF D!ToSet, D!Ids
<1>4. \A c \in DOMAIN prev' : prev'[c].id = c
  BY <1>1, ByIdTyped
<1>5. prev' \in [D!ToSet(D!Ids(cons))' -> D!Items]
  BY <1>1, <1>3, ByIdTyped
<1> QED BY <1>1, <1>2, <1>4, <1>5 DEF TabTyped

(* The same for a tab whose listing does not change.                       *)
LEMMA SameListingTyped ==
  ASSUME TabTyped, UNCHANGED <<client, cons, prev, rates>>,
         dRows' \in Seq(Containers), dCursor' \in Nat,
         dActive' \in BOOLEAN, dVisible' \in BOOLEAN
  PROVE  TabTyped'
<1>1. D!ToSet(D!Ids(cons))' = D!ToSet(D!Ids(cons))
  BY DEF D!ToSet, D!Ids
<1> QED BY <1>1 DEF TabTyped

(* Every operation keeps the state well typed.                             *)
THEOREM PollTypeCorrect == D!Spec => [](TypeInv /\ D!TypeOK)
<1>1. D!Init => TypeInv
  <2> SUFFICES ASSUME D!Init PROVE TypeInv
    OBVIOUS
  <2>1. D!Ids(<<>>) = <<>> /\ D!ToSet(<<>>) = {}
    BY DEF D!Ids, D!ToSet
  <2>2. DaemonTyped
    BY BoundsAreNat DEF D!Init, DaemonTyped
  <2>3. PollsTyped
    BY DEF D!Init, PollsTyped, Listings, D!Idle
  <2>4. TabTyped
    <3>1. cons = <<>> /\ prev = <<>> /\ rates = <<>> /\ DOMAIN prev = {} /\ DOMAIN rates = {}
      BY DEF D!Init
    <3>2. prev \in [D!ToSet(D!Ids(cons)) -> D!Items]
      BY <2>1, <3>1
    <3>3. cons \in Seq(D!Items) /\ dRows \in Seq(Containers) /\ dCursor \in Nat
      BY DEF D!Init
    <3>4. client \in BOOLEAN /\ dActive \in BOOLEAN /\ dVisible \in BOOLEAN
      BY DEF D!Init
    <3> QED BY <3>1, <3>2, <3>3, <3>4 DEF TabTyped
  <2> QED BY <2>2, <2>3, <2>4 DEF D!Init, TypeInv
<1>2. TypeInv /\ [D!Next]_D!vars => TypeInv'
  <2> SUFFICES ASSUME TypeInv, [D!Next]_D!vars PROVE TypeInv'
    OBVIOUS
  <2> USE DEF TypeInv
  <2>d. UNCHANGED D!daemonVars => DaemonTyped'
    BY DEF D!daemonVars, DaemonTyped
  <2>p. UNCHANGED polls => PollsTyped'
    BY DEF PollsTyped
  <2>t. UNCHANGED D!tabVars => TabTyped'
    BY SameListingTyped DEF D!tabVars, D!rateVars, D!tableVars, TabTyped
  <2>1. CASE D!Connected
    <3>1. <<>> \in Seq(D!Items) /\ TRUE \in BOOLEAN /\ client' \in BOOLEAN
      BY <2>1 DEF D!Connected
    <3>2. D!Apply(<<>>, TRUE) /\ dActive' = dActive /\ dVisible' = dVisible
      BY <2>1 DEF D!Connected
    <3>3. TabTyped'
      BY <3>1, <3>2, ApplyTyped
    <3> QED BY <2>1, <2>d, <2>p, <3>3 DEF D!Connected
  <2>2. CASE D!SetActive
    <3>1. dRows' \in Seq(Containers) /\ dCursor' \in Nat
      BY <2>2, RebuildTyped DEF D!SetActive, TabTyped, D!tableVars
    <3>2. TabTyped'
      BY <2>2, <3>1, SameListingTyped DEF D!SetActive, D!rateVars, TabTyped
    <3> QED BY <2>2, <2>d, <2>p, <3>2 DEF D!SetActive
  <2>3. CASE D!Action
    <3>1. cons[dCursor] \in D!Items
      BY <2>3 DEF D!Action, TabTyped
    <3>2. acting' \subseteq Containers
      BY <2>3, <3>1 DEF D!Action, D!Items
    <3> QED BY <2>3, <2>d, <2>p, <2>t, <3>2 DEF D!Action
  <2>4. ASSUME NEW c \in Containers, D!Daemon(c) \/ D!ActionDone(c) PROVE TypeInv'
    <3>1. DaemonTyped'
      BY <2>4, <2>d, DaemonStaysTyped DEF D!Daemon, D!ActionDone
    <3> QED BY <2>4, <2>p, <2>t, <3>1 DEF D!Daemon, D!ActionDone
  <2>5. ASSUME NEW k \in Polls, D!List(k) PROVE TypeInv'
    <3> DEFINE listing == [i \in DOMAIN order |-> D!Item(order[i], 0, TRUE)]
               running == {i \in DOMAIN order : life[order[i]] = "running"}
    <3>1. listing \in Seq(D!Items) /\ running \subseteq DOMAIN listing /\ running \subseteq Nat
      <4>1. DOMAIN order = 1 .. Len(order) /\ Len(order) \in Nat
            /\ \A i \in 1 .. Len(order) : order[i] \in Containers
        BY DEF DaemonTyped
      <4>2. 0 \in 0 .. MaxTraffic
        BY BoundsAreNat
      <4>3. \A i \in 1 .. Len(order) : D!Item(order[i], 0, TRUE) \in D!Items
        BY <4>1, <4>2, ItemTyped
      <4>4. listing = [i \in 1 .. Len(order) |-> D!Item(order[i], 0, TRUE)]
        BY <4>1
      <4>5. listing \in Seq(D!Items)
        <5>1. listing \in [1 .. Len(order) -> D!Items]
          BY <4>3, <4>4
        <5> QED BY <4>1, <5>1, IsSequence
      <4>6. running \subseteq DOMAIN listing /\ running \subseteq Nat
        BY <4>1
      <4> QED BY <4>5, <4>6
    <3>2. polls' = [polls EXCEPT ![k] = [at |-> "stats", items |-> listing, left |-> running]]
      BY <2>5 DEF D!List
    <3>3. PollsTyped'
      <4> HIDE DEF listing, running
      <4> QED BY <3>1, <3>2 DEF PollsTyped, Listings
    <3> QED BY <2>5, <2>d, <2>t, <3>3 DEF D!List
  <2>6. ASSUME NEW k \in Polls, D!ListFails(k) PROVE TypeInv'
    <3>1. PollsTyped'
      BY <2>6 DEF D!ListFails, PollsTyped, Listings
    <3> QED BY <2>6, <2>d, <2>t, <3>1 DEF D!ListFails
  <2>7. ASSUME NEW k \in Polls, NEW i \in polls[k].left, D!FillStats(k, i) PROVE TypeInv'
    <3> DEFINE c == polls[k].items[i].id
    <3>1. PICK fine \in BOOLEAN :
            LET n == IF fine /\ life[c] = "running" THEN count[c] ELSE 0 IN
            polls' = [polls EXCEPT ![k].left = @ \ {i}, ![k].items[i] = D!Item(c, n, fine)]
      BY <2>7 DEF D!FillStats
    <3> DEFINE n == IF fine /\ life[c] = "running" THEN count[c] ELSE 0
               x == D!Item(c, n, fine)
    <3>2. i \in DOMAIN polls[k].items /\ polls[k].items \in Seq(D!Items) /\ polls[k] \in Listings
      BY <2>7 DEF PollsTyped, Listings
    <3>3. c \in Containers
      <4>1. polls[k].items[i] \in D!Items
        BY <3>2
      <4> QED BY <4>1 DEF D!Items
    <3>4. x \in D!Items
      <4>1. n \in 0 .. MaxTraffic
        BY <3>3, BoundsAreNat DEF DaemonTyped
      <4> HIDE DEF n
      <4> QED BY <3>3, <4>1, ItemTyped
    <3>5. polls' = [polls EXCEPT ![k].left = @ \ {i}, ![k].items[i] = x]
      BY <3>1
    <3> HIDE DEF x
    <3> DEFINE filled == [polls[k].items EXCEPT ![i] = x]
               rest == polls[k].left \ {i}
    <3>6. polls' = [polls EXCEPT ![k] = [polls[k] EXCEPT !.left = rest, !.items = filled]]
      BY <3>5, <3>2 DEF PollsTyped, Listings
    <3>7. filled \in Seq(D!Items) /\ DOMAIN filled = DOMAIN polls[k].items /\ rest \in SUBSET Nat
      BY <3>2, <3>4 DEF Listings
    <3> HIDE DEF filled
    <3> DEFINE p == [polls[k] EXCEPT !.left = rest, !.items = filled]
    <3>8. p \in Listings /\ p.items = filled /\ p.left = rest
      <4> HIDE DEF rest
      <4> QED BY <3>2, <3>7 DEF Listings
    <3> HIDE DEF p
    <3>9. PollsTyped'
      BY <3>2, <3>6, <3>7, <3>8 DEF PollsTyped, Listings
    <3> QED BY <2>7, <2>d, <2>t, <3>9 DEF D!FillStats
  <2>8. ASSUME NEW k \in Polls, D!UpdateMsg(k) PROVE TypeInv'
    <3>1. PICK ticked \in BOOLEAN : D!Apply(polls[k].items, ticked)
      BY <2>8 DEF D!UpdateMsg
    <3>2. polls[k].items \in Seq(D!Items)
      BY DEF PollsTyped, Listings
    <3>3. TabTyped'
      BY <2>8, <3>1, <3>2, ApplyTyped DEF D!UpdateMsg, TabTyped
    <3>4. PollsTyped'
      BY <2>8 DEF D!UpdateMsg, PollsTyped, Listings, D!Idle
    <3> QED BY <2>8, <2>d, <3>3, <3>4 DEF D!UpdateMsg
  <2>9. ASSUME NEW reshaped \in BOOLEAN, D!SetSize(reshaped) PROVE TypeInv'
    <3>1. dRows' \in Seq(Containers) /\ dCursor' \in Nat
      BY <2>9, RebuildTyped DEF D!SetSize, TabTyped
    <3>2. TabTyped'
      BY <2>9, <3>1, SameListingTyped DEF D!SetSize, D!rateVars, TabTyped
    <3> QED BY <2>9, <2>d, <2>p, <3>2 DEF D!SetSize
  <2>10. ASSUME NEW i \in DOMAIN dRows, D!MoveCursor(i) PROVE TypeInv'
    <3>1. i \in Nat
      BY DEF TabTyped
    <3>2. TabTyped'
      BY <2>10, <3>1, SameListingTyped DEF D!MoveCursor, D!rateVars, TabTyped
    <3> QED BY <2>10, <2>d, <2>p, <3>2 DEF D!MoveCursor
  <2>11. CASE UNCHANGED D!vars
    BY <2>11, <2>d, <2>p, <2>t DEF D!vars
  <2> QED BY <2>1, <2>2, <2>3, <2>4, <2>5, <2>6, <2>7, <2>8, <2>9, <2>10, <2>11 DEF D!Next
<1>3. TypeInv => D!TypeOK
  BY DEF TypeInv, D!TypeOK, DaemonTyped, PollsTyped, TabTyped, Listings
<1> QED BY <1>1, <1>2, <1>3, PTL DEF D!Spec

(* A row is selected whenever there is one: every rebuild ends in          *)
(* EnsureCursor, so that no listing, hiding or resize dead-ends the keys.  *)
THEOREM RowStaysSelected == D!Spec => []D!RowSelected
<1> DEFINE Selected == dRows # <<>> => dCursor \in DOMAIN dRows
<1>1. D!Init => Selected
  BY DEF D!Init
<1>2. TypeInv /\ Selected /\ [D!Next]_D!vars => Selected'
  <2> SUFFICES ASSUME TypeInv, Selected, [D!Next]_D!vars PROVE Selected'
    OBVIOUS
  <2>1. ASSUME NEW items \in Seq(D!Items), NEW at \in Nat, D!Rebuild(items, at)
        PROVE  Selected'
    <3>1. dRows' = D!Ids(items) /\ DOMAIN D!Ids(items) = 1 .. Len(items) /\ Len(items) \in Nat
      BY <2>1 DEF D!Rebuild, D!Ids
    <3>2. CASE Len(items) = 0
      <4>1. D!Ids(items) = <<>>
        BY <3>1, <3>2, ByIdTyped
      <4> QED BY <3>1, <4>1
    <3>3. CASE Len(items) # 0
      <4>1. items # <<>>
        BY <3>3
      <4>2. dCursor' \in 1 .. Len(items)
        BY <2>1, <3>1, <3>3, <4>1 DEF D!Rebuild
      <4> QED BY <3>1, <4>2
    <3> QED BY <3>1, <3>2, <3>3
  <2>2. cons \in Seq(D!Items) /\ dCursor \in Nat /\ 0 \in Nat
    BY DEF TypeInv, TabTyped
  <2>3. UNCHANGED D!tableVars => Selected'
    BY DEF D!tableVars
  <2>4. CASE D!Connected
    <3>1. <<>> \in Seq(D!Items)
      OBVIOUS
    <3> QED BY <2>1, <2>2, <2>3, <2>4, <3>1 DEF D!Connected, D!Apply
  <2>5. CASE D!SetActive
    BY <2>1, <2>2, <2>3, <2>5 DEF D!SetActive
  <2>6. ASSUME NEW k \in Polls, D!UpdateMsg(k) PROVE Selected'
    <3>1. polls[k].items \in Seq(D!Items)
      BY DEF TypeInv, PollsTyped, Listings
    <3> QED BY <2>1, <2>2, <2>3, <2>6, <3>1 DEF D!UpdateMsg, D!Apply
  <2>7. ASSUME NEW reshaped \in BOOLEAN, D!SetSize(reshaped) PROVE Selected'
    BY <2>1, <2>2, <2>7 DEF D!SetSize
  <2>8. ASSUME NEW i \in DOMAIN dRows, D!MoveCursor(i) PROVE Selected'
    BY <2>8 DEF D!MoveCursor
  <2>9. CASE UNCHANGED D!tableVars
    BY <2>3, <2>9
  <2> HIDE DEF Selected
  <2> QED BY <2>4, <2>5, <2>6, <2>7, <2>8, <2>9
          DEF D!Next, D!vars, D!tabVars, D!Action, D!Daemon, D!ActionDone, D!List, D!ListFails, D!FillStats
<1>3. Selected => D!RowSelected
  BY DEF D!RowSelected
<1>4. D!Spec => []TypeInv
  BY PollTypeCorrect, PTL
<1> QED BY <1>1, <1>2, <1>3, <1>4, PTL DEF D!Spec

-----------------------------------------------------------------------------
(* The rates.  A rate is the difference of two samples that were read at   *)
(* different times by different calls, of a counter that restarts; what    *)
(* makes it a rate is that any two samples still held could be the two.    *)

(* The samples a rate may be taken from: those a listing in flight has     *)
(* filled in, and the latest one of each container.                        *)
SamplesHeld ==
  {prev[c] : c \in DOMAIN prev} \cup
    UNION {{polls[k].items[i] : i \in (DOMAIN polls[k].items) \ polls[k].left} : k \in Polls}

(* The counter a container shows now.                                      *)
Shows(c) == IF life[c] = "running" THEN count[c] ELSE 0

(* What a sample says of the present: it is not of the future, within one  *)
(* run the counter only grew, and by no more than the traffic since.       *)
SampleTrue(x) ==
  /\ x.epoch <= epoch[x.id] /\ x.total <= total[x.id]
  /\ x.epoch = epoch[x.id] => x.count <= Shows(x.id)
  /\ x.ok /\ life[x.id] = "running" => count[x.id] - x.count <= total[x.id] - x.total

(* What two samples say of each other: the property, for any two.          *)
SamplesAgree(y, x) ==
  y.id = x.id /\ D!Later(y, x) /\ x.ok => D!Moved(y, x) <= y.total - x.total

RatesInv ==
  /\ \A x \in SamplesHeld : SampleTrue(x)
  /\ \A x, y \in SamplesHeld : SamplesAgree(y, x)

(* A sample read just now.                                                 *)
ReadNow(x) ==
  \E c \in Containers, fine \in BOOLEAN : x = D!Item(c, IF fine THEN Shows(c) ELSE 0, fine)

(* Samples are items; a sample read now is.                                *)
LEMMA HeldAreItems ==
  ASSUME TypeInv
  PROVE  SamplesHeld \subseteq D!Items
<1>1. ASSUME NEW k \in Polls, NEW i \in DOMAIN polls[k].items PROVE polls[k].items[i] \in D!Items
  <2>1. polls[k].items \in Seq(D!Items)
    BY DEF TypeInv, PollsTyped, Listings
  <2> QED BY <1>1, <2>1
<1>2. \A c \in DOMAIN prev : prev[c] \in D!Items
  BY DEF TypeInv, TabTyped
<1> QED BY <1>1, <1>2 DEF SamplesHeld

(* A sample read now is true, and agrees with every true sample, in        *)
(* whichever order the two are compared.                                   *)
LEMMA ReadNowTrue ==
  ASSUME DaemonTyped, NEW x, ReadNow(x)
  PROVE  x \in D!Items /\ SampleTrue(x)
<1>1. PICK c \in Containers, fine \in BOOLEAN : x = D!Item(c, IF fine THEN Shows(c) ELSE 0, fine)
  BY DEF ReadNow
<1>2. /\ count[c] \in 0 .. MaxTraffic /\ total[c] \in 0 .. MaxTraffic /\ epoch[c] \in 0 .. MaxEpoch
      /\ MaxTraffic \in Nat /\ MaxEpoch \in Nat
  BY BoundsAreNat DEF DaemonTyped
<1> DEFINE n == IF fine THEN Shows(c) ELSE 0
<1>3. n \in 0 .. MaxTraffic /\ n <= Shows(c)
  BY <1>2 DEF Shows
<1>4. fine /\ life[c] = "running" => n = count[c]
  BY DEF Shows
<1> HIDE DEF n
<1>5. x = D!Item(c, n, fine)
  BY <1>1 DEF n
<1>6. /\ x.id = c /\ x.count = n /\ x.ok = fine /\ x.total = total[c] /\ x.epoch = epoch[c]
  BY <1>5 DEF D!Item
<1>7. x \in D!Items
  BY <1>3, <1>5, ItemTyped
<1> QED BY <1>2, <1>3, <1>4, <1>6, <1>7 DEF SampleTrue

(* A sample read now agrees with every true one, in both orders.           *)
LEMMA ReadNowAgrees ==
  ASSUME DaemonTyped, NEW x, ReadNow(x), NEW y \in D!Items, SampleTrue(y)
  PROVE  SamplesAgree(x, y) /\ SamplesAgree(y, x)
<1>1. PICK c \in Containers, fine \in BOOLEAN : x = D!Item(c, IF fine THEN Shows(c) ELSE 0, fine)
  BY DEF ReadNow
<1>2. /\ count[c] \in Nat /\ total[c] \in Nat /\ epoch[c] \in Nat
  BY BoundsAreNat DEF DaemonTyped
<1>3. y.count \in Nat /\ y.total \in Nat /\ y.epoch \in Nat /\ y.ok \in BOOLEAN
  BY BoundsAreNat DEF D!Items
<1>4. /\ x.id = c /\ x.ok = fine /\ x.total = total[c] /\ x.epoch = epoch[c]
      /\ x.count = IF fine THEN Shows(c) ELSE 0
  BY <1>1 DEF D!Item
<1>5. CASE y.id # c
  BY <1>4, <1>5 DEF SamplesAgree
<1>6. CASE y.id = c
  <2>1. ASSUME y.ok PROVE D!Moved(x, y) <= x.total - y.total
    BY <1>2, <1>3, <1>4, <1>6, <2>1 DEF D!Moved, SampleTrue, Shows
  <2>2. ASSUME D!Later(y, x), fine PROVE D!Moved(y, x) <= y.total - x.total
    <3>1. y.epoch = epoch[c] /\ y.total = total[c]
      BY <1>2, <1>3, <1>4, <1>6, <2>2 DEF D!Later, SampleTrue
    <3>2. y.count <= Shows(c) /\ x.count = Shows(c)
      BY <1>4, <1>6, <2>2, <3>1 DEF SampleTrue
    <3> QED BY <1>2, <1>3, <1>4, <3>1, <3>2 DEF D!Moved, Shows
  <2>3. SamplesAgree(x, y)
    BY <2>1 DEF SamplesAgree
  <2>4. SamplesAgree(y, x)
    BY <2>2, <1>4 DEF SamplesAgree
  <2> QED BY <2>3, <2>4
<1> QED BY <1>5, <1>6

(* What the daemon does leaves true samples true.                          *)
LEMMA SamplesStayTrue ==
  ASSUME DaemonTyped, NEW c \in Containers,
         D!Starts(c) \/ D!Stops(c) \/ D!Removed(c) \/ D!Traffic(c),
         NEW x \in D!Items, SampleTrue(x)
  PROVE  SampleTrue(x)'
<1> DEFINE d == x.id
<1>1. /\ d \in Containers /\ x.count \in Nat /\ x.total \in Nat /\ x.epoch \in Nat
      /\ x.ok \in BOOLEAN
  BY BoundsAreNat DEF D!Items
<1>2. /\ count[d] \in Nat /\ total[d] \in Nat /\ epoch[d] \in Nat
  BY <1>1, BoundsAreNat DEF DaemonTyped
<1>3. /\ DOMAIN life = Containers /\ DOMAIN count = Containers
      /\ DOMAIN total = Containers /\ DOMAIN epoch = Containers
  BY DEF DaemonTyped
<1> USE DEF SampleTrue, Shows
<1>4. CASE d # c
  <2>1. life'[d] = life[d] /\ count'[d] = count[d] /\ total'[d] = total[d] /\ epoch'[d] = epoch[d]
    BY <1>1, <1>3, <1>4 DEF D!Starts, D!Stops, D!Removed, D!Traffic
  <2> QED BY <2>1
<1>5. CASE d = c
  <2>1. CASE D!Starts(c)
    <3>1. /\ life'[d] = "running" /\ count'[d] = 0 /\ total'[d] = total[d]
          /\ epoch'[d] = epoch[d] + 1
      BY <1>1, <1>3, <1>5, <2>1 DEF D!Starts
    <3> QED BY <1>1, <1>2, <3>1
  <2>2. CASE D!Stops(c)
    <3>1. /\ life'[d] = "exited" /\ count'[d] = count[d] /\ total'[d] = total[d]
          /\ epoch'[d] = epoch[d] + 1
      BY <1>1, <1>3, <1>5, <2>2 DEF D!Stops
    <3> QED BY <1>1, <1>2, <3>1
  <2>3. CASE D!Removed(c)
    <3>1. /\ life[d] = "exited" /\ life'[d] = "removed"
          /\ count'[d] = count[d] /\ total'[d] = total[d] /\ epoch'[d] = epoch[d]
      BY <1>1, <1>3, <1>5, <2>3 DEF D!Removed
    <3> QED BY <1>1, <1>2, <3>1
  <2>4. CASE D!Traffic(c)
    <3>1. /\ life[d] = "running" /\ life'[d] = life[d] /\ count'[d] = count[d] + 1
          /\ total'[d] = total[d] + 1 /\ epoch'[d] = epoch[d]
      BY <1>1, <1>3, <1>5, <2>4 DEF D!Traffic
    <3> QED BY <1>1, <1>2, <3>1
  <2> QED BY <2>1, <2>2, <2>3, <2>4
<1> QED BY <1>4, <1>5

(* A step that only reads adds samples read now, and forgets some.         *)
LEMMA ReadingKeepsRates ==
  ASSUME TypeInv, RatesInv, UNCHANGED D!daemonVars,
         \A x \in SamplesHeld' : x \in SamplesHeld \/ ReadNow(x)
  PROVE  RatesInv'
<1>1. DaemonTyped /\ SamplesHeld \subseteq D!Items
  BY HeldAreItems DEF TypeInv
<1>2. \A x : SampleTrue(x)' <=> SampleTrue(x)
  BY DEF SampleTrue, Shows, D!daemonVars
<1>3. ASSUME NEW x \in SamplesHeld' PROVE x \in D!Items /\ SampleTrue(x)
  BY <1>1, <1>3, ReadNowTrue DEF RatesInv
<1>4. ASSUME NEW x \in SamplesHeld', NEW y \in SamplesHeld' PROVE SamplesAgree(y, x)
  <2>1. CASE x \in SamplesHeld /\ y \in SamplesHeld
    BY <2>1 DEF RatesInv
  <2>2. CASE ReadNow(x)
    BY <1>1, <1>3, <2>2, ReadNowAgrees
  <2>3. CASE ReadNow(y)
    BY <1>1, <1>3, <2>3, ReadNowAgrees
  <2> QED BY <2>1, <2>2, <2>3
<1> QED BY <1>2, <1>3, <1>4 DEF RatesInv, SamplesAgree, D!Later, D!Moved

(* Whatever the overlap of listings, the order in which they arrive and    *)
(* the calls that fail, any two samples still held agree.                  *)
THEOREM SamplesAlwaysAgree == D!Spec => []RatesInv
<1>1. D!Init => RatesInv
  <2> SUFFICES ASSUME D!Init PROVE RatesInv
    OBVIOUS
  <2>1. DOMAIN prev = {} /\ \A k \in Polls : DOMAIN polls[k].items = {}
    BY DEF D!Init, D!Idle
  <2>2. SamplesHeld = {}
    BY <2>1 DEF SamplesHeld
  <2> QED BY <2>2 DEF RatesInv
<1>2. TypeInv /\ RatesInv /\ [D!Next]_D!vars => RatesInv'
  <2> SUFFICES ASSUME TypeInv, RatesInv, [D!Next]_D!vars PROVE RatesInv'
    OBVIOUS
  <2>1. UNCHANGED <<polls, prev>> => SamplesHeld' = SamplesHeld
    BY DEF SamplesHeld
  <2>2. UNCHANGED <<D!daemonVars, polls, prev>> => RatesInv'
    BY <2>1, ReadingKeepsRates
  <2>3. CASE D!Connected
    <3>1. prev' = D!ById(<<>>) /\ polls' = polls /\ UNCHANGED D!daemonVars
      BY <2>3 DEF D!Connected, D!Apply, D!UpdateRates
    <3>2. DOMAIN D!ById(<<>>) = {}
      BY DEF D!ById, D!Ids, D!ToSet
    <3>3. SamplesHeld' \subseteq SamplesHeld
      BY <3>1, <3>2 DEF SamplesHeld
    <3> QED BY <3>1, <3>3, ReadingKeepsRates
  <2>4. ASSUME NEW c \in Containers, D!Daemon(c) \/ D!ActionDone(c) PROVE RatesInv'
    <3>1. UNCHANGED <<polls, prev>>
      BY <2>4 DEF D!Daemon, D!ActionDone, D!tabVars, D!rateVars
    <3>2. CASE UNCHANGED D!daemonVars
      BY <2>2, <3>1, <3>2
    <3>3. CASE D!Starts(c) \/ D!Stops(c) \/ D!Removed(c) \/ D!Traffic(c)
      <4>1. \A x \in SamplesHeld : SampleTrue(x)'
        BY <3>3, HeldAreItems, SamplesStayTrue DEF TypeInv, RatesInv
      <4> QED BY <2>1, <3>1, <4>1 DEF RatesInv, SamplesAgree, D!Later, D!Moved
    <3> QED BY <2>4, <3>2, <3>3 DEF D!Daemon, D!ActionDone
  <2>5. ASSUME NEW k \in Polls, D!List(k) PROVE RatesInv'
    <3> DEFINE p == [at |-> "stats", items |-> [i \in DOMAIN order |-> D!Item(order[i], 0, TRUE)],
                     left |-> {i \in DOMAIN order : life[order[i]] = "running"}]
    <3>1. polls' = [polls EXCEPT ![k] = p] /\ prev' = prev /\ UNCHANGED D!daemonVars
      BY <2>5 DEF D!List, D!tabVars, D!rateVars
    <3>2. ASSUME NEW i \in (DOMAIN p.items) \ p.left PROVE ReadNow(p.items[i])
      <4>1. i \in DOMAIN order /\ order[i] \in Containers /\ life[order[i]] # "running"
        BY <3>2 DEF TypeInv, DaemonTyped
      <4>2. p.items[i] = D!Item(order[i], IF TRUE THEN Shows(order[i]) ELSE 0, TRUE)
        BY <4>1 DEF Shows
      <4> QED BY <4>1, <4>2 DEF ReadNow
    <3> HIDE DEF p
    <3>3. \A x \in SamplesHeld' : x \in SamplesHeld \/ ReadNow(x)
      BY <3>1, <3>2 DEF SamplesHeld, TypeInv, PollsTyped
    <3> QED BY <3>1, <3>3, ReadingKeepsRates
  <2>6. ASSUME NEW k \in Polls, D!ListFails(k) PROVE RatesInv'
    <3>1. SamplesHeld' = SamplesHeld /\ UNCHANGED D!daemonVars
      BY <2>6 DEF D!ListFails, SamplesHeld, D!tabVars, D!rateVars, TypeInv, PollsTyped, Listings
    <3> QED BY <3>1, ReadingKeepsRates
  <2>7. ASSUME NEW k \in Polls, NEW j \in polls[k].left, D!FillStats(k, j) PROVE RatesInv'
    <3> DEFINE c == polls[k].items[j].id
    <3>1. PICK fine \in BOOLEAN :
            LET n == IF fine /\ life[c] = "running" THEN count[c] ELSE 0 IN
            polls' = [polls EXCEPT ![k].left = @ \ {j}, ![k].items[j] = D!Item(c, n, fine)]
      BY <2>7 DEF D!FillStats
    <3> DEFINE x == D!Item(c, IF fine THEN Shows(c) ELSE 0, fine)
               read == [polls EXCEPT ![k].left = @ \ {j}, ![k].items[j] = x]
    <3>2. polls' = read /\ prev' = prev /\ UNCHANGED D!daemonVars
      BY <2>7, <3>1 DEF D!FillStats, D!tabVars, D!rateVars, Shows
    <3>3. j \in DOMAIN polls[k].items /\ polls[k].items \in Seq(D!Items) /\ polls[k] \in Listings
      BY <2>7 DEF TypeInv, PollsTyped, Listings
    <3>4. ReadNow(x)
      <4>1. polls[k].items[j] \in D!Items
        BY <3>3
      <4>2. c \in Containers
        BY <4>1 DEF D!Items
      <4> QED BY <4>2 DEF ReadNow
    <3> HIDE DEF x
    <3>5. /\ DOMAIN read[k].items = DOMAIN polls[k].items
          /\ read[k].left = polls[k].left \ {j}
          /\ \A i \in DOMAIN polls[k].items : 
               read[k].items[i] = IF i = j THEN x ELSE polls[k].items[i]
          /\ \A h \in Polls : h # k => read[h] = polls[h]
      BY <3>3 DEF TypeInv, PollsTyped, Listings
    <3> HIDE DEF read
    <3>6. \A y \in SamplesHeld' : y \in SamplesHeld \/ ReadNow(y)
      BY <3>2, <3>4, <3>5 DEF SamplesHeld
    <3> QED BY <3>2, <3>6, ReadingKeepsRates
  <2>8. ASSUME NEW k \in Polls, D!UpdateMsg(k) PROVE RatesInv'
    <3>1. /\ polls[k].left = {} /\ polls' = [polls EXCEPT ![k] = D!Idle]
          /\ prev' = D!ById(polls[k].items) /\ UNCHANGED D!daemonVars
      BY <2>8 DEF D!UpdateMsg, D!Apply, D!UpdateRates
    <3>2. polls[k].items \in Seq(D!Items)
      BY DEF TypeInv, PollsTyped, Listings
    <3>3. \A c \in DOMAIN prev' : prev'[c] \in SamplesHeld
      BY <3>1, <3>2, ByIdTyped DEF SamplesHeld
    <3>4. DOMAIN D!Idle.items = {}
      BY DEF D!Idle
    <3>5. SamplesHeld' \subseteq SamplesHeld
      BY <3>1, <3>3, <3>4 DEF SamplesHeld, TypeInv, PollsTyped
    <3> QED BY <3>1, <3>5, ReadingKeepsRates
  <2>9. CASE UNCHANGED <<D!daemonVars, polls, prev>>
    BY <2>2, <2>9
  <2> QED BY <2>3, <2>4, <2>5, <2>6, <2>7, <2>8, <2>9
          DEF D!Next, D!vars, D!tabVars, D!rateVars, D!Action, D!SetActive, D!SetSize, D!MoveCursor
<1>3. D!Spec => []TypeInv
  BY PollTypeCorrect, PTL
<1> QED BY <1>1, <1>2, <1>3, PTL DEF D!Spec

(* Between two samples in order, the earlier of which has its counters, no *)
(* rate exceeds the container's traffic, for any number of containers, of  *)
(* listings in flight and of restarts.                                     *)
THEOREM RatesAreOfTraffic == D!Spec => RateOfGoodSamples
<1> DEFINE RatesReal ==
      \A c \in DOMAIN prev \cap DOMAIN prev' :
        D!Later(prev'[c], prev[c]) /\ prev[c].ok => D!Real(c)
<1>1. TypeInv /\ RatesInv /\ [D!Next]_D!vars => [RatesReal]_<<cons, D!rateVars>>
  <2> SUFFICES ASSUME TypeInv, RatesInv, [D!Next]_D!vars, ~UNCHANGED <<cons, D!rateVars>>,
                      NEW c \in DOMAIN prev \cap DOMAIN prev',
                      D!Later(prev'[c], prev[c]), prev[c].ok
               PROVE  D!Real(c)
    OBVIOUS
  <2>1. CASE D!Connected
    <3>1. prev' = D!ById(<<>>)
      BY <2>1 DEF D!Connected, D!Apply, D!UpdateRates
    <3>2. DOMAIN D!ById(<<>>) = {}
      BY DEF D!ById, D!Ids, D!ToSet
    <3> QED BY <3>1, <3>2
  <2>2. ASSUME NEW k \in Polls, D!UpdateMsg(k) PROVE D!Real(c)
    <3>1. PICK ticked \in BOOLEAN : D!UpdateRates(polls[k].items, ticked)
      BY <2>2 DEF D!UpdateMsg, D!Apply
    <3>2. /\ polls[k].left = {} /\ polls[k].items \in Seq(D!Items)
      BY <2>2 DEF D!UpdateMsg, TypeInv, PollsTyped, Listings
    <3>3. /\ prev' = D!ById(polls[k].items)
          /\ rates'[c] = IF ticked THEN D!Moved(prev'[c], prev[c]) ELSE 0
      BY <3>1 DEF D!UpdateRates
    <3>4. prev[c] \in SamplesHeld /\ prev'[c] \in SamplesHeld /\ prev'[c].id = c
      BY <3>2, <3>3, ByIdTyped DEF SamplesHeld
    <3>5. prev[c].id = c
      BY DEF TypeInv, TabTyped
    <3>6. D!Moved(prev'[c], prev[c]) <= prev'[c].total - prev[c].total
      BY <3>4, <3>5 DEF RatesInv, SamplesAgree
    <3>7. 0 <= prev'[c].total - prev[c].total
      <4>1. prev[c] \in D!Items /\ prev'[c] \in D!Items
        BY <3>4, HeldAreItems
      <4>2. prev[c].total \in Nat /\ prev'[c].total \in Nat
        BY <4>1, BoundsAreNat DEF D!Items
      <4> QED BY <4>2 DEF D!Later
    <3> QED BY <3>3, <3>6, <3>7 DEF D!Real
  <2> QED BY <2>1, <2>2
          DEF D!Next, D!vars, D!tabVars, D!rateVars, D!Action, D!SetActive, D!SetSize, D!MoveCursor, D!Daemon,
              D!ActionDone, D!List, D!ListFails, D!FillStats
<1>2. D!Spec => []TypeInv
  BY PollTypeCorrect, PTL
<1> QED BY <1>1, <1>2, SamplesAlwaysAgree, PTL DEF D!Spec, D!RateOfGoodSamples, RateOfGoodSamples

-----------------------------------------------------------------------------
(* The processes.                                                          *)
USE TableAssumption DEF TableAssumption, vars, rootVars, tableVars, boxVars, promptVars

(* The steps, with every rebuild of the rows in one place.                 *)
Rebuilds(p, s, at) ==
  /\ Rebuild(p, s, at)
  /\ UNCHANGED <<cmdline, prompt, sent>>

(* Every step rebuilds the rows, resizes, touches a box, the prompt or     *)
(* neither.                                                                *)
LEMMA StepCases ==
  ASSUME Next
  PROVE  \/ \E p, s : Rebuilds(p, s, cursor)
         \/ SetSize(TRUE)
         \/ UNCHANGED <<rows, detail, cmdline, prompt, sent>>
         \/ /\ UNCHANGED <<rows, prompt, sent>>
            /\ \E p \in Pids : CmdlineMsg(p)
         \/ /\ UNCHANGED <<rows, prompt, sent>>
            /\ OpenDetail \/ CloseDetail
         \/ /\ UNCHANGED <<rows, detail, cmdline>>
            /\ Confirm \/ Cancel \/ \E force \in BOOLEAN : OpenConfirm(force)
<1>1. ASSUME NEW p, NEW s, SnapshotMsg(p, s)
      PROVE  Rebuilds(p, s, cursor) \/ UNCHANGED <<rows, detail, cmdline, prompt, sent>>
  BY <1>1 DEF SnapshotMsg, Rebuilds
<1>2. ASSUME SetActive
      PROVE  Rebuilds(procs, shown, cursor) \/ UNCHANGED <<rows, detail, cmdline, prompt, sent>>
  BY <1>2 DEF SetActive, Rebuilds
<1>3. ASSUME NEW reshaped \in BOOLEAN, SetSize(reshaped)
      PROVE  SetSize(TRUE) \/ Rebuilds(procs, shown, cursor)
  BY <1>3 DEF SetSize, Rebuilds
<1>4. ASSUME NEW s, FilterKey(s) PROVE Rebuilds(procs, s, cursor)
  BY <1>4 DEF FilterKey, Rebuilds
<1>5. ASSUME NEW p, NEW s, Arrange(p, s) PROVE Rebuilds(p, s, cursor)
  BY <1>5 DEF Arrange, Rebuilds
<1>6. ASSUME ReloadConfig \/ StartFilter \/ PickSignal \/ (\E o \in {"help", "alerts"} : ToggleOverlay(o))
               \/ (\E i \in 0 .. Cardinality(Pids) : MoveCursor(i))
      PROVE  UNCHANGED <<rows, detail, cmdline, prompt, sent>>
  BY <1>6 DEF ReloadConfig, StartFilter, PickSignal, ToggleOverlay, MoveCursor
<1>7. ASSUME NEW p \in Pids, CmdlineMsg(p) PROVE UNCHANGED <<rows, prompt, sent>>
  BY <1>7 DEF CmdlineMsg
<1>8. ASSUME OpenDetail \/ CloseDetail PROVE UNCHANGED <<rows, prompt, sent>>
  BY <1>8 DEF OpenDetail, CloseDetail
<1>9. ASSUME Confirm \/ Cancel \/ \E force \in BOOLEAN : OpenConfirm(force)
      PROVE  UNCHANGED <<rows, detail, cmdline>>
  BY <1>9 DEF Confirm, Cancel, OpenConfirm
<1> QED BY <1>1, <1>2, <1>3, <1>4, <1>5, <1>6, <1>7, <1>8, <1>9, Zenon DEF Next

(* A command line that CmdlineMsg delivers late, after its box was closed  *)
(* or opened for another process, is never shown in another process's box. *)
THEOREM CmdlineStaysWithItsBox == Spec => []CmdlineMatches
<1>1. Init => CmdlineMatches
  BY DEF Init, CmdlineMatches
<1>2. ASSUME CmdlineMatches, [Next]_vars PROVE CmdlineMatches'
  <2> USE DEF CmdlineMatches
  <2>1. ASSUME NEW p, NEW s, NEW at, Rebuild(p, s, at), UNCHANGED cmdline PROVE CmdlineMatches'
    <3>1. detail' = NoPid \/ detail' = detail
      BY <2>1 DEF Rebuild
    <3> QED BY <1>2, <2>1, <3>1
  <2>2. CASE SetSize(TRUE)
    <3>1. UNCHANGED cmdline /\ Rebuild(procs, shown, 0)
      BY <2>2 DEF SetSize
    <3> QED BY <2>1, <3>1
  <2>3. ASSUME NEW p \in Pids, CmdlineMsg(p) PROVE CmdlineMatches'
    BY <1>2, <2>3 DEF CmdlineMsg
  <2>4. CASE OpenDetail \/ CloseDetail
    BY <1>2, <2>4 DEF OpenDetail, CloseDetail
  <2>5. CASE UNCHANGED vars
    BY <1>2, <2>5
  <2>6. CASE UNCHANGED <<detail, cmdline>>
    BY <1>2, <2>6
  <2>7. CASE Next
    <3>1. ASSUME NEW p, NEW s, Rebuilds(p, s, cursor) PROVE CmdlineMatches'
      BY <2>1, <3>1 DEF Rebuilds
    <3> QED BY <2>2, <2>3, <2>4, <2>6, <2>7, <3>1, StepCases
  <2> QED BY <1>2, <2>5, <2>7
<1> QED BY <1>1, <1>2, PTL DEF Spec

(* openConfirm binds: whatever samples, orders and filters come before the *)
(* answer, a prompt stays about the process it opened on, and only that    *)
(* one is signalled.                                                       *)
THEOREM PromptsBind == Spec => PromptIsBinding
<1>1. ASSUME [Next]_vars
      PROVE  [/\ prompt # NoPid => prompt' \in {prompt, NoPid}
              /\ prompt = NoPid /\ prompt' # NoPid => prompt' = Chosen
              /\ sent' # sent => sent'[1] = prompt]_vars
  <2>1. CASE Confirm \/ Cancel \/ \E force \in BOOLEAN : OpenConfirm(force)
    <3>1. CASE Confirm
      BY <3>1 DEF Confirm
    <3>2. CASE Cancel
      BY <3>2 DEF Cancel
    <3>3. ASSUME NEW force \in BOOLEAN, OpenConfirm(force)
          PROVE  prompt' = Chosen /\ prompt = NoPid /\ sent' = sent
      BY <3>3 DEF OpenConfirm, Normal
    <3> QED BY <2>1, <3>1, <3>2, <3>3
  <2>2. CASE UNCHANGED <<prompt, sent>>
    BY <2>2
  <2>3. SetSize(TRUE) => UNCHANGED <<prompt, sent>>
    BY DEF SetSize
  <2> QED BY <1>1, <2>1, <2>2, <2>3, StepCases DEF Rebuilds
<1> QED BY <1>1, PTL DEF Spec, PromptIsBinding

(* Whatever rebuild puts into the table, for any sample, order and filter, *)
(* the cursor moves with the selected process as long as that is among the *)
(* rows.                                                                   *)
THEOREM SelectionStays == Spec => SelectionFollowsProcess
<1>1. ASSUME NEW p, NEW s, Rebuild(p, s, cursor), Chosen # NoPid, Contains(rows', Chosen)
      PROVE  rows'[cursor'] = Chosen
  <2> DEFINE rebuilt == Kept(p, s)
  <2>1. Chosen = IF cursor \in DOMAIN rows THEN rows[cursor] ELSE NoPid
    BY DEF Chosen
  <2>2. rows' = rebuilt
    BY <1>1 DEF Rebuild
  <2>3. Contains(rebuilt, Chosen) => cursor' = CHOOSE i \in DOMAIN rebuilt : rebuilt[i] = Chosen
    BY <1>1, <2>1 DEF Rebuild
  <2> HIDE DEF rebuilt
  <2>4. \E i \in DOMAIN rebuilt : rebuilt[i] = Chosen
    BY <1>1, <2>2 DEF Contains
  <2> QED BY <1>1, <2>2, <2>3, <2>4
<1>2. ASSUME [Next]_vars
      PROVE  [rows' # rows /\ Chosen # NoPid /\ Contains(rows', Chosen)
                => rows'[cursor'] = Chosen \/ SetSize(TRUE)]_vars
  BY <1>1, <1>2, StepCases DEF Rebuilds
<1> QED BY <1>2, PTL DEF Spec, SelectionFollowsProcess

(* Strengthens ActiveTableIsFresh: an active tab is visible, too.          *)
FreshRows == active => visible /\ rows = Kept(procs, shown)

(* setActive's catch-up: the rows of the active tab are the latest sample  *)
(* under the filter, whatever samples, resizes and orders came while       *)
(* another tab was in front.                                               *)
THEOREM ProcessesAreFresh == Spec => []ActiveTableIsFresh
<1>1. Init => FreshRows
  BY DEF Init, FreshRows
<1>2. ASSUME FreshRows, [Next]_vars PROVE FreshRows'
  <2>1. ASSUME NEW p, NEW s, NEW at, Rebuild(p, s, at), visible' \/ ~active', p = procs', s = shown'
        PROVE  FreshRows'
    <3>1. rows' = Kept(p, s)
      BY <2>1 DEF Rebuild
    <3>2. rows' = Kept(procs', shown')
      BY <2>1, <3>1
    <3> QED BY <2>1, <3>2 DEF FreshRows
  <2>2. ASSUME NEW p, NEW s, SnapshotMsg(p, s) PROVE FreshRows'
    <3>1. CASE visible
      <4>1. Rebuild(p, s, cursor) /\ (visible' \/ ~active') /\ p = procs' /\ s = shown'
        BY <2>2, <3>1, Zenon DEF SnapshotMsg, rootVars
      <4> QED BY <2>1, <4>1, Zenon
    <3>2. CASE ~visible
      BY <1>2, <2>2, <3>2 DEF SnapshotMsg, FreshRows
    <3> QED BY <3>1, <3>2
  <2>3. ASSUME NEW reshaped \in BOOLEAN, SetSize(reshaped) PROVE FreshRows'
    <3>1. \E at : Rebuild(procs, shown, at)
      BY <2>3 DEF SetSize
    <3>2. UNCHANGED <<active, visible, procs, shown>>
      BY <2>3 DEF SetSize
    <3>3. visible' \/ ~active'
      BY <1>2, <3>2 DEF FreshRows
    <3> QED BY <2>1, <3>1, <3>2, <3>3
  <2>4. CASE SetActive
    <3>1. CASE active
      BY <2>4, <3>1 DEF SetActive, FreshRows
    <3>2. CASE ~active
      <4>1. Rebuild(procs, shown, cursor) /\ visible' /\ UNCHANGED <<procs, shown>>
        BY <2>4, <3>2 DEF SetActive
      <4> QED BY <2>1, <4>1
    <3> QED BY <3>1, <3>2
  <2>5. ASSUME NEW p, NEW s, FilterKey(s) \/ Arrange(p, s) PROVE FreshRows'
    <3>1. active /\ UNCHANGED <<active, visible>> /\ shown' = s /\ Rebuild(procs', s, cursor)
      BY <2>5 DEF FilterKey, Arrange, Normal, Hears
    <3>2. visible'
      BY <1>2, <3>1 DEF FreshRows
    <3> QED BY <2>1, <3>1, <3>2
  <2>6. CASE UNCHANGED <<active, visible, procs, shown, rows>>
    BY <1>2, <2>6 DEF FreshRows
  <2>7. ASSUME NEW p, CmdlineMsg(p) PROVE FreshRows'
    BY <2>6, <2>7 DEF CmdlineMsg
  <2>8. ASSUME NEW i, MoveCursor(i) PROVE FreshRows'
    BY <2>6, <2>8 DEF MoveCursor
  <2>9. ASSUME NEW o, NEW force, ToggleOverlay(o) \/ OpenConfirm(force) PROVE FreshRows'
    BY <2>6, <2>9 DEF ToggleOverlay, OpenConfirm
  <2>10. CASE ReloadConfig \/ StartFilter \/ OpenDetail \/ CloseDetail \/ PickSignal \/ Confirm \/ Cancel
    BY <2>6, <2>10 DEF ReloadConfig, StartFilter, OpenDetail, CloseDetail, PickSignal, Confirm, Cancel
  <2>11. CASE UNCHANGED vars
    BY <2>6, <2>11
  <2>12. CASE Next
    BY <2>2, <2>3, <2>4, <2>5, <2>7, <2>8, <2>9, <2>10, <2>12, Zenon DEF Next
  <2> QED BY <1>2, <2>11, <2>12
<1>3. FreshRows => ActiveTableIsFresh
  BY DEF FreshRows, ActiveTableIsFresh
<1> QED BY <1>1, <1>2, <1>3, PTL DEF Spec

-----------------------------------------------------------------------------
(* The types of the processes tab.  Rows are a list of pids because a      *)
(* filter makes a list of a list, and one of them is selected.             *)

(* The recursive definition of Kept, over the first n of p.                *)
AreKept(f, p, s, n) ==
  f = [k \in 0 .. n |-> IF k = 0 THEN <<>>
                        ELSE IF p[k] \in s THEN Append(f[k - 1], p[k]) ELSE f[k - 1]]

(* What a filter keeps of a list is a list.                                *)
LEMMA KeptIsList ==
  ASSUME NEW X, NEW p \in Seq(X), NEW s
  PROVE  Kept(p, s) \in Seq(X)
<1> DEFINE n == Len(p)
           Some == {k \in 0 .. n : \E f : AreKept(f, p, s, k)}
<1>1. n \in Nat /\ \A k \in 1 .. n : p[k] \in X
  OBVIOUS
<1>2. n \in Some
  <2>1. 0 \in Some
    <3>1. AreKept([k \in 0 .. 0 |-> <<>>], p, s, 0)
      BY DEF AreKept
    <3> QED BY <1>1, <3>1
  <2>2. ASSUME NEW k \in 0 .. n - 1, k \in Some PROVE k + 1 \in Some
    <3>1. PICK f : AreKept(f, p, s, k)
      BY <2>2
    <3> DEFINE last == IF p[k + 1] \in s THEN Append(f[k], p[k + 1]) ELSE f[k]
               g == [i \in 0 .. k + 1 |-> IF i = k + 1 THEN last ELSE f[i]]
    <3>2. ASSUME NEW i \in 0 .. k + 1
          PROVE  g[i] = IF i = 0 THEN <<>>
                        ELSE IF p[i] \in s THEN Append(g[i - 1], p[i]) ELSE g[i - 1]
      <4>1. CASE i = k + 1
        BY <1>1, <4>1
      <4>2. CASE i # k + 1
        <5>1. i \in 0 .. k /\ (i # 0 => i - 1 \in 0 .. k /\ i - 1 # k + 1)
          BY <1>1, <4>2
        <5>2. f[i] = IF i = 0 THEN <<>>
                     ELSE IF p[i] \in s THEN Append(f[i - 1], p[i]) ELSE f[i - 1]
          BY <3>1, <5>1, Zenon DEF AreKept
        <5> HIDE DEF last
        <5> QED BY <4>2, <5>1, <5>2
      <4> QED BY <4>1, <4>2
    <3>3. AreKept(g, p, s, k + 1)
      <4>1. g = [i \in 0 .. k + 1 |-> g[i]]
        OBVIOUS
      <4> HIDE DEF g
      <4> QED BY <3>2, <4>1, Zenon DEF AreKept
    <3> QED BY <1>1, <3>3
  <2> HIDE DEF Some, n
  <2>3. 0 .. n \subseteq Some
    BY <1>1, <2>1, <2>2, Climb
  <2> QED BY <1>1, <2>3
<1> DEFINE kept == CHOOSE f : AreKept(f, p, s, n)
<1>3. AreKept(kept, p, s, n)
  BY <1>2
<1>4. Kept(p, s) = kept[n]
  BY Zenon DEF Kept, AreKept
<1> HIDE DEF kept, Some
<1> DEFINE Good == {k \in 0 .. n : kept[k] \in Seq(X)}
<1>5. 0 \in Good
  BY <1>1, <1>3 DEF AreKept
<1>6. ASSUME NEW k \in 0 .. n - 1, k \in Good PROVE k + 1 \in Good
  <2>1. k + 1 \in 0 .. n /\ k + 1 # 0 /\ (k + 1) - 1 = k /\ k + 1 \in 1 .. n
    BY <1>1
  <2>2. kept[k + 1] = IF p[k + 1] \in s THEN Append(kept[k], p[k + 1]) ELSE kept[k]
    BY <1>3, <2>1 DEF AreKept
  <2>3. kept[k] \in Seq(X) /\ p[k + 1] \in X
    BY <1>1, <1>6, <2>1
  <2>4. kept[k + 1] \in Seq(X)
    BY <2>2, <2>3
  <2> QED BY <2>1, <2>4
<1> HIDE DEF Good
<1>7. n \in Good
  <2>1. 0 .. n \subseteq Good
    <3> HIDE DEF n
    <3> QED BY <1>1, <1>5, <1>6, Climb
  <2> QED BY <1>1, <2>1
<1> QED BY <1>4, <1>7 DEF Good

(* A row selected is that of a process.                                    *)
RowsTyped == rows \in Seq(Pids) /\ cursor \in Nat /\ (rows # <<>> => cursor \in DOMAIN rows)

(* A rebuild ends with a row selected, when there is one, and shows the    *)
(* details of the same process as before or of none.                       *)
LEMMA TableRebuilt ==
  ASSUME NEW p \in Seq(Pids), NEW s, NEW at \in Nat, Rebuild(p, s, at)
  PROVE  RowsTyped' /\ detail' \in {detail, NoPid}
<1> DEFINE old == IF at \in DOMAIN rows THEN rows[at] ELSE NoPid
           new == Kept(p, s)
           clamped == IF at > Len(new) THEN Len(new) ELSE at
<1>1. /\ rows' = new
      /\ cursor' = IF Contains(new, old) THEN CHOOSE i \in DOMAIN new : new[i] = old
                   ELSE IF clamped = 0 /\ new # <<>> THEN 1 ELSE clamped
      /\ detail' \in {detail, NoPid}
  BY DEF Rebuild
<1>2. new \in Seq(Pids)
  BY KeptIsList
<1>3. Contains(new, old) => \E i \in DOMAIN new : new[i] = old
  <2> HIDE DEF new, old
  <2> QED BY DEF Contains
<1> HIDE DEF new, old
<1>4. CASE Contains(new, old)
  <2>1. cursor' \in DOMAIN new
    BY <1>1, <1>3, <1>4
  <2>2. cursor' \in Nat
    BY <1>2, <2>1
  <2> QED BY <1>1, <1>2, <2>1, <2>2 DEF RowsTyped
<1>5. CASE ~Contains(new, old)
  <2>1. cursor' = IF clamped = 0 /\ new # <<>> THEN 1 ELSE clamped
    BY <1>1, <1>5
  <2>2. Len(new) \in Nat /\ DOMAIN new = 1 .. Len(new) /\ (new # <<>> => Len(new) > 0)
    BY <1>2
  <2>3. cursor' \in Nat /\ (new # <<>> => cursor' \in 1 .. Len(new))
    BY <2>1, <2>2
  <2> QED BY <1>1, <1>2, <2>2, <2>3 DEF RowsTyped
<1> QED BY <1>1, <1>4, <1>5

(* The signal picked next is one of the platform's.                        *)
LEMMA SignalsCycle ==
  ASSUME sig \in 1 .. NSigs, PickSignal
  PROVE  sig' \in 1 .. NSigs
<1> DEFINE N == NSigs
<1>1. N \in Nat /\ N > 1 /\ sig \in 1 .. N
  OBVIOUS
<1>2. ASSUME NEW a \in Nat PROVE (a % N) + 1 \in 1 .. N
  <2>1. a % N \in 0 .. N - 1
    BY <1>1
  <2> QED BY <1>1, <2>1
<1>3. sig' \in {(sig % N) + 1, ((sig + N - 2) % N) + 1, 2}
  BY DEF PickSignal
<1>4. sig \in Nat /\ sig + N - 2 \in Nat /\ 2 \in 1 .. N
  BY <1>1
<1> QED BY <1>2, <1>3, <1>4

(* The other variables of the tab, part by part.                           *)
RootTyped ==
  /\ active \in BOOLEAN /\ visible \in BOOLEAN /\ editing \in BOOLEAN /\ readOnly \in BOOLEAN
  /\ overlays \subseteq {"help", "alerts"}
ListTyped == procs \in Seq(Pids) /\ shown \subseteq Pids
BoxTyped == detail \in Pids \cup {NoPid} /\ cmdline \in Pids \cup {NoPid} /\ lookups \subseteq Pids
PromptTyped == prompt \in Pids \cup {NoPid} /\ sig \in 1 .. NSigs
ProcsTyped == RootTyped /\ ListTyped /\ RowsTyped /\ BoxTyped /\ PromptTyped

(* What the steps leave alone keeps its type.                              *)
LEMMA SameTypes ==
  ASSUME ProcsTyped
  PROVE  /\ UNCHANGED <<rootVars, visible, editing>> => RootTyped'
         /\ UNCHANGED <<procs, shown>> => ListTyped'
         /\ UNCHANGED <<rows, cursor>> => RowsTyped'
         /\ UNCHANGED boxVars => BoxTyped'
         /\ detail' \in {detail, NoPid} /\ UNCHANGED <<cmdline, lookups>> => BoxTyped'
         /\ UNCHANGED <<prompt, sig>> => PromptTyped'
BY DEF ProcsTyped, RootTyped, ListTyped, RowsTyped, BoxTyped, PromptTyped

(* No operation of the processes tab leaves its variables' domains, or a   *)
(* table with rows and none of them selected.                              *)
THEOREM TableTypeCorrect == Spec => []TypeOK
<1>1. Init => ProcsTyped
  <2> SUFFICES ASSUME Init PROVE ProcsTyped
    OBVIOUS
  <2>1. RootTyped
    BY DEF Init, RootTyped
  <2>2. ListTyped /\ RowsTyped
    BY DEF Init, ListTyped, RowsTyped
  <2>3. BoxTyped /\ PromptTyped
    BY DEF Init, BoxTyped, PromptTyped
  <2> QED BY <2>1, <2>2, <2>3 DEF ProcsTyped
<1>2. ASSUME ProcsTyped, [Next]_vars PROVE ProcsTyped'
  <2>0. ListTyped /\ RowsTyped /\ procs \in Seq(Pids) /\ cursor \in Nat
    BY <1>2 DEF ProcsTyped, ListTyped, RowsTyped
  <2>1. Chosen # NoPid => Chosen \in Pids
    BY <2>0 DEF Chosen, RowsTyped
  <2>2. ASSUME NEW X \in SUBSET Pids, NEW p \in Orders(X) PROVE p \in Seq(Pids)
    <3>1. IsFiniteSet(X)
      BY FS_Subset
    <3>2. p \in Seq(X)
      BY <3>1, OrdersList DEF Orders
    <3> QED BY <3>2
  <2>3. ToSet(procs) \subseteq Pids
    BY <2>0 DEF ToSet
  <2>r. ASSUME NEW p \in Seq(Pids), NEW s, NEW at \in Nat, Rebuild(p, s, at), UNCHANGED <<cmdline, lookups>>
        PROVE  RowsTyped' /\ BoxTyped'
    BY <1>2, <2>r, SameTypes, TableRebuilt
  <2>4. ASSUME NEW X \in SUBSET Pids, NEW p \in Orders(X), NEW s \in SUBSET X, SnapshotMsg(p, s) PROVE ProcsTyped'
    <3>1. p \in Seq(Pids)
      BY <2>2
    <3>2. RowsTyped' /\ BoxTyped'
      <4>1. CASE visible
        BY <2>0, <2>4, <2>r, <3>1, <4>1 DEF SnapshotMsg
      <4>2. CASE ~visible
        BY <1>2, <2>4, <4>2, SameTypes DEF SnapshotMsg
      <4> QED BY <4>1, <4>2
    <3>3. ListTyped'
      BY <2>0, <2>4, <3>1 DEF SnapshotMsg, ListTyped
    <3> QED BY <1>2, <2>4, <3>2, <3>3, SameTypes DEF SnapshotMsg, ProcsTyped
  <2>5. ASSUME NEW reshaped \in BOOLEAN, SetSize(reshaped) PROVE ProcsTyped'
    <3>1. RowsTyped' /\ BoxTyped'
      BY <2>0, <2>5, <2>r DEF SetSize
    <3> QED BY <1>2, <2>5, <3>1, SameTypes DEF SetSize, ProcsTyped
  <2>6. CASE SetActive
    <3>1. RowsTyped' /\ BoxTyped'
      <4>1. CASE active
        BY <1>2, <2>6, <4>1, SameTypes DEF SetActive
      <4>2. CASE ~active
        BY <2>0, <2>6, <2>r, <4>2 DEF SetActive
      <4> QED BY <4>1, <4>2
    <3>2. RootTyped'
      BY <1>2, <2>6 DEF SetActive, ProcsTyped, RootTyped
    <3> QED BY <1>2, <2>6, <3>1, <3>2, SameTypes DEF SetActive, ProcsTyped
  <2>7. ASSUME NEW s \in SUBSET ToSet(procs), FilterKey(s) PROVE ProcsTyped'
    <3>1. RowsTyped' /\ BoxTyped'
      BY <2>0, <2>7, <2>r DEF FilterKey
    <3>2. ListTyped' /\ RootTyped'
      BY <1>2, <2>3, <2>7 DEF FilterKey, ListTyped, RootTyped, ProcsTyped
    <3> QED BY <1>2, <2>7, <3>1, <3>2, SameTypes DEF FilterKey, ProcsTyped
  <2>8. ASSUME NEW s \in SUBSET ToSet(procs), NEW p \in Orders(ToSet(procs)), Arrange(p, s) PROVE ProcsTyped'
    <3>1. p \in Seq(Pids)
      BY <2>2, <2>3
    <3>2. RowsTyped' /\ BoxTyped'
      BY <2>0, <2>8, <2>r, <3>1 DEF Arrange
    <3>3. ListTyped'
      BY <2>3, <2>8, <3>1 DEF Arrange, ListTyped
    <3> QED BY <1>2, <2>8, <3>2, <3>3, SameTypes DEF Arrange, ProcsTyped
  <2>9. ASSUME NEW p \in Pids, CmdlineMsg(p) PROVE ProcsTyped'
    <3>1. BoxTyped'
      BY <1>2, <2>9 DEF CmdlineMsg, BoxTyped, ProcsTyped
    <3> QED BY <1>2, <2>9, <3>1, SameTypes DEF CmdlineMsg, ProcsTyped
  <2>10. ASSUME NEW i \in 0 .. Cardinality(Pids), MoveCursor(i) PROVE ProcsTyped'
    <3>1. Cardinality(Pids) \in Nat
      BY FS_CardinalityType
    <3>2. cursor' = i /\ i \in Nat /\ (rows # <<>> => i \in DOMAIN rows) /\ rows' = rows
      BY <2>10, <3>1 DEF MoveCursor
    <3>3. RowsTyped'
      BY <2>0, <3>2 DEF RowsTyped
    <3> QED BY <1>2, <2>10, <3>3, SameTypes DEF MoveCursor, ProcsTyped
  <2>11. ASSUME NEW o \in {"help", "alerts"}, ToggleOverlay(o) PROVE ProcsTyped'
    <3>1. RootTyped'
      BY <1>2, <2>11 DEF ToggleOverlay, RootTyped, ProcsTyped
    <3> QED BY <1>2, <2>11, <3>1, SameTypes DEF ToggleOverlay, ProcsTyped
  <2>12. CASE ReloadConfig \/ StartFilter
    <3>1. RootTyped'
      BY <1>2, <2>12 DEF ReloadConfig, StartFilter, RootTyped, ProcsTyped
    <3> QED BY <1>2, <2>12, <3>1, SameTypes DEF ReloadConfig, StartFilter, ProcsTyped
  <2>13. CASE OpenDetail \/ CloseDetail
    <3>1. BoxTyped'
      BY <1>2, <2>1, <2>13 DEF OpenDetail, CloseDetail, BoxTyped, ProcsTyped
    <3> QED BY <1>2, <2>13, <3>1, SameTypes DEF OpenDetail, CloseDetail, ProcsTyped
  <2>14. ASSUME NEW force \in BOOLEAN, OpenConfirm(force) PROVE ProcsTyped'
    <3>1. PromptTyped'
      BY <2>1, <2>14 DEF OpenConfirm, PromptTyped
    <3> QED BY <1>2, <2>14, <3>1, SameTypes DEF OpenConfirm, ProcsTyped
  <2>15. CASE PickSignal
    <3>1. PromptTyped'
      BY <1>2, <2>15, SignalsCycle DEF PickSignal, PromptTyped, ProcsTyped
    <3> QED BY <1>2, <2>15, <3>1, SameTypes DEF PickSignal, ProcsTyped
  <2>16. CASE Confirm \/ Cancel
    <3>1. PromptTyped'
      BY <1>2, <2>16 DEF Confirm, Cancel, PromptTyped, ProcsTyped
    <3> QED BY <1>2, <2>16, <3>1, SameTypes DEF Confirm, Cancel, ProcsTyped
  <2>17. CASE UNCHANGED vars
    BY <1>2, <2>17, SameTypes DEF ProcsTyped
  <2>18. CASE Next
    BY <2>4, <2>5, <2>6, <2>7, <2>8, <2>9, <2>10, <2>11, <2>12, <2>13, <2>14, <2>15, <2>16, <2>18,
       Zenon DEF Next
  <2> QED BY <1>2, <2>17, <2>18
<1>3. ProcsTyped => TypeOK
  BY DEF ProcsTyped, RootTyped, ListTyped, RowsTyped, BoxTyped, PromptTyped, TypeOK
<1> QED BY <1>1, <1>2, <1>3, PTL DEF Spec

-----------------------------------------------------------------------------
USE TabsAssumption DEF TabsAssumption, tabsVars, Tables, TabNames, TabOf

-----------------------------------------------------------------------------
(* The tables of the Disks, Network and Connections tabs: a header has a   *)
(* column for every cell that a rebuild would give a row now, the ones of  *)
(* the connections included, and is as wide as the terminal allows as soon *)
(* as its width is known.                                                  *)
HeadersOK ==
  /\ wide \in Widths \cup {0} /\ anyPID \in BOOLEAN
  /\ \A t \in Tables :
       /\ cols[t] \in Nat /\ Cells(t, wide, anyPID) <= cols[t]
       /\ wide > 0 => cols[t] = Columns(t, wide, anyPID)
  /\ DOMAIN cols = Tables
FrontOK ==
  /\ front \in TabNames => front \in told
  /\ \A t \in Tables : TabOf(t) = front => body[t].names = sampled.names
  /\ \A t \in Tables : TabOf(t) = front /\ wide > 0 /\ body[t].names # {} => body[t].cells = cols[t]
  /\ front = "conn" => anyPID = HasPID(sampled)
SampleOK == sampled.pids \in BOOLEAN

(* Header and rows are counted alike at every width.                       *)
LEMMA CellsFit ==
  ASSUME NEW t \in Tables, NEW w \in Nat, NEW pid \in BOOLEAN
  PROVE  Cells(t, w, pid) = Columns(t, w, pid) /\ Columns(t, w, pid) \in Nat
<1>1. CASE t = "fs"
  BY <1>1 DEF Cells, Columns, UsageCells, UsageColumns, If
<1>2. CASE t = "io"
  BY <1>2 DEF Cells, Columns, IoCells, IoColumns, If
<1>3. CASE t = "net"
  BY <1>3 DEF Cells, Columns, NetCells, NetColumns, If
<1>4. CASE t = "conn"
  BY <1>4 DEF Cells, Columns, ConnCells, ConnColumns, If
<1> QED BY <1>1, <1>2, <1>3, <1>4

(* The header New gives a table, that of 100 columns, holds the rows of    *)
(* any sample that comes before the first resize.                          *)
LEMMA FirstHeaderFits ==
  ASSUME NEW t \in Tables
  PROVE  Columns(t, 100, TRUE) \in Nat /\ Cells(t, 0, FALSE) <= Columns(t, 100, TRUE)
<1>1. CASE t = "fs"
  BY <1>1 DEF Cells, Columns, UsageCells, UsageColumns, If
<1>2. CASE t = "io"
  BY <1>2 DEF Cells, Columns, IoCells, IoColumns, If
<1>3. CASE t = "net"
  BY <1>3 DEF Cells, Columns, NetCells, NetColumns, If
<1>4. CASE t = "conn"
  BY <1>4 DEF Cells, Columns, ConnCells, ConnColumns, If
<1> QED BY <1>1, <1>2, <1>3, <1>4

(* Only the connections look at the process ids.                           *)
LEMMA OnlyConnections ==
  ASSUME NEW t \in Tables, t # "conn", NEW w, NEW p, NEW q
  PROVE  Cells(t, w, p) = Cells(t, w, q) /\ Columns(t, w, p) = Columns(t, w, q)
BY DEF Cells, Columns

(* The invariant of the table tabs.                                        *)
TablesInv == HeadersOK /\ FrontOK /\ SampleOK /\ RowsFitColumns

(* The tabs are built empty, with the header of 100 columns.               *)
LEMMA InitTables == TableInit => TablesInv
<1> SUFFICES ASSUME TableInit PROVE TablesInv
  OBVIOUS
<1>1. ASSUME NEW t \in Tables
      PROVE  /\ cols[t] \in Nat /\ Cells(t, wide, anyPID) <= cols[t]
             /\ wide > 0 => cols[t] = Columns(t, wide, anyPID)
  <2>1. Columns(t, 100, TRUE) \in Nat /\ Cells(t, 0, FALSE) <= Columns(t, 100, TRUE)
    BY FirstHeaderFits, Zenon
  <2>2. wide = 0 /\ cols[t] = Columns(t, 100, TRUE)
    BY DEF TableInit
  <2>3. Cells(t, wide, anyPID) = Cells(t, 0, FALSE)
    BY Zenon DEF TableInit
  <2>4. cols[t] \in Nat /\ Cells(t, wide, anyPID) <= cols[t]
    BY <2>1, <2>2, <2>3, Zenon
  <2>5. ~(wide > 0)
    BY <2>2
  <2> QED BY <2>4, <2>5, Zenon
<1>2. HeadersOK
  BY <1>1 DEF TableInit, HeadersOK
<1>3. FrontOK /\ SampleOK
  BY DEF TableInit, FrontOK, NoRows, HasPID, SampleOK
<1>4. RowsFitColumns
  BY DEF TableInit, RowsFitColumns, Fits, NoRows
<1> QED BY <1>2, <1>3, <1>4 DEF TablesInv

(* A resize gives every table its new header before its new rows.          *)
LEMMA ResizeStep ==
  ASSUME TablesInv, NEW w \in Widths, ResizeTables(w)
  PROVE  TablesInv'
<1> USE DEF TablesInv
<1> DEFINE n(t) == Columns(t, w, anyPID)
           left(t) == IF Emptied(t, n(t)) THEN NoRows ELSE body[t]
           built(t) == Built(t, sampled, w, anyPID)
<1>1. /\ wide' = w /\ w \in Nat /\ w > 0 /\ UNCHANGED <<front, told, sampled, anyPID>>
      /\ cols' = [t \in Tables |-> n(t)] /\ body' = [t \in Tables |-> built(t)]
      /\ torn' = (torn \/ \E t \in Tables : ~Fits(left(t), n(t)) \/ ~Fits(built(t), n(t)))
  BY DEF ResizeTables
<1>2. anyPID \in BOOLEAN
  BY DEF HeadersOK
<1>3. \A t \in Tables : n(t) \in Nat /\ Cells(t, w, anyPID) = n(t)
  <2> TAKE t \in Tables
  <2>1. Cells(t, w, anyPID) = Columns(t, w, anyPID) /\ Columns(t, w, anyPID) \in Nat
    BY <1>1, <1>2, CellsFit
  <2> QED BY <2>1
<1>4. \A t \in Tables : /\ built(t).names = sampled.names
                        /\ sampled.names # {} => built(t).cells = n(t)
  BY <1>3 DEF Built
<1>5. \A t \in Tables : Fits(left(t), n(t)) /\ Fits(built(t), n(t))
  <2>1. ASSUME NEW t \in Tables PROVE Fits(left(t), n(t))
    BY DEF RowsFitColumns, Emptied, Fits, NoRows
  <2>2. ASSUME NEW t \in Tables PROVE Fits(built(t), n(t))
    BY <1>3, <1>4 DEF Fits
  <2> QED BY <2>1, <2>2
<1> HIDE DEF n, left, built
<1>6. HeadersOK'
  BY <1>1, <1>2, <1>3 DEF HeadersOK, n
<1>7. FrontOK'
  BY <1>1, <1>4 DEF FrontOK, HasPID
<1>8. RowsFitColumns'
  BY <1>1, <1>5 DEF RowsFitColumns
<1> QED BY <1>1, <1>6, <1>7, <1>8 DEF SampleOK

(* A rebuild of the tabs in T: header and rows of each of them agree, and  *)
(* those of the others stay.                                               *)
LEMMA RebuildStep ==
  ASSUME TablesInv, NEW T, NEW s, s.pids \in BOOLEAN, RebuildTabs(T, s), UNCHANGED wide
  PROVE  /\ HeadersOK' /\ RowsFitColumns'
         /\ \A t \in Tables : TabOf(t) \in T =>
              /\ body'[t].names = s.names
              /\ wide > 0 /\ s.names # {} => body'[t].cells = cols'[t]
         /\ "conn" \in T => anyPID' = HasPID(s)
         /\ "conn" \notin T => anyPID' = anyPID
<1> USE DEF TablesInv
<1> DEFINE of(t) == TabOf(t) \in T
           pid == IF "conn" \in T THEN HasPID(s) ELSE anyPID
           reshaped(t) == t = "conn" /\ pid # anyPID
           n(t) == IF reshaped(t) THEN Columns(t, wide, pid) ELSE cols[t]
           built(t) == Built(t, s, wide, pid)
<1>1. /\ anyPID' = pid /\ cols' = [t \in Tables |-> n(t)]
      /\ body' = [t \in Tables |-> IF of(t) THEN built(t) ELSE body[t]]
      /\ torn' = (torn \/ \E t \in Tables : of(t) /\ ~Fits(built(t), n(t)))
  BY DEF RebuildTabs
<1>2. wide \in Nat /\ anyPID \in BOOLEAN /\ pid \in BOOLEAN
  <2>1. wide \in Nat /\ anyPID \in BOOLEAN
    BY DEF HeadersOK
  <2>2. HasPID(s) \in BOOLEAN
    BY Zenon DEF HasPID
  <2> QED BY <2>1, <2>2
<1>3. ASSUME NEW t \in Tables
      PROVE  /\ n(t) \in Nat /\ Cells(t, wide, pid) <= n(t)
             /\ wide > 0 => n(t) = Columns(t, wide, pid)
  <2>1. CASE reshaped(t)
    <3>1. n(t) = Columns(t, wide, pid)
      BY <2>1
    <3>2. Cells(t, wide, pid) = Columns(t, wide, pid) /\ Columns(t, wide, pid) \in Nat
      <4> HIDE DEF pid
      <4> QED BY <1>2, CellsFit
    <3> QED BY <3>1, <3>2
  <2>2. CASE ~reshaped(t)
    <3>1. Cells(t, wide, pid) = Cells(t, wide, anyPID) /\ Columns(t, wide, pid) = Columns(t, wide, anyPID)
      <4>1. CASE t = "conn"
        BY <2>2, <4>1
      <4>2. CASE t # "conn"
        BY <4>2, OnlyConnections
      <4> QED BY <4>1, <4>2
    <3>2. n(t) = cols[t]
      BY <2>2
    <3> QED BY <3>1, <3>2 DEF HeadersOK
  <2> QED BY <2>1, <2>2
<1>4. ASSUME NEW t \in Tables, wide > 0 PROVE Cells(t, wide, pid) = n(t)
  <2>1. Cells(t, wide, pid) = Columns(t, wide, pid)
    <3> HIDE DEF pid
    <3> QED BY <1>2, CellsFit
  <2> QED BY <1>3, <1>4, <2>1
<1>5. ASSUME NEW t \in Tables
      PROVE  /\ built(t).names = s.names
             /\ s.names # {} => built(t).cells = Cells(t, wide, pid)
  BY DEF Built
<1>6. ASSUME NEW t \in Tables PROVE Fits(built(t), n(t))
  BY <1>3, <1>5 DEF Fits
<1>7. ASSUME NEW t \in Tables, ~of(t) PROVE n(t) = cols[t]
  <2>1. t = "conn" => "conn" \notin T
    BY <1>7
  <2> QED BY <2>1
<1> HIDE DEF built, n, pid
<1>8. HeadersOK'
  BY <1>1, <1>2, <1>3 DEF HeadersOK
<1>9. ASSUME NEW t \in Tables PROVE Fits(body'[t], cols'[t])
  BY <1>1, <1>6, <1>7 DEF RowsFitColumns
<1>10. RowsFitColumns'
  BY <1>1, <1>6, <1>9 DEF RowsFitColumns
<1>11. ASSUME NEW t \in Tables, TabOf(t) \in T
       PROVE  /\ body'[t].names = s.names
              /\ wide > 0 /\ s.names # {} => body'[t].cells = cols'[t]
  BY <1>1, <1>4, <1>5, <1>11
<1> QED BY <1>1, <1>8, <1>10, <1>11 DEF pid

(* Resizes, samples and changes of the tab keep the invariant.             *)
LEMMA TablesStep ==
  ASSUME TablesInv, [TableNext]_tabsVars
  PROVE  TablesInv'
<1>1. ASSUME NEW w \in Widths, ResizeTables(w) PROVE TablesInv'
  BY <1>1, ResizeStep
<1>2. ASSUME NEW s \in [names : SUBSET Names, pids : BOOLEAN], SampleMsg(s) PROVE TablesInv'
  <2>1. /\ RebuildTabs(told, s) /\ sampled' = s /\ s.pids \in BOOLEAN /\ UNCHANGED <<wide, front, told>>
    BY <1>2 DEF SampleMsg
  <2>2. /\ HeadersOK' /\ RowsFitColumns'
        /\ \A t \in Tables : TabOf(t) \in told =>
             /\ body'[t].names = s.names
             /\ wide > 0 /\ s.names # {} => body'[t].cells = cols'[t]
        /\ "conn" \in told => anyPID' = HasPID(s)
    BY <2>1, RebuildStep
  <2>3. FrontOK'
    BY <2>1, <2>2 DEF FrontOK, TablesInv
  <2> QED BY <2>1, <2>2, <2>3 DEF TablesInv, SampleOK
<1>3. ASSUME NEW b \in TabNames \cup {NoTab}, Enter(b) PROVE TablesInv'
  <2>1. /\ RebuildTabs({b}, sampled) /\ UNCHANGED <<wide, sampled>>
        /\ front' = b /\ told' = (told \ {front}) \cup ({b} \cap TabNames)
    BY <1>3 DEF Enter
  <2>2. sampled.pids \in BOOLEAN
    BY DEF TablesInv, SampleOK
  <2>3. /\ HeadersOK' /\ RowsFitColumns'
        /\ \A t \in Tables : TabOf(t) \in {b} =>
             /\ body'[t].names = sampled.names
             /\ wide > 0 /\ sampled.names # {} => body'[t].cells = cols'[t]
        /\ "conn" \in {b} => anyPID' = HasPID(sampled)
    BY <2>1, <2>2, RebuildStep
  <2>4. FrontOK'
    BY <2>1, <2>3 DEF FrontOK, HasPID
  <2> QED BY <2>1, <2>2, <2>3, <2>4 DEF TablesInv, SampleOK
<1>4. CASE UNCHANGED <<wide, front, told, sampled, anyPID, cols, body, torn>>
  BY <1>4 DEF TablesInv, HeadersOK, FrontOK, SampleOK, RowsFitColumns, HasPID
<1>5. ASSUME NEW t, NEW c, MoveRow(t, c) \/ SwitchFocus PROVE TablesInv'
  <2>1. UNCHANGED <<wide, front, told, sampled, anyPID, cols, body, torn>>
    BY <1>5 DEF MoveRow, SwitchFocus
  <2> QED BY <1>4, <2>1
<1> QED BY <1>1, <1>2, <1>3, <1>4, <1>5 DEF TableNext

(* The widget panics on a row that is longer than its header.  rebuild and *)
(* SetTableColumns never show it one: whatever sequence of resizes,        *)
(* samples with and without process ids and changes of the tab, at the end *)
(* of a step and at each of the redraws inside it.                         *)
THEOREM TablesNeverTear == TableSpec => []RowsFitColumns
<1>1. TablesInv => RowsFitColumns
  BY DEF TablesInv
<1> QED BY <1>1, InitTables, TablesStep, PTL DEF TableSpec

(* A tab that slept through any number of samples and resizes shows the    *)
(* last of them as soon as SetVisible brings it to the front.              *)
THEOREM FrontTablesAreFresh == TableSpec => []FrontTableIsFresh
<1>1. TablesInv => FrontTableIsFresh
  <2> SUFFICES ASSUME TablesInv, NEW t \in Tables, TabOf(t) = front
        PROVE  /\ body[t].names = sampled.names
               /\ wide > 0 => cols[t] = Columns(t, wide, HasPID(sampled))
                           /\ (body[t].names # {} => body[t].cells = cols[t])
    BY DEF FrontTableIsFresh
  <2>1. body[t].names = sampled.names /\ (wide > 0 /\ body[t].names # {} => body[t].cells = cols[t])
    BY DEF TablesInv, FrontOK
  <2>2. wide > 0 => cols[t] = Columns(t, wide, anyPID)
    BY DEF TablesInv, HeadersOK
  <2>3. Columns(t, wide, anyPID) = Columns(t, wide, HasPID(sampled))
    <3>1. CASE t = "conn"
      BY <3>1 DEF TablesInv, FrontOK
    <3>2. CASE t # "conn"
      BY <3>2, OnlyConnections
    <3> QED BY <3>1, <3>2
  <2> QED BY <2>1, <2>2, <2>3
<1> QED BY <1>1, InitTables, TablesStep, PTL DEF TableSpec

-----------------------------------------------------------------------------
(* The types of the table tabs.  A cursor may be any integer, because a    *)
(* table without rows has it at -1.                                        *)
ShownTyped ==
  /\ wide \in Widths \cup {0} /\ front \in TabNames \cup {NoTab} /\ told \subseteq TabNames
  /\ front \in told \cup {NoTab} /\ focus \in {"fs", "io"}
SampleTyped == sampled.names \subseteq Names
CursorsTyped ==
  /\ cur \in [Tables -> Int]
  /\ \A t \in Tables :
       /\ body[t].names \subseteq Names
       /\ body[t].names # {} => cur[t] \in 0 .. Cardinality(body[t].names) - 1
HistTyped ==
  /\ IsFiniteSet(DOMAIN hist)
  /\ \A n \in DOMAIN hist : hist[n] \in 1 .. Samples
  /\ Cardinality(DOMAIN hist) <= HistNames + Cardinality(sampled.names)
TabsTyped == ShownTyped /\ SampleTyped /\ CursorsTyped /\ HistTyped

(* The names of a sample can be counted.                                   *)
LEMMA NamesCount ==
  ASSUME NEW N, N \subseteq Names
  PROVE  IsFiniteSet(N) /\ Cardinality(N) \in Nat /\ (N # {} => Cardinality(N) > 0)
<1>1. IsFiniteSet(N)
  BY FS_Subset
<1>2. Cardinality(N) \in Nat /\ (Cardinality(N) = 0 => N = {})
  BY <1>1, FS_CardinalityType, FS_EmptySet
<1> QED BY <1>1, <1>2

(* SetRows and EnsureCursor leave the cursor on a row, if there is one.    *)
LEMMA CursorOnRow ==
  ASSUME NEW t \in Tables, NEW emptied, NEW s, s.names \subseteq Names, cur \in [Tables -> Int]
  PROVE  /\ CursorFor(t, emptied, s) \in Int
         /\ s.names # {} => CursorFor(t, emptied, s) \in 0 .. Cardinality(s.names) - 1
<1> DEFINE n == Cardinality(s.names)
           c == IF emptied THEN -1 ELSE cur[t]
<1>1. n \in Nat /\ c \in Int /\ (s.names # {} => n > 0)
  BY NamesCount
<1>2. CursorFor(t, emptied, s) = Ensured(Clamped(c, n), n)
  BY DEF CursorFor
<1> HIDE DEF n, c
<1>3. (Clamped(c, n) \in Int /\ Clamped(c, n) < n) \/ (n = 0 /\ Clamped(c, n) \in Int)
  BY <1>1 DEF Clamped
<1>4. Ensured(Clamped(c, n), n) \in Int /\ (n > 0 => Ensured(Clamped(c, n), n) \in 0 .. n - 1)
  BY <1>1, <1>3 DEF Ensured
<1> QED BY <1>1, <1>2, <1>4 DEF n

(* A rebuild of the tables in T for the sample s leaves every cursor on a  *)
(* row.                                                                    *)
LEMMA CursorsRebuilt ==
  ASSUME CursorsTyped, NEW T, NEW s, s.names \subseteq Names,
         cur' = [t \in Tables |-> cur'[t]],
         \A t \in Tables \cap T : /\ body'[t].names = s.names
                                  /\ \E emptied \in BOOLEAN : cur'[t] = CursorFor(t, emptied, s),
         \A t \in Tables \ T : body'[t] = body[t] /\ cur'[t] = cur[t]
  PROVE  CursorsTyped'
<1>1. ASSUME NEW t \in Tables
      PROVE  /\ cur'[t] \in Int /\ body'[t].names \subseteq Names
             /\ body'[t].names # {} => cur'[t] \in 0 .. Cardinality(body'[t].names) - 1
  <2>1. CASE t \in T
    <3>1. PICK emptied \in BOOLEAN : cur'[t] = CursorFor(t, emptied, s)
      BY <2>1
    <3>2. body'[t].names = s.names
      BY <2>1
    <3> QED BY <3>1, <3>2, CursorOnRow DEF CursorsTyped
  <2>2. CASE t \notin T
    BY <2>2 DEF CursorsTyped
  <2> QED BY <2>1, <2>2
<1>2. cur' \in [Tables -> Int]
  BY <1>1
<1> QED BY <1>1, <1>2, Zenon DEF CursorsTyped

(* One rate more for every name: the histories stay bounded in length and, *)
(* since the names that went are dropped, in number.                       *)
LEMMA HistoriesRecorded ==
  ASSUME HistTyped, NEW s, s.names \subseteq Names, hist' = Recorded(s), sampled' = s
  PROVE  HistTyped'
<1> DEFINE kept == IF Cardinality(DOMAIN hist) > HistNames THEN {} ELSE DOMAIN hist
           len(n) == (IF n \in kept THEN hist[n] ELSE 0) + If(n \in s.names, 1)
<1>1. hist' = [n \in kept \cup s.names |-> IF len(n) > Samples THEN Samples ELSE len(n)]
  BY DEF Recorded, Longer
<1>2. IsFiniteSet(kept) /\ Cardinality(kept) <= HistNames /\ kept \subseteq DOMAIN hist
  <2>1. CASE Cardinality(DOMAIN hist) > HistNames
    BY <2>1, FS_EmptySet
  <2>2. CASE ~(Cardinality(DOMAIN hist) > HistNames)
    <3>1. Cardinality(DOMAIN hist) \in Nat
      BY FS_CardinalityType DEF HistTyped
    <3> QED BY <2>2, <3>1 DEF HistTyped
  <2> QED BY <2>1, <2>2
<1>3. ASSUME NEW n \in kept \cup s.names PROVE len(n) \in Nat /\ len(n) >= 1
  BY <1>2, <1>3 DEF HistTyped, If
<1> HIDE DEF kept, len
<1>4. \A n \in DOMAIN hist' : hist'[n] \in 1 .. Samples
  BY <1>1, <1>3
<1>5. /\ IsFiniteSet(kept \cup s.names)
      /\ Cardinality(kept \cup s.names) <= HistNames + Cardinality(s.names)
  <2>1. IsFiniteSet(s.names) /\ Cardinality(s.names) \in Nat
    BY NamesCount
  <2>2. Cardinality(kept) \in Nat
    BY <1>2, FS_CardinalityType
  <2>3. /\ IsFiniteSet(kept \cup s.names)
        /\ Cardinality(kept \cup s.names) =
             Cardinality(kept) + Cardinality(s.names) - Cardinality(kept \cap s.names)
    BY <1>2, <2>1, FS_Union
  <2>4. Cardinality(kept \cap s.names) \in Nat
    <3>1. IsFiniteSet(kept \cap s.names)
      BY <1>2, FS_Subset
    <3> QED BY <3>1, FS_CardinalityType
  <2> QED BY <1>2, <2>1, <2>2, <2>3, <2>4
<1>6. DOMAIN hist' = kept \cup s.names
  BY <1>1
<1> QED BY <1>4, <1>5, <1>6 DEF HistTyped

(* What RebuildTabs does to the cursors.                                   *)
LEMMA TabsRebuilt ==
  ASSUME CursorsTyped, NEW T, NEW s, s.names \subseteq Names, RebuildTabs(T, s)
  PROVE  CursorsTyped'
<1> DEFINE R == {t \in Tables : TabOf(t) \in T}
           pid == IF "conn" \in T THEN HasPID(s) ELSE anyPID
           reshaped(t) == t = "conn" /\ pid # anyPID
<1>1. /\ body' = [t \in Tables |-> IF TabOf(t) \in T THEN Built(t, s, wide, pid) ELSE body[t]]
      /\ cur' = [t \in Tables |-> IF TabOf(t) \in T THEN CursorFor(t, reshaped(t), s) ELSE cur[t]]
  BY DEF RebuildTabs
<1>2. \A t \in Tables : reshaped(t) \in BOOLEAN
  OBVIOUS
<1>3. cur' = [t \in Tables |-> cur'[t]]
  BY <1>1
<1>4. \A t \in Tables \cap R : /\ body'[t].names = s.names
                               /\ \E emptied \in BOOLEAN : cur'[t] = CursorFor(t, emptied, s)
  <2> TAKE t \in Tables \cap R
  <2>1. TabOf(t) \in T /\ t \in Tables
    OBVIOUS
  <2> HIDE DEF R
  <2>2. body'[t] = Built(t, s, wide, pid) /\ cur'[t] = CursorFor(t, reshaped(t), s)
    BY <1>1, <2>1
  <2>3. reshaped(t) \in BOOLEAN
    OBVIOUS
  <2> HIDE DEF pid, reshaped
  <2> QED BY <2>2, <2>3 DEF Built
<1>5. \A t \in Tables \ R : body'[t] = body[t] /\ cur'[t] = cur[t]
  <2> TAKE t \in Tables \ R
  <2>1. TabOf(t) \notin T /\ t \in Tables
    OBVIOUS
  <2> HIDE DEF R, pid, reshaped
  <2> QED BY <1>1, <2>1
<1> HIDE DEF R, pid, reshaped
<1> QED BY <1>3, <1>4, <1>5, CursorsRebuilt

(* No order of resizes, samples, keys and changes of the tab leaves a      *)
(* table with rows and none selected, or piles up histories.               *)
THEOREM TablesTypeCorrect == TableSpec => []TableTypeOK
<1>1. TableInit => TabsTyped
  <2> SUFFICES ASSUME TableInit PROVE TabsTyped
    OBVIOUS
  <2>1. ShownTyped /\ SampleTyped
    BY DEF TableInit, ShownTyped, SampleTyped
  <2>2. CursorsTyped
    BY DEF TableInit, CursorsTyped, NoRows
  <2>3. HistTyped
    <3>1. DOMAIN hist = {} /\ sampled.names = {}
      BY DEF TableInit
    <3> QED BY <3>1, FS_EmptySet DEF HistTyped
  <2> QED BY <2>1, <2>2, <2>3 DEF TabsTyped
<1>2. ASSUME TabsTyped, [TableNext]_tabsVars PROVE TabsTyped'
  <2>0. ShownTyped /\ SampleTyped /\ CursorsTyped /\ HistTyped
    BY <1>2 DEF TabsTyped
  <2>1. ASSUME NEW w \in Widths, ResizeTables(w) PROVE TabsTyped'
    <3> DEFINE n(t) == Columns(t, w, anyPID)
    <3>1. /\ wide' = w
          /\ body' = [t \in Tables |-> Built(t, sampled, w, anyPID)]
          /\ cur' = [t \in Tables |-> CursorFor(t, Emptied(t, n(t)), sampled)]
          /\ UNCHANGED <<front, told, sampled, focus, hist>>
      BY <2>1 DEF ResizeTables
    <3>2. cur' = [t \in Tables |-> cur'[t]]
      BY <3>1
    <3>3. \A t \in Tables \cap Tables :
            /\ body'[t].names = sampled.names
            /\ \E emptied \in BOOLEAN : cur'[t] = CursorFor(t, emptied, sampled)
      <4> TAKE t \in Tables \cap Tables
      <4>1. body'[t] = Built(t, sampled, w, anyPID) /\ cur'[t] = CursorFor(t, Emptied(t, n(t)), sampled)
        BY <3>1
      <4>2. Emptied(t, n(t)) \in BOOLEAN
        BY DEF Emptied
      <4> QED BY <4>1, <4>2 DEF Built
    <3>4. CursorsTyped'
      BY <2>0, <3>2, <3>3, CursorsRebuilt DEF SampleTyped
    <3>5. ShownTyped' /\ SampleTyped' /\ HistTyped'
      BY <2>0, <3>1 DEF ShownTyped, SampleTyped, HistTyped
    <3> QED BY <3>4, <3>5 DEF TabsTyped
  <2>2. ASSUME NEW s \in [names : SUBSET Names, pids : BOOLEAN], SampleMsg(s) PROVE TabsTyped'
    <3>1. /\ sampled' = s /\ hist' = Recorded(s) /\ RebuildTabs(told, s) /\ s.names \subseteq Names
          /\ UNCHANGED <<wide, front, told, focus>>
      BY <2>2 DEF SampleMsg
    <3>2. CursorsTyped' /\ HistTyped'
      BY <2>0, <3>1, TabsRebuilt, HistoriesRecorded
    <3>3. ShownTyped' /\ SampleTyped'
      BY <2>0, <3>1 DEF ShownTyped, SampleTyped
    <3> QED BY <3>2, <3>3 DEF TabsTyped
  <2>3. ASSUME NEW b \in TabNames \cup {NoTab}, Enter(b) PROVE TabsTyped'
    <3>1. /\ front' = b /\ told' = (told \ {front}) \cup ({b} \cap TabNames)
          /\ RebuildTabs({b}, sampled) /\ UNCHANGED <<wide, sampled, focus, hist>>
      BY <2>3 DEF Enter
    <3>2. CursorsTyped'
      BY <2>0, <3>1, TabsRebuilt DEF SampleTyped
    <3>3. ShownTyped' /\ SampleTyped' /\ HistTyped'
      BY <2>0, <2>3, <3>1 DEF ShownTyped, SampleTyped, HistTyped
    <3> QED BY <3>2, <3>3 DEF TabsTyped
  <2>4. ASSUME NEW t \in Tables, NEW c, MoveRow(t, c) PROVE TabsTyped'
    <3>1. /\ c \in 0 .. Cardinality(body[t].names) - 1 /\ cur' = [cur EXCEPT ![t] = c]
          /\ focus' \in {focus} \cup (IF front = "disks" THEN {t} ELSE {})
          /\ TabOf(t) = front
          /\ UNCHANGED <<wide, front, told, sampled, body, hist>>
      BY <2>4 DEF MoveRow
    <3>2. CursorsTyped'
      <4>1. c \in Int
        <5>1. Cardinality(body[t].names) \in Nat
          BY <2>0, NamesCount DEF CursorsTyped
        <5> QED BY <3>1, <5>1
      <4> QED BY <2>0, <3>1, <4>1 DEF CursorsTyped
    <3>3. focus' \in {"fs", "io"}
      BY <2>0, <3>1 DEF ShownTyped
    <3>4. ShownTyped' /\ SampleTyped' /\ HistTyped'
      BY <2>0, <3>1, <3>3 DEF ShownTyped, SampleTyped, HistTyped
    <3> QED BY <3>2, <3>4 DEF TabsTyped
  <2>5. CASE SwitchFocus
    BY <2>0, <2>5 DEF SwitchFocus, TabsTyped, ShownTyped, SampleTyped, CursorsTyped, HistTyped
  <2>6. CASE UNCHANGED tabsVars
    BY <2>0, <2>6 DEF TabsTyped, ShownTyped, SampleTyped, CursorsTyped, HistTyped
  <2> QED BY <1>2, <2>1, <2>2, <2>3, <2>4, <2>5, <2>6 DEF TableNext
<1>3. TabsTyped => TableTypeOK
  BY DEF TabsTyped, ShownTyped, SampleTyped, CursorsTyped, HistTyped, TableTypeOK
<1> QED BY <1>1, <1>2, <1>3, PTL DEF TableSpec

-----------------------------------------------------------------------------
(* The compositions.                                                       *)

(* Whatever tab is in front shows the latest sample: the steps of one kind *)
(* of tab leave the other alone, and each shows it by itself.              *)
THEOREM FrontTabIsFresh == TabsSpec => []FrontIsFresh
<1>1. TabsInit => Init /\ TableInit
  BY DEF TabsInit
<1>2. [TabsNext]_<<vars, tabsVars>> => [Next]_vars
  BY DEF TabsNext
<1>3. [TabsNext]_<<vars, tabsVars>> => [TableNext]_tabsVars
  BY DEF TabsNext
<1> QED BY <1>1, <1>2, <1>3, ProcessesAreFresh, FrontTablesAreFresh, PTL
        DEF Spec, TableSpec, TabsSpec, FrontIsFresh

(* A behaviour of the composition exercises one part, and to each of the   *)
(* others it is a behaviour that stutters.                                 *)
LEMMA PartsRun == MCSpec => Spec /\ TreeSpec /\ TableSpec /\ D!Spec
<1>1. MCInit => Init /\ TreeInit /\ TableInit /\ D!Init
  BY DEF MCInit, TabsInit
<1>2. [MCNext]_<<part, vars, treeVars, tabsVars, dockerVars>> => [Next]_vars
  BY DEF MCNext
<1>3. [MCNext]_<<part, vars, treeVars, tabsVars, dockerVars>> => [TreeNext]_treeVars
  BY DEF MCNext
<1>4. [MCNext]_<<part, vars, treeVars, tabsVars, dockerVars>> => [TableNext]_tabsVars
  BY DEF MCNext
<1>5. [MCNext]_<<part, vars, treeVars, tabsVars, dockerVars>> => [D!Next]_D!vars
  <2>1. UNCHANGED dockerVars => UNCHANGED D!vars
    BY DEF dockerVars, D!vars, D!daemonVars, D!tabVars, D!rateVars, D!tableVars
  <2> QED BY <2>1 DEF MCNext
<1> QED BY <1>1, <1>2, <1>3, <1>4, <1>5, PTL DEF MCSpec, Spec, TreeSpec, TableSpec, D!Spec

(* Every tab keeps its variables in their domains, and a row selected in   *)
(* each of its tables that has one, for any processes, names, containers,  *)
(* widths and bounds.                                                      *)
THEOREM TabsTypesCorrect == MCSpec => []Types
<1>1. TypeOK /\ TreeTypeOK /\ TableTypeOK /\ D!TypeOK /\ D!RowSelected => Types
  BY DEF Types
<1> QED BY <1>1, PartsRun, TableTypeCorrect, TreeStaysForest, TablesTypeCorrect, PollTypeCorrect,
           RowStaysSelected, PTL

(* All that the model checker is asked of one instance of the tabs, of     *)
(* every instance.                                                         *)
THEOREM TabsCorrect ==
  MCSpec => /\ [](Types /\ FrontIsFresh /\ CmdlineMatches /\ TreeIsForest /\ RowsFitColumns)
            /\ SelectionFollowsProcess /\ PromptIsBinding /\ ActsOnShownRow /\ RateOfGoodSamples
<1>1. ActiveTableIsFresh /\ FrontTableIsFresh => FrontIsFresh
  BY DEF FrontIsFresh
<1>2. Spec => [](ActiveTableIsFresh /\ CmdlineMatches) /\ SelectionFollowsProcess /\ PromptIsBinding
  BY ProcessesAreFresh, CmdlineStaysWithItsBox, SelectionStays, PromptsBind, PTL
<1>3. TableSpec => [](FrontTableIsFresh /\ RowsFitColumns)
  BY FrontTablesAreFresh, TablesNeverTear, PTL
<1>4. D!Spec => ActsOnShownRow /\ RateOfGoodSamples
  BY KeysActOnShownRow, RatesAreOfTraffic
<1> QED BY <1>1, <1>2, <1>3, <1>4, PartsRun, TabsTypesCorrect, TreeStaysForest, PTL
=============================================================================
