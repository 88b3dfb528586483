----------------------------- MODULE TreeProofs -----------------------------
(***************************************************************************)
(* Proofs about ProcTree, for any pids and whatever parents they report.   *)
(* WalkInv is the invariant of the walk's loop, which TreeSpec's steps run *)
(* as a whole: it is carried from Start through every Walk by WalkStep,    *)
(* and what it says at the end, when nobody is left to visit, is the       *)
(* forest.                                                                 *)
(***************************************************************************)
EXTENDS ProcTree, FiniteSetTheorems, SequenceTheorems, WellFoundedInduction, TLAPS

-----------------------------------------------------------------------------
(* Numbers and lists.                                                      *)

(* A set of natural numbers has a least one.                               *)
LEMMA LeastNumber ==
  ASSUME NEW T, T \subseteq Nat, T # {}
  PROVE  \E m \in T : \A k \in T : ~(k < m)
<1> DEFINE R == OpToRel(<, Nat)
<1>1. IsWellFoundedOn(R, Nat)
  BY NatLessThanWellFounded
<1>2. \A i, j \in Nat : i < j => <<i, j>> \in R
  BY DEF OpToRel
<1> HIDE DEF R
<1>3. PICK m \in T : \A k \in T : ~ (<<k, m>> \in R)
  BY <1>1, WFMin
<1> QED BY <1>2, <1>3

(* A set that has 0, and the successor of each of its members below n, has *)
(* every number up to n.                                                   *)
LEMMA Climb ==
  ASSUME NEW S, NEW n \in Nat, 0 \in S, \A k \in 0 .. n - 1 : k \in S => k + 1 \in S
  PROVE  0 .. n \subseteq S
<1> DEFINE T == {k \in 0 .. n : k \notin S}
<1> SUFFICES ASSUME T # {} PROVE FALSE
  OBVIOUS
<1>1. PICK k \in T : \A j \in T : ~(j < k)
  <2>1. T \subseteq Nat
    OBVIOUS
  <2> HIDE DEF T
  <2> QED BY <2>1, LeastNumber
<1>2. k \in 0 .. n /\ k \notin S /\ k # 0
  OBVIOUS
<1>3. k - 1 \in 0 .. n - 1 /\ k - 1 < k
  BY <1>2
<1>4. k - 1 \in S
  BY <1>1, <1>3
<1> QED BY <1>2, <1>3, <1>4

(* A list without repetitions, as long as the set its members are from,    *)
(* has all of that set.                                                    *)
LEMMA ListHasAll ==
  ASSUME NEW S, IsFiniteSet(S), NEW t \in [1 .. Cardinality(S) -> S],
         \A i, j \in 1 .. Cardinality(S) : i # j => t[i] # t[j]
  PROVE  /\ Cardinality(S) \in Nat
         /\ \A x \in S : \E i \in 1 .. Cardinality(S) : t[i] = x
<1>1. Cardinality(S) \in Nat
  BY FS_CardinalityType
<1>2. Cardinality(1 .. Cardinality(S)) = Cardinality(S)
  BY <1>1, FS_Interval
<1>3. t \in Injection(1 .. Cardinality(S), S)
  BY DEF Injection, IsInjective
<1>4. t \in Surjection(1 .. Cardinality(S), S)
  BY <1>2, <1>3, FS_Injection
<1> QED BY <1>1, <1>4 DEF Surjection

(* A function that lists a set in the order of the tab.                    *)
Lists(t, S, n, d) == t \in [1 .. n -> S] /\ \A i, j \in 1 .. n : i < j => Before(d, t[i], t[j])

(* Every finite set of pids can be listed upwards: its least one first.    *)
LEMMA ListsUpwards ==
  ASSUME NEW S \in SUBSET Nat, IsFiniteSet(S)
  PROVE  \E t : Lists(t, S, Cardinality(S), FALSE)
<1> DEFINE n == Cardinality(S)
           Listable(k) == \A X \in SUBSET S : Cardinality(X) = k => \E t : Lists(t, X, k, FALSE)
           K == {k \in 0 .. n : Listable(k)}
<1>1. n \in Nat
  BY FS_CardinalityType
<1>2. \A X \in SUBSET S : IsFiniteSet(X) /\ Cardinality(X) \in Nat
  BY FS_Subset, FS_CardinalityType
<1>3. 0 \in K
  <2>1. ASSUME NEW X \in SUBSET S PROVE Lists([i \in 1 .. 0 |-> i], X, 0, FALSE)
    BY DEF Lists
  <2>2. Listable(0)
    BY <2>1
  <2> HIDE DEF Listable
  <2> QED BY <1>1, <2>2
<1>4. ASSUME NEW k \in 0 .. n - 1, k \in K PROVE k + 1 \in K
  <2>1. ASSUME NEW X \in SUBSET S, Cardinality(X) = k + 1
        PROVE  \E t : Lists(t, X, k + 1, FALSE)
    <3>1. X # {} /\ X \subseteq Nat
      BY <2>1, FS_EmptySet
    <3>2. PICK m \in X : \A x \in X : ~(x < m)
      BY <3>1, LeastNumber
    <3>3. Cardinality(X \ {m}) = k
      BY <1>2, <2>1, FS_RemoveElement
    <3>4. Listable(k)
      BY <1>4
    <3>5. PICK t : Lists(t, X \ {m}, k, FALSE)
      BY <3>3, <3>4
    <3> DEFINE u == [i \in 1 .. k + 1 |-> IF i = 1 THEN m ELSE t[i - 1]]
    <3>6. ASSUME NEW i \in 1 .. k + 1, i # 1
          PROVE  i - 1 \in 1 .. k /\ u[i] = t[i - 1] /\ u[i] \in X /\ u[i] # m
      BY <3>5, <3>6 DEF Lists
    <3>7. u[1] = m /\ u \in [1 .. k + 1 -> X]
      BY <3>6
    <3>8. ASSUME NEW i \in 1 .. k + 1, NEW j \in 1 .. k + 1, i < j
          PROVE  u[i] < u[j]
      <4>1. j # 1 /\ j - 1 \in 1 .. k /\ u[j] = t[j - 1] /\ u[j] \in X /\ u[j] # m
        BY <3>6, <3>8
      <4>2. CASE i = 1
        <5>1. u[j] \in Nat /\ m \in Nat /\ ~(u[j] < m)
          BY <3>1, <3>2, <4>1
        <5> QED BY <3>7, <4>1, <4>2, <5>1
      <4>3. CASE i # 1
        <5>1. i - 1 \in 1 .. k /\ u[i] = t[i - 1]
          BY <3>6, <4>3
        <5>2. i - 1 < j - 1
          BY <3>8
        <5> HIDE DEF u
        <5> QED BY <3>5, <4>1, <5>1, <5>2 DEF Lists, Before
      <4> QED BY <4>2, <4>3
    <3> HIDE DEF u
    <3>9. Lists(u, X, k + 1, FALSE)
      BY <3>7, <3>8 DEF Lists, Before
    <3> QED BY <3>9
  <2>2. Listable(k + 1)
    BY <2>1
  <2> HIDE DEF Listable
  <2> QED BY <1>1, <2>2
<1> HIDE DEF K
<1>5. n \in K
  BY <1>1, <1>3, <1>4, Climb
<1> QED BY <1>5 DEF K

(* What sortBy returns: every pid of the set once, in the tab's order.     *)
LEMMA SortedLists ==
  ASSUME NEW S \in SUBSET Nat, IsFiniteSet(S), NEW d \in BOOLEAN
  PROVE  /\ Cardinality(S) \in Nat
         /\ Lists(Sorted(S, d), S, Cardinality(S), d)
         /\ \A x \in S : \E i \in 1 .. Cardinality(S) : Sorted(S, d)[i] = x
<1> DEFINE n == Cardinality(S)
<1>1. n \in Nat
  BY FS_CardinalityType
<1>2. PICK t : Lists(t, S, n, FALSE)
  BY ListsUpwards
<1> HIDE DEF n
<1>3. \E u : Lists(u, S, n, d)
  <2>1. CASE ~d
    BY <1>2, <2>1
  <2>2. CASE d
    <3> DEFINE u == [i \in 1 .. n |-> t[n + 1 - i]]
    <3>1. u \in [1 .. n -> S] /\ t \in [1 .. n -> S]
      BY <1>1, <1>2 DEF Lists
    <3>2. ASSUME NEW i \in 1 .. n, NEW j \in 1 .. n, i < j PROVE u[i] > u[j]
      <4>1. n + 1 - i \in 1 .. n /\ n + 1 - j \in 1 .. n /\ n + 1 - j < n + 1 - i
        BY <1>1, <3>2
      <4>2. Before(FALSE, t[n + 1 - j], t[n + 1 - i])
        BY <1>2, <4>1 DEF Lists
      <4>3. u[i] \in Nat /\ u[j] \in Nat
        BY <3>1
      <4> QED BY <4>2, <4>3 DEF Before
    <3> HIDE DEF u
    <3>3. Lists(u, S, n, d)
      BY <2>2, <3>1, <3>2 DEF Lists, Before
    <3> QED BY <3>3
  <2> QED BY <2>1, <2>2
<1>4. Lists(Sorted(S, d), S, n, d)
  <2>1. \E u \in [1 .. n -> S] : \A i, j \in DOMAIN u : i < j => Before(d, u[i], u[j])
    BY <1>3 DEF Lists
  <2> QED BY <2>1 DEF Sorted, Lists, n
<1>5. \A i, j \in 1 .. n : i # j => Sorted(S, d)[i] # Sorted(S, d)[j]
  <2>1. ASSUME NEW i \in 1 .. n, NEW j \in 1 .. n, i < j PROVE Sorted(S, d)[i] # Sorted(S, d)[j]
    <3>1. Sorted(S, d)[i] \in Nat /\ Sorted(S, d)[j] \in Nat /\ Before(d, Sorted(S, d)[i], Sorted(S, d)[j])
      BY <1>4, <2>1 DEF Lists
    <3> QED BY <3>1 DEF Before
  <2>2. \A i, j \in 1 .. n : i # j => i < j \/ j < i
    BY <1>1
  <2> QED BY <2>1, <2>2
<1>6. Sorted(S, d) \in [1 .. n -> S]
  BY <1>4 DEF Lists
<1> QED BY <1>1, <1>4, <1>5, <1>6, ListHasAll DEF n

-----------------------------------------------------------------------------
(* Ancestors.                                                              *)

(* What BuildTree is called with: no pid is listed twice.                  *)
Input ==
  /\ sample \in Seq(Known) /\ Len(sample) = Cardinality(Listed)
  /\ parent \in [Known -> Known \cup {0}]
  /\ desc \in BOOLEAN /\ collapsed \subseteq Known

(* The listed pids are finitely many numbers, each at one place.           *)
LEMMA ListedPids ==
  ASSUME Input
  PROVE  /\ Listed \subseteq Known /\ Listed \subseteq Nat \ {0} /\ IsFiniteSet(Listed)
         /\ Cardinality(Listed) \in Nat
         /\ \A S \in SUBSET Listed : IsFiniteSet(S) /\ S \in SUBSET Nat
<1>1. Listed \subseteq Known
  BY DEF Input, Listed, ToSet
<1> QED BY <1>1, TreeAssumption, FS_Subset, FS_CardinalityType DEF TreeAssumption

(* A set with the listed parents of p and of its own members.              *)
ClosedUp(p, S) == \A q \in S \cup {p} : parent[q] \in Listed => parent[q] \in S

(* The ancestors of p are the least such set.                              *)
LEMMA AncestorsLeast ==
  ASSUME NEW p
  PROVE  /\ Ancestors(p) \subseteq Listed /\ ClosedUp(p, Ancestors(p))
         /\ \A S \in SUBSET Listed : ClosedUp(p, S) => Ancestors(p) \subseteq S
BY DEF Ancestors, ClosedUp

(* A root has no ancestors; any other process has its parent and those of  *)
(* its parent.                                                             *)
LEMMA AncestorsStep ==
  ASSUME NEW p
  PROVE  /\ parent[p] \notin Listed => Ancestors(p) = {}
         /\ parent[p] \in Listed => Ancestors(p) = {parent[p]} \cup Ancestors(parent[p])
<1>1. CASE parent[p] \notin Listed
  <2>1. ClosedUp(p, {})
    BY <1>1 DEF ClosedUp
  <2> QED BY <1>1, <2>1, AncestorsLeast
<1>2. CASE parent[p] \in Listed
  <2> DEFINE S == {parent[p]} \cup Ancestors(parent[p])
  <2>1. ClosedUp(p, S) /\ S \subseteq Listed
    BY <1>2, AncestorsLeast DEF ClosedUp
  <2>2. ClosedUp(parent[p], Ancestors(p)) /\ parent[p] \in Ancestors(p)
    BY <1>2, AncestorsLeast DEF ClosedUp
  <2> HIDE DEF S
  <2>3. Ancestors(p) \subseteq S /\ Ancestors(parent[p]) \subseteq Ancestors(p)
    BY <2>1, <2>2, AncestorsLeast
  <2> QED BY <1>2, <2>2, <2>3 DEF S
<1> QED BY <1>1, <1>2

(* The number of ancestors, which is the depth of a process no cycle is    *)
(* above: one more than its parent's.                                      *)
Level(p) == Cardinality(Ancestors(p))

(* Above a process with no cycle above it there is none above its parent.  *)
LEMMA LevelStep ==
  ASSUME Input, NEW p
  PROVE  /\ Level(p) \in Nat
         /\ Level(p) = 0 <=> parent[p] \notin Listed
         /\ Rooted(p) /\ parent[p] \in Listed =>
              Rooted(parent[p]) /\ Level(p) = Level(parent[p]) + 1
<1>1. \A q : IsFiniteSet(Ancestors(q)) /\ Cardinality(Ancestors(q)) \in Nat
  BY AncestorsLeast, ListedPids, FS_Subset, FS_CardinalityType
<1>2. Level(p) = 0 <=> parent[p] \notin Listed
  <2>1. Level(p) = 0 <=> Ancestors(p) = {}
    BY <1>1, FS_EmptySet DEF Level
  <2> QED BY <2>1, AncestorsStep
<1>3. ASSUME Rooted(p), parent[p] \in Listed
      PROVE  Rooted(parent[p]) /\ Level(p) = Level(parent[p]) + 1
  <2>1. Ancestors(p) = Ancestors(parent[p]) \cup {parent[p]}
    BY <1>3, AncestorsStep
  <2>2. parent[p] \notin Ancestors(parent[p]) /\ Rooted(parent[p])
    BY <1>3, <2>1 DEF Rooted
  <2>3. Cardinality(Ancestors(parent[p]) \cup {parent[p]}) = Cardinality(Ancestors(parent[p])) + 1
    BY <1>1, <2>2, FS_AddElement
  <2> QED BY <2>1, <2>2, <2>3 DEF Level
<1> QED BY <1>1, <1>2, <1>3 DEF Level

(* What markSubtree flags is unvisited, hangs below p, and lets no         *)
(* unvisited child of p or of itself out.                                  *)
LEMMA Marked ==
  ASSUME NEW seen, NEW p \in Listed
  PROVE  LET M == MarkSubtree(sample, parent, seen, p) IN
         /\ M \subseteq Listed \ seen
         /\ \A q \in M : p \in Ancestors(q)
         /\ \A k \in Listed \ seen : parent[k] \in M \cup {p} => k \in M
<1> DEFINE M == MarkSubtree(sample, parent, seen, p)
           fresh == Listed \ seen
           closed(S) == \A k \in fresh : parent[k] \in S \cup {p} => k \in S
           B == {k \in fresh : p \in Ancestors(k)}
<1>1. M = {k \in fresh : \A S \in SUBSET fresh : closed(S) => k \in S}
  BY DEF MarkSubtree, Listed
<1>2. ASSUME NEW k \in fresh, parent[k] \in B \cup {p} PROVE p \in Ancestors(k)
  BY <1>2, AncestorsStep
<1>3. closed(B) /\ B \in SUBSET fresh
  BY <1>2
<1>4. M \subseteq B
  BY <1>1, <1>3
<1>5. closed(M) /\ M \subseteq fresh
  BY <1>1
<1> HIDE DEF M
<1> QED BY <1>4, <1>5 DEF M

-----------------------------------------------------------------------------
(* One row of the walk.                                                    *)

PendingCall == [pid : Listed, depth : Nat]
TreeRow == [pid : Listed, depth : Nat, children : BOOLEAN]

WalkTyped(st) ==
  /\ st.todo \in Seq(PendingCall) /\ st.rows \in Seq(TreeRow)
  /\ st.seen \subseteq Listed

(* The calls of one loop over S: one for each of its processes, in order.  *)
CallsFor(c, S, depth) ==
  /\ c \in Seq(PendingCall)
  /\ \A j \in 1 .. Len(c) : c[j].pid \in S /\ c[j].depth = depth
  /\ \A j, k \in 1 .. Len(c) : j < k => Before(desc, c[j].pid, c[k].pid)
  /\ \A x \in S : \E j \in 1 .. Len(c) : c[j].pid = x

(* What sortBy and the loop over its result do.                            *)
LEMMA CallsAreSorted ==
  ASSUME Input, NEW S \in SUBSET Listed, NEW depth \in Nat
  PROVE  CallsFor(Calls(S, desc, depth), S, depth)
<1> DEFINE t == Sorted(S, desc)
           n == Cardinality(S)
           c == Calls(S, desc, depth)
<1>1. /\ n \in Nat /\ Lists(t, S, n, desc)
      /\ \A x \in S : \E i \in 1 .. n : t[i] = x
  BY ListedPids, SortedLists DEF Input
<1>2. c = [i \in DOMAIN t |-> [pid |-> t[i], depth |-> depth]]
  BY DEF Calls
<1> HIDE DEF t, n, c
<1>3. t \in [1 .. n -> S] /\ \A i, j \in 1 .. n : i < j => Before(desc, t[i], t[j])
  BY <1>1 DEF Lists
<1>4. c \in [1 .. n -> PendingCall] /\ \A i \in 1 .. n : c[i].pid = t[i] /\ c[i].depth = depth
  BY <1>2, <1>3 DEF PendingCall
<1>5. c \in Seq(PendingCall) /\ Len(c) = n
  BY <1>1, <1>4
<1> QED BY <1>1, <1>3, <1>4, <1>5 DEF CallsFor, c

(* The first call whose process is not visited.                            *)
FirstOpen(st, i) ==
  /\ i \in 1 .. Len(st.todo) /\ st.todo[i].pid \notin st.seen
  /\ \A j \in 1 .. i - 1 : st.todo[j].pid \in st.seen

(* What the walk leaves of st when call i adds the next row: nx, whose     *)
(* first c calls are new.                                                  *)
Adds(st, nx, i) ==
  /\ nx.rows = Append(st.rows, Row(sample, parent, st.todo[i]))
  /\ WalkTyped(nx)

Flags(st, nx, p) ==
  /\ st.seen \cup {p} \subseteq nx.seen
  /\ \A q \in nx.seen \ st.seen : q = p \/ (p \in collapsed /\ p \in Ancestors(q))
  /\ p \in collapsed => \A k \in Listed \ nx.seen : parent[k] \notin nx.seen \ st.seen
  /\ p \notin collapsed => nx.seen = st.seen \cup {p}

Pushes(st, nx, i, c) ==
  /\ c \in Nat /\ Len(nx.todo) = c + Len(st.todo) - i
  /\ \A j \in 1 .. c : /\ st.todo[i].pid \notin collapsed
                       /\ parent[nx.todo[j].pid] = st.todo[i].pid
                       /\ nx.todo[j].depth = st.todo[i].depth + 1
  /\ \A j, k \in 1 .. c : j < k => Before(desc, nx.todo[j].pid, nx.todo[k].pid)
  /\ st.todo[i].pid \notin collapsed =>
       \A k \in Listed : parent[k] = st.todo[i].pid => \E j \in 1 .. c : nx.todo[j].pid = k
  /\ \A j \in c + 1 .. Len(nx.todo) : nx.todo[j] = st.todo[j - c + i]

Emits(st, nx, i, c) ==
  /\ FirstOpen(st, i) /\ Adds(st, nx, i) /\ Flags(st, nx, st.todo[i].pid) /\ Pushes(st, nx, i, c)

(* The body of the walk does that.                                         *)
LEMMA EmitEmits ==
  ASSUME Input, NEW st, WalkTyped(st), NEW i, FirstOpen(st, i)
  PROVE  \E c : Emits(st, Emit(sample, parent, desc, collapsed, st, i), i, c)
<1> DEFINE nx == Emit(sample, parent, desc, collapsed, st, i)
           e == st.todo[i]
           p == st.todo[i].pid
           seen == st.seen \cup {p}
           M == MarkSubtree(sample, parent, seen, p)
           rest == SubSeq(st.todo, i + 1, Len(st.todo))
           S == Kids(sample, parent, p)
           new == Calls(S, desc, e.depth + 1)
<1>1. /\ nx.rows = Append(st.rows, Row(sample, parent, e))
      /\ nx.seen = IF p \in collapsed THEN seen \cup M ELSE seen
      /\ nx.todo = IF p \in collapsed THEN rest ELSE new \o rest
  BY DEF Emit
<1>2. i \in 1 .. Len(st.todo) /\ e \in PendingCall /\ p \in Listed /\ e.depth \in Nat
  <2>1. i \in 1 .. Len(st.todo) /\ st.todo \in Seq(PendingCall)
    BY DEF FirstOpen, WalkTyped
  <2>2. st.todo[i] \in PendingCall
    BY <2>1
  <2> QED BY <2>1, <2>2 DEF PendingCall
<1>3. S \subseteq Listed /\ \A k \in Listed : parent[k] = p <=> k \in S
  BY DEF Kids, Listed
<1>4. CallsFor(new, S, e.depth + 1)
  BY <1>2, <1>3, CallsAreSorted
<1>5. /\ rest \in Seq(PendingCall) /\ Len(rest) = Len(st.todo) - i
      /\ \A j \in 1 .. Len(st.todo) - i : rest[j] = st.todo[j + i]
  <2>1. st.todo \in Seq(PendingCall) /\ Len(st.todo) \in Nat
    BY DEF WalkTyped
  <2> HIDE DEF p, e, nx, S, M, seen
  <2> QED BY <1>2, <2>1
<1>6. /\ M \subseteq Listed \ seen /\ \A q \in M : p \in Ancestors(q)
      /\ \A k \in Listed \ seen : parent[k] \in M \cup {p} => k \in M
  BY <1>2, Marked
<1> HIDE DEF nx, M, rest, S, new
<1>7. Flags(st, nx, p) /\ nx.seen \subseteq Listed
  <2>1. CASE p \in collapsed
    <3>1. nx.seen = st.seen \cup {p} \cup M /\ p \notin st.seen
      BY <1>1, <2>1 DEF FirstOpen
    <3>2. M \subseteq Listed \ st.seen /\ st.seen \subseteq Listed
      BY <1>6 DEF WalkTyped
    <3>3. nx.seen \ st.seen = M \cup {p}
      BY <3>1, <3>2
    <3>4. ASSUME NEW k \in Listed \ nx.seen PROVE parent[k] \notin nx.seen \ st.seen
      BY <1>6, <3>1, <3>3
    <3> HIDE DEF p
    <3> QED BY <1>2, <1>6, <2>1, <3>1, <3>2, <3>3, <3>4 DEF Flags
  <2>2. CASE p \notin collapsed
    BY <1>1, <1>2, <2>2 DEF Flags, WalkTyped
  <2> QED BY <2>1, <2>2
<1>8. nx.rows \in Seq(TreeRow)
  <2>1. Row(sample, parent, e) \in TreeRow
    BY <1>2 DEF Row, TreeRow
  <2> QED BY <1>1, <2>1 DEF WalkTyped
<1>9. \E c : Pushes(st, nx, i, c) /\ nx.todo \in Seq(PendingCall)
  <2>0. i \in Nat /\ Len(st.todo) \in Nat /\ i <= Len(st.todo)
    BY <1>2 DEF WalkTyped
  <2>1. CASE p \in collapsed
    <3>1. nx.todo = rest
      BY <1>1, <2>1
    <3>2. Pushes(st, nx, i, 0)
      BY <1>5, <2>0, <2>1, <3>1 DEF Pushes
    <3> QED BY <1>5, <3>1, <3>2
  <2>2. CASE p \notin collapsed
    <3> DEFINE c == Len(new)
    <3>1. nx.todo = new \o rest /\ new \in Seq(PendingCall) /\ c \in Nat
      BY <1>1, <1>4, <2>2 DEF CallsFor
    <3>2. /\ nx.todo \in Seq(PendingCall) /\ Len(nx.todo) = c + Len(st.todo) - i
          /\ \A j \in 1 .. c : nx.todo[j] = new[j]
          /\ \A j \in c + 1 .. Len(nx.todo) : nx.todo[j] = rest[j - c]
      <4>1. nx.todo \in Seq(PendingCall) /\ Len(nx.todo) = c + Len(rest)
        BY <1>5, <3>1, ConcatProperties
      <4>2. \A j \in 1 .. c + Len(rest) : nx.todo[j] = IF j <= c THEN new[j] ELSE rest[j - c]
        BY <1>5, <3>1, ConcatProperties
      <4>3. \A j \in c + 1 .. Len(nx.todo) : nx.todo[j] = rest[j - c]
        <5> HIDE DEF c, p, e
        <5> QED BY <1>5, <2>0, <3>1, <4>1, <4>2
      <4>4. \A j \in 1 .. c : nx.todo[j] = new[j]
        <5> HIDE DEF c, p, e
        <5> QED BY <1>5, <2>0, <3>1, <4>1, <4>2
      <4>5. Len(nx.todo) = c + Len(st.todo) - i
        <5> HIDE DEF c, p, e
        <5> QED BY <1>5, <2>0, <3>1, <4>1
      <4> HIDE DEF c, p, e
      <4> QED BY <4>1, <4>3, <4>4, <4>5
    <3>3. /\ \A j \in 1 .. c : new[j].pid \in S /\ new[j].depth = e.depth + 1
          /\ \A j, k \in 1 .. c : j < k => Before(desc, new[j].pid, new[k].pid)
          /\ \A x \in S : \E j \in 1 .. c : new[j].pid = x
      BY <1>4 DEF CallsFor
    <3> HIDE DEF c
    <3>4. \A j \in c + 1 .. Len(nx.todo) : nx.todo[j] = st.todo[j - c + i]
      <4>1. ASSUME NEW j \in c + 1 .. Len(nx.todo) PROVE nx.todo[j] = st.todo[j - c + i]
        <5>1. j - c \in 1 .. Len(st.todo) - i /\ nx.todo[j] = rest[j - c]
          BY <2>0, <3>1, <3>2
        <5> QED BY <1>5, <5>1
      <4> QED BY <4>1
    <3>5. /\ \A j \in 1 .. c : parent[nx.todo[j].pid] = p /\ nx.todo[j].depth = e.depth + 1
          /\ \A j, k \in 1 .. c : j < k => Before(desc, nx.todo[j].pid, nx.todo[k].pid)
          /\ \A k \in Listed : parent[k] = p => \E j \in 1 .. c : nx.todo[j].pid = k
      BY <1>3, <3>2, <3>3
    <3>6. Pushes(st, nx, i, c)
      BY <2>2, <3>1, <3>2, <3>4, <3>5 DEF Pushes
    <3> QED BY <3>2, <3>6
  <2> QED BY <2>1, <2>2
<1>10. Adds(st, nx, i)
  BY <1>1, <1>7, <1>8, <1>9 DEF Adds, WalkTyped
<1> QED BY <1>7, <1>9, <1>10 DEF Emits, nx

-----------------------------------------------------------------------------
(* What holds between two rows of the walk.                                *)

(* A process no cycle is above is at its level, below no collapsed one.    *)
Proper(e) ==
  Rooted(e.pid) => e.depth = Level(e.pid) /\ Ancestors(e.pid) \cap collapsed = {}

(* Siblings, or two roots, with no cycle above them.                       *)
Mates(a, b) ==
  /\ Rooted(a) /\ Rooted(b)
  /\ parent[a] = parent[b] \/ (parent[a] \notin Listed /\ parent[b] \notin Listed)

(* The calls up to j are proper and in order.                              *)
Fine(st, j) ==
  /\ \A k \in 1 .. j : Proper(st.todo[k])
  /\ \A x, y \in 1 .. j : x < y /\ Mates(st.todo[x].pid, st.todo[y].pid) =>
       Before(desc, st.todo[x].pid, st.todo[y].pid)

(* p will be called in its place, or after its parent.                     *)
Waits(st, p) ==
  \/ \E j \in 1 .. Len(st.todo) : st.todo[j].pid = p /\ Fine(st, j)
  \/ parent[p] \in Listed \ st.seen

WalkPending(st) ==
  \A p \in Listed \ st.seen :
    /\ \E j \in 1 .. Len(st.todo) : st.todo[j].pid = p
    /\ Rooted(p) => Waits(st, p)

(* Among the first n rows is the parent of e, and since then only rows     *)
(* below that parent.                                                      *)
Under(rows, n, e) ==
  e.depth > 0 => \E j \in 1 .. n : /\ rows[j].pid = parent[e.pid] /\ rows[j].depth = e.depth - 1
                                   /\ \A k \in j + 1 .. n : rows[k].depth >= e.depth

WalkNested(st) ==
  /\ \A i, j \in 1 .. Len(st.todo) : i < j => st.todo[i].depth >= st.todo[j].depth
  /\ \A i \in 1 .. Len(st.todo) : Under(st.rows, Len(st.rows), st.todo[i])
  /\ \A i \in 1 .. Len(st.rows) : Under(st.rows, i - 1, st.rows[i])

(* Rows are visited and proper, no process has two, and what is visited    *)
(* without one is below a collapsed process.                               *)
WalkShown(st) ==
  /\ \A i \in 1 .. Len(st.rows) :
       /\ st.rows[i].pid \in st.seen /\ Proper(st.rows[i])
       /\ st.rows[i].children = (Kids(sample, parent, st.rows[i].pid) # {})
  /\ \A i, j \in 1 .. Len(st.rows) : i # j => st.rows[i].pid # st.rows[j].pid
  /\ \A q \in st.seen : \/ Ancestors(q) \cap collapsed # {}
                        \/ \E i \in 1 .. Len(st.rows) : st.rows[i].pid = q

(* Rows are in order with their mates, those to come included.             *)
WalkSorted(st) ==
  /\ \A i, j \in 1 .. Len(st.rows) : i < j /\ Mates(st.rows[i].pid, st.rows[j].pid) =>
       Before(desc, st.rows[i].pid, st.rows[j].pid)
  /\ \A i \in 1 .. Len(st.rows) : \A p \in Listed \ st.seen :
       Mates(st.rows[i].pid, p) => Before(desc, st.rows[i].pid, p)

WalkInv(st) ==
  WalkTyped(st) /\ WalkPending(st) /\ WalkNested(st) /\ WalkShown(st) /\ WalkSorted(st)

(* The rows and calls of a typed walk.                                     *)
LEMMA WalkParts ==
  ASSUME NEW st, WalkTyped(st)
  PROVE  /\ Len(st.todo) \in Nat /\ Len(st.rows) \in Nat
         /\ \A i \in 1 .. Len(st.todo) : st.todo[i].pid \in Listed /\ st.todo[i].depth \in Nat
         /\ \A i \in 1 .. Len(st.rows) : st.rows[i].pid \in Listed /\ st.rows[i].depth \in Nat
<1>1. Len(st.todo) \in Nat /\ Len(st.rows) \in Nat
  BY DEF WalkTyped
<1>2. ASSUME NEW i \in 1 .. Len(st.todo) PROVE st.todo[i].pid \in Listed /\ st.todo[i].depth \in Nat
  <2>1. st.todo[i] \in PendingCall
    BY <1>2 DEF WalkTyped
  <2> QED BY <2>1 DEF PendingCall
<1>3. ASSUME NEW i \in 1 .. Len(st.rows) PROVE st.rows[i].pid \in Listed /\ st.rows[i].depth \in Nat
  <2>1. st.rows[i] \in TreeRow
    BY <1>3 DEF WalkTyped
  <2> QED BY <2>1 DEF TreeRow
<1> QED BY <1>1, <1>2, <1>3

(* The rows after a row was added.                                         *)
LEMMA RowAdded ==
  ASSUME NEW st, WalkTyped(st), NEW nx, NEW i, Adds(st, nx, i)
  PROVE  /\ Len(nx.rows) = Len(st.rows) + 1
         /\ \A k \in 1 .. Len(st.rows) : nx.rows[k] = st.rows[k]
         /\ LET new == nx.rows[Len(st.rows) + 1] IN
              /\ new.pid = st.todo[i].pid /\ new.depth = st.todo[i].depth
              /\ new.children = (Kids(sample, parent, st.todo[i].pid) # {})
<1>1. st.rows \in Seq(TreeRow) /\ Len(st.rows) \in Nat
  BY DEF WalkTyped
<1>2. nx.rows = Append(st.rows, Row(sample, parent, st.todo[i]))
  BY DEF Adds
<1>3. /\ Len(nx.rows) = Len(st.rows) + 1
      /\ nx.rows[Len(st.rows) + 1] = Row(sample, parent, st.todo[i])
      /\ \A k \in 1 .. Len(st.rows) : nx.rows[k] = st.rows[k]
  BY <1>1, <1>2
<1> QED BY <1>3 DEF Row

(* Added rows keep what is under them.                                     *)
LEMMA UnderKept ==
  ASSUME NEW old, NEW new, NEW n \in Nat, \A k \in 1 .. n : new[k] = old[k],
         NEW e, Under(old, n, e)
  PROVE  /\ Under(new, n, e)
         /\ (new[n + 1].depth >= e.depth /\ e.depth \in Nat) => Under(new, n + 1, e)
<1>1. ASSUME e.depth > 0
      PROVE  \E j \in 1 .. n : /\ new[j].pid = parent[e.pid] /\ new[j].depth = e.depth - 1
                               /\ \A k \in j + 1 .. n : new[k].depth >= e.depth
  <2>1. PICK j \in 1 .. n : /\ old[j].pid = parent[e.pid] /\ old[j].depth = e.depth - 1
                            /\ \A k \in j + 1 .. n : old[k].depth >= e.depth
    BY <1>1 DEF Under
  <2>2. \A k \in j + 1 .. n : k \in 1 .. n
    OBVIOUS
  <2> QED BY <2>1, <2>2
<1>2. ASSUME e.depth > 0, new[n + 1].depth >= e.depth
      PROVE  \E j \in 1 .. n + 1 : /\ new[j].pid = parent[e.pid] /\ new[j].depth = e.depth - 1
                                   /\ \A k \in j + 1 .. n + 1 : new[k].depth >= e.depth
  <2>1. PICK j \in 1 .. n : /\ new[j].pid = parent[e.pid] /\ new[j].depth = e.depth - 1
                            /\ \A k \in j + 1 .. n : new[k].depth >= e.depth
    BY <1>1, <1>2
  <2>2. j \in 1 .. n + 1 /\ \A k \in j + 1 .. n + 1 : k \in j + 1 .. n \/ k = n + 1
    OBVIOUS
  <2> QED BY <1>2, <2>1, <2>2
<1> QED BY <1>1, <1>2 DEF Under

(* Where the calls of nx come from.                                        *)
LEMMA CallOrigin ==
  ASSUME NEW st, WalkTyped(st), NEW nx, NEW i, NEW c, Emits(st, nx, i, c)
  PROVE  /\ c \in Nat /\ i \in 1 .. Len(st.todo) /\ Len(nx.todo) = c + Len(st.todo) - i
         /\ \A k \in 1 .. Len(nx.todo) : k > c =>
              /\ k - c + i \in 1 .. Len(st.todo) /\ k - c + i > i
              /\ nx.todo[k] = st.todo[k - c + i]
         /\ \A k \in 1 .. Len(st.todo) : k > i =>
              k - i + c \in c + 1 .. Len(nx.todo) /\ nx.todo[k - i + c] = st.todo[k]
<1>1. Len(st.todo) \in Nat /\ i \in 1 .. Len(st.todo)
  BY WalkParts DEF Emits, FirstOpen
<1>2. /\ c \in Nat /\ Len(nx.todo) = c + Len(st.todo) - i
      /\ \A j \in c + 1 .. Len(nx.todo) : nx.todo[j] = st.todo[j - c + i]
  BY DEF Emits, Pushes
<1>3. ASSUME NEW k \in 1 .. Len(nx.todo), k > c
      PROVE  /\ k - c + i \in 1 .. Len(st.todo) /\ k - c + i > i
             /\ nx.todo[k] = st.todo[k - c + i]
  <2>1. k \in c + 1 .. Len(nx.todo)
    BY <1>1, <1>2, <1>3
  <2>2. nx.todo[k] = st.todo[k - c + i]
    BY <1>2, <2>1
  <2>3. k - c + i \in 1 .. Len(st.todo) /\ k - c + i > i
    BY <1>1, <1>2, <1>3
  <2> QED BY <2>2, <2>3
<1>4. ASSUME NEW k \in 1 .. Len(st.todo), k > i
      PROVE  k - i + c \in c + 1 .. Len(nx.todo) /\ nx.todo[k - i + c] = st.todo[k]
  <2>1. k - i + c \in c + 1 .. Len(nx.todo)
    BY <1>1, <1>2, <1>4
  <2>2. (k - i + c) - c + i = k
    BY <1>1, <1>2
  <2>3. nx.todo[k - i + c] = st.todo[(k - i + c) - c + i]
    BY <1>2, <2>1
  <2> QED BY <2>1, <2>2, <2>3
<1> QED BY <1>1, <1>2, <1>3, <1>4

(* Calls and rows stay nested: children come before all that was pending.  *)
LEMMA NestedStep ==
  ASSUME NEW st, WalkTyped(st), WalkNested(st), NEW nx, NEW i, NEW c, Emits(st, nx, i, c)
  PROVE  WalkNested(nx)
<1> DEFINE n == Len(st.rows)
           e == st.todo[i]
<1>1. /\ n \in Nat /\ i \in 1 .. Len(st.todo) /\ c \in Nat /\ e.depth \in Nat
      /\ Len(nx.todo) \in Nat
      /\ \A k \in 1 .. Len(st.todo) : st.todo[k].depth \in Nat
  <2>1. WalkTyped(nx)
    BY DEF Emits, Adds
  <2> QED BY <2>1, WalkParts, CallOrigin
<1>2. /\ Len(nx.rows) = n + 1 /\ \A k \in 1 .. n : nx.rows[k] = st.rows[k]
      /\ nx.rows[n + 1].pid = e.pid /\ nx.rows[n + 1].depth = e.depth
  <2>1. Adds(st, nx, i)
    BY DEF Emits
  <2> QED BY <2>1, RowAdded
<1>3. \A k \in 1 .. c : parent[nx.todo[k].pid] = e.pid /\ nx.todo[k].depth = e.depth + 1
  BY DEF Emits, Pushes
<1>4. \A k \in 1 .. Len(nx.todo) : k > c =>
        /\ k - c + i \in 1 .. Len(st.todo) /\ k - c + i > i
        /\ nx.todo[k] = st.todo[k - c + i]
  BY CallOrigin
<1>5. /\ \A a, b \in 1 .. Len(st.todo) : a < b => st.todo[a].depth >= st.todo[b].depth
      /\ \A k \in 1 .. Len(st.todo) : Under(st.rows, n, st.todo[k])
      /\ \A k \in 1 .. n : Under(st.rows, k - 1, st.rows[k])
  BY DEF WalkNested
<1> HIDE DEF n, e
<1>6. ASSUME NEW a \in 1 .. Len(nx.todo), NEW b \in 1 .. Len(nx.todo), a < b
      PROVE  nx.todo[a].depth >= nx.todo[b].depth
  <2>1. CASE b <= c
    <3>1. a \in 1 .. c /\ b \in 1 .. c
      BY <1>1, <1>6, <2>1
    <3> QED BY <1>1, <1>3, <3>1
  <2>2. CASE b > c
    <3>1. b - c + i \in 1 .. Len(st.todo) /\ b - c + i > i /\ nx.todo[b] = st.todo[b - c + i]
      BY <1>4, <2>2
    <3>2. CASE a <= c
      <4>1. nx.todo[a].depth = e.depth + 1
        BY <1>1, <1>3, <3>2
      <4>2. e.depth >= nx.todo[b].depth /\ nx.todo[b].depth \in Nat
        BY <1>1, <1>5, <3>1 DEF e
      <4> QED BY <1>1, <4>1, <4>2
    <3>3. CASE a > c
      <4>1. a - c + i \in 1 .. Len(st.todo) /\ nx.todo[a] = st.todo[a - c + i]
        BY <1>4, <3>3
      <4>2. a - c + i < b - c + i
        BY <1>1, <1>6
      <4> QED BY <1>5, <3>1, <4>1, <4>2
    <3> QED BY <1>1, <3>2, <3>3
  <2> QED BY <1>1, <2>1, <2>2
<1>7. ASSUME NEW k \in 1 .. Len(nx.todo) PROVE Under(nx.rows, n + 1, nx.todo[k])
  <2>1. CASE k <= c
    <3>1. parent[nx.todo[k].pid] = e.pid /\ nx.todo[k].depth = e.depth + 1
      BY <1>1, <1>3, <2>1
    <3>2. n + 1 \in 1 .. n + 1 /\ (n + 1) + 1 .. n + 1 = {}
      BY <1>1
    <3>3. nx.rows[n + 1].depth = nx.todo[k].depth - 1
      BY <1>1, <1>2, <3>1
    <3> QED BY <1>2, <3>1, <3>2, <3>3 DEF Under
  <2>2. CASE k > c
    <3> DEFINE f == st.todo[k - c + i]
    <3>1. nx.todo[k] = f /\ Under(st.rows, n, f) /\ f.depth \in Nat /\ e.depth >= f.depth
      BY <1>1, <1>4, <1>5, <2>2 DEF e
    <3> HIDE DEF f
    <3> QED BY <1>1, <1>2, <3>1, UnderKept
  <2> QED BY <1>1, <2>1, <2>2
<1>8. ASSUME NEW k \in 1 .. n + 1 PROVE Under(nx.rows, k - 1, nx.rows[k])
  <2>1. CASE k <= n
    <3>1. /\ k - 1 \in Nat /\ k \in 1 .. n /\ \A j \in 1 .. k - 1 : nx.rows[j] = st.rows[j]
      BY <1>1, <1>2, <2>1
    <3>2. Under(st.rows, k - 1, st.rows[k]) /\ nx.rows[k] = st.rows[k]
      BY <1>2, <1>5, <3>1
    <3> QED BY <3>1, <3>2, UnderKept
  <2>2. CASE k = n + 1
    <3>1. Under(st.rows, n, e)
      BY <1>1, <1>5 DEF e
    <3>2. Under(nx.rows, n, e)
      BY <1>1, <1>2, <3>1, UnderKept
    <3>3. k - 1 = n /\ nx.rows[k].pid = e.pid /\ nx.rows[k].depth = e.depth
      BY <1>1, <1>2, <2>2
    <3> QED BY <3>2, <3>3 DEF Under
  <2> QED BY <1>1, <2>1, <2>2
<1> QED BY <1>2, <1>6, <1>7, <1>8 DEF WalkNested

(* As long as a process with no cycle above it is unvisited, the next call *)
(* is for one that is at its level: the highest of them all waits for a    *)
(* call of its own.                                                        *)
LEMMA NextIsProper ==
  ASSUME Input, NEW st, WalkTyped(st), WalkPending(st), NEW i, FirstOpen(st, i)
  PROVE  Proper(st.todo[i])
<1> DEFINE open == {q \in Listed \ st.seen : Rooted(q)}
           T == {Level(q) : q \in open}
<1>1. SUFFICES ASSUME Rooted(st.todo[i].pid) PROVE Proper(st.todo[i])
  BY DEF Proper
<1>2. i \in 1 .. Len(st.todo) /\ st.todo[i].pid \in open
  BY <1>1, WalkParts DEF FirstOpen
<1>3. T \subseteq Nat /\ T # {}
  BY <1>2, LevelStep
<1>4. PICK q \in open : \A r \in open : ~(Level(r) < Level(q))
  <2>1. PICK m \in T : \A k \in T : ~(k < m)
    <3> HIDE DEF T
    <3> QED BY <1>3, LeastNumber
  <2> QED BY <2>1
<1>5. parent[q] \notin Listed \ st.seen
  <2>1. SUFFICES ASSUME parent[q] \in Listed \ st.seen PROVE FALSE
    OBVIOUS
  <2>2. Rooted(parent[q]) /\ Level(q) = Level(parent[q]) + 1 /\ Level(parent[q]) \in Nat
    BY <1>4, <2>1, LevelStep
  <2> QED BY <1>4, <2>1, <2>2
<1>6. PICK j \in 1 .. Len(st.todo) : st.todo[j].pid = q /\ Fine(st, j)
  BY <1>4, <1>5 DEF WalkPending, Waits
<1>7. i <= j
  <2>1. j \notin 1 .. i - 1
    BY <1>4, <1>6 DEF FirstOpen
  <2> QED BY <1>2, <1>6, <2>1
<1> QED BY <1>2, <1>6, <1>7 DEF Fine

(* What the next call's process and its place tell.                        *)
LEMMA CallFacts ==
  ASSUME Input, NEW st, WalkTyped(st), WalkPending(st), WalkNested(st), WalkShown(st),
         NEW nx, NEW i, NEW c, Emits(st, nx, i, c)
  PROVE  LET e == st.todo[i] IN
         /\ Proper(e) /\ e.pid \in Listed \ st.seen /\ e.depth \in Nat
         /\ \A j \in 1 .. Len(st.todo) : st.todo[j].pid \notin nx.seen => j > i
         /\ \A k \in 1 .. Len(st.todo) :
              Rooted(st.todo[k].pid) /\ Proper(st.todo[k]) /\ parent[st.todo[k].pid] \in Listed =>
                parent[st.todo[k].pid] \in st.seen
<1> DEFINE e == st.todo[i]
<1>1. FirstOpen(st, i) /\ i \in 1 .. Len(st.todo)
  BY DEF Emits, FirstOpen
<1>2. Proper(e)
  BY <1>1, NextIsProper
<1>3. e.pid \in Listed \ st.seen /\ e.depth \in Nat
  BY <1>1, WalkParts DEF FirstOpen
<1>4. ASSUME NEW j \in 1 .. Len(st.todo), st.todo[j].pid \notin nx.seen PROVE j > i
  <2>1. j # i /\ st.todo[j].pid \notin st.seen
    BY <1>4 DEF Emits, Flags
  <2>2. j \notin 1 .. i - 1
    BY <1>1, <2>1 DEF FirstOpen
  <2> QED BY <1>1, <1>4, <2>1, <2>2
<1>5. ASSUME NEW k \in 1 .. Len(st.todo), Rooted(st.todo[k].pid), Proper(st.todo[k]),
             parent[st.todo[k].pid] \in Listed
      PROVE  parent[st.todo[k].pid] \in st.seen
  <2> DEFINE f == st.todo[k]
  <2>1. f.depth = Level(f.pid) /\ Level(f.pid) \in Nat /\ Level(f.pid) # 0
    BY <1>5, LevelStep DEF Proper
  <2>2. Under(st.rows, Len(st.rows), f) /\ f.depth > 0
    <3>1. Under(st.rows, Len(st.rows), f)
      BY DEF WalkNested
    <3> HIDE DEF f
    <3> QED BY <2>1, <3>1
  <2>3. PICK j \in 1 .. Len(st.rows) : st.rows[j].pid = parent[f.pid]
    BY <2>2 DEF Under
  <2> QED BY <2>3 DEF WalkShown
<1> QED BY <1>2, <1>3, <1>4, <1>5

(* The children of a proper process that is not collapsed are proper.      *)
LEMMA KidsAreProper ==
  ASSUME Input, NEW e, Proper(e), e.pid \in Listed, e.depth \in Nat, e.pid \notin collapsed,
         NEW f, parent[f.pid] = e.pid, f.depth = e.depth + 1
  PROVE  Proper(f)
<1> SUFFICES ASSUME Rooted(f.pid)
             PROVE  f.depth = Level(f.pid) /\ Ancestors(f.pid) \cap collapsed = {}
  BY DEF Proper
<1>1. Rooted(e.pid) /\ Level(f.pid) = Level(e.pid) + 1
  BY LevelStep
<1>2. e.depth = Level(e.pid) /\ Ancestors(e.pid) \cap collapsed = {}
  BY <1>1 DEF Proper
<1>3. Ancestors(f.pid) = {e.pid} \cup Ancestors(e.pid)
  BY AncestorsStep
<1> QED BY <1>1, <1>2, <1>3

(* Who is unvisited still waits in its place.                              *)
LEMMA PendingStep ==
  ASSUME Input, NEW st, WalkTyped(st), WalkPending(st), WalkNested(st), WalkShown(st),
         NEW nx, NEW i, NEW c, Emits(st, nx, i, c)
  PROVE  WalkPending(nx)
<1> DEFINE e == st.todo[i]
<1>1. /\ c \in Nat /\ i \in 1 .. Len(st.todo)
      /\ Len(st.todo) \in Nat /\ Len(nx.todo) = c + Len(st.todo) - i
      /\ \A k \in 1 .. Len(nx.todo) : k > c =>
           /\ k - c + i \in 1 .. Len(st.todo) /\ k - c + i > i
           /\ nx.todo[k] = st.todo[k - c + i]
      /\ \A k \in 1 .. Len(st.todo) : k > i =>
           k - i + c \in c + 1 .. Len(nx.todo) /\ nx.todo[k - i + c] = st.todo[k]
  BY CallOrigin, WalkParts
<1>2. /\ Proper(e) /\ e.pid \in Listed \ st.seen /\ e.depth \in Nat
      /\ \A j \in 1 .. Len(st.todo) : st.todo[j].pid \notin nx.seen => j > i
      /\ \A k \in 1 .. Len(st.todo) :
           Rooted(st.todo[k].pid) /\ Proper(st.todo[k]) /\ parent[st.todo[k].pid] \in Listed =>
             parent[st.todo[k].pid] \in st.seen
  BY CallFacts
<1>3. /\ st.seen \cup {e.pid} \subseteq nx.seen
      /\ e.pid \in collapsed => \A k \in Listed \ nx.seen : parent[k] \notin nx.seen \ st.seen
      /\ e.pid \notin collapsed => nx.seen = st.seen \cup {e.pid}
  BY DEF Emits, Flags
<1>4. /\ \A k \in 1 .. c : /\ e.pid \notin collapsed /\ parent[nx.todo[k].pid] = e.pid
                           /\ nx.todo[k].depth = e.depth + 1
      /\ \A j, k \in 1 .. c : j < k => Before(desc, nx.todo[j].pid, nx.todo[k].pid)
      /\ e.pid \notin collapsed =>
           \A k \in Listed : parent[k] = e.pid => \E j \in 1 .. c : nx.todo[j].pid = k
  BY DEF Emits, Pushes
<1> HIDE DEF e
<1>5. \A k \in 1 .. c : Proper(nx.todo[k])
  BY <1>2, <1>4, KidsAreProper
<1>6. ASSUME NEW j \in 1 .. c PROVE Fine(nx, j)
  <2>1. \A k \in 1 .. j : k \in 1 .. c
    BY <1>1
  <2> QED BY <1>4, <1>5, <2>1 DEF Fine
<1>7. ASSUME NEW j \in 1 .. Len(st.todo), j > i, Fine(st, j) PROVE Fine(nx, j - i + c)
  <2>1. j - i + c \in c + 1 .. Len(nx.todo)
    BY <1>1, <1>7
  <2>2. ASSUME NEW k \in 1 .. j - i + c, k > c
        PROVE  /\ k - c + i \in 1 .. j /\ k - c + i \in 1 .. Len(st.todo)
               /\ nx.todo[k] = st.todo[k - c + i]
    <3>1. k \in 1 .. Len(nx.todo) /\ k - c + i <= j
      BY <1>1, <1>7, <2>1, <2>2
    <3>2. k - c + i \in 1 .. Len(st.todo) /\ nx.todo[k] = st.todo[k - c + i]
      BY <1>1, <2>2, <3>1
    <3> QED BY <1>1, <1>7, <3>1, <3>2
  <2>3. ASSUME NEW k \in 1 .. j - i + c PROVE Proper(nx.todo[k])
    <3>1. CASE k <= c
      BY <1>1, <1>5, <3>1
    <3>2. CASE k > c
      BY <1>7, <2>2, <3>2 DEF Fine
    <3> QED BY <1>1, <3>1, <3>2
  <2>4. ASSUME NEW x \in 1 .. j - i + c, NEW y \in 1 .. j - i + c, x < y,
               Mates(nx.todo[x].pid, nx.todo[y].pid)
        PROVE  Before(desc, nx.todo[x].pid, nx.todo[y].pid)
    <3>1. CASE y <= c
      BY <1>1, <1>4, <2>4, <3>1
    <3>2. CASE x > c
      <4>1. y > c /\ x - c + i < y - c + i
        BY <1>1, <2>4, <3>2
      <4> QED BY <1>7, <2>2, <2>4, <3>2, <4>1 DEF Fine
    <3>3. CASE x <= c /\ y > c
      <4>1. parent[nx.todo[x].pid] = e.pid /\ e.pid \in Listed \ st.seen
        BY <1>1, <1>2, <1>4, <3>3
      <4>2. Rooted(nx.todo[y].pid) /\ parent[nx.todo[y].pid] = e.pid
        BY <2>4, <4>1 DEF Mates
      <4>3. y - c + i \in 1 .. Len(st.todo) /\ nx.todo[y] = st.todo[y - c + i] /\ Proper(nx.todo[y])
        BY <2>2, <2>3, <3>3
      <4>4. parent[nx.todo[y].pid] \in st.seen
        BY <1>2, <4>1, <4>2, <4>3
      <4> QED BY <4>1, <4>2, <4>4
    <3> QED BY <1>1, <3>1, <3>2, <3>3
  <2> QED BY <2>3, <2>4 DEF Fine
<1>8. ASSUME NEW p \in Listed \ nx.seen
      PROVE  \E j \in 1 .. Len(nx.todo) : nx.todo[j].pid = p
  <2>1. PICK j \in 1 .. Len(st.todo) : st.todo[j].pid = p
    BY <1>3 DEF WalkPending
  <2>2. j > i
    BY <1>2, <2>1
  <2>3. j - i + c \in 1 .. Len(nx.todo) /\ nx.todo[j - i + c] = st.todo[j]
    <3>1. j - i + c \in c + 1 .. Len(nx.todo) /\ nx.todo[j - i + c] = st.todo[j]
      BY <1>1, <2>2
    <3> QED BY <1>1, <3>1
  <2> QED BY <2>1, <2>3
<1>9. ASSUME NEW p \in Listed \ nx.seen, Rooted(p) PROVE Waits(nx, p)
  <2>1. Waits(st, p)
    BY <1>3, <1>9 DEF WalkPending
  <2>2. CASE \E j \in 1 .. Len(st.todo) : st.todo[j].pid = p /\ Fine(st, j)
    <3>1. PICK j \in 1 .. Len(st.todo) : st.todo[j].pid = p /\ Fine(st, j)
      BY <2>2
    <3>2. j > i
      BY <1>2, <3>1
    <3>3. j - i + c \in 1 .. Len(nx.todo) /\ nx.todo[j - i + c] = st.todo[j]
      <4>1. j - i + c \in c + 1 .. Len(nx.todo) /\ nx.todo[j - i + c] = st.todo[j]
        BY <1>1, <3>2
      <4> QED BY <1>1, <4>1
    <3> QED BY <1>7, <3>1, <3>2, <3>3 DEF Waits
  <2>3. CASE parent[p] \in Listed \ st.seen
    <3>1. CASE parent[p] \notin nx.seen
      BY <2>3, <3>1 DEF Waits
    <3>2. CASE parent[p] \in nx.seen
      <4>1. e.pid \notin collapsed /\ parent[p] = e.pid
        BY <1>3, <2>3, <3>2
      <4>2. PICK j \in 1 .. c : nx.todo[j].pid = p
        BY <1>4, <4>1
      <4>3. j \in 1 .. Len(nx.todo)
        BY <1>1
      <4> QED BY <1>6, <4>2, <4>3 DEF Waits
    <3> QED BY <3>1, <3>2
  <2> QED BY <2>1, <2>2, <2>3 DEF Waits
<1> QED BY <1>8, <1>9 DEF WalkPending

(* The new row is visited, proper and its process's only one.              *)
LEMMA ShownStep ==
  ASSUME Input, NEW st, WalkTyped(st), WalkPending(st), WalkNested(st), WalkShown(st),
         NEW nx, NEW i, NEW c, Emits(st, nx, i, c)
  PROVE  WalkShown(nx)
<1> DEFINE n == Len(st.rows)
           e == st.todo[i]
<1>1. n \in Nat /\ Proper(e) /\ e.pid \in Listed \ st.seen
  BY CallFacts, WalkParts
<1>2. /\ Len(nx.rows) = n + 1 /\ \A k \in 1 .. n : nx.rows[k] = st.rows[k]
      /\ nx.rows[n + 1].pid = e.pid /\ nx.rows[n + 1].depth = e.depth
      /\ nx.rows[n + 1].children = (Kids(sample, parent, e.pid) # {})
  <2>1. Adds(st, nx, i)
    BY DEF Emits
  <2>2. Len(nx.rows) = n + 1 /\ \A k \in 1 .. n : nx.rows[k] = st.rows[k]
    BY <2>1, RowAdded
  <2>3. nx.rows[n + 1].pid = e.pid /\ nx.rows[n + 1].depth = e.depth
    BY <2>1, RowAdded
  <2>4. nx.rows[n + 1].children = (Kids(sample, parent, e.pid) # {})
    BY <2>1, RowAdded, Zenon
  <2> QED BY <2>2, <2>3, <2>4, Zenon
<1>3. /\ st.seen \cup {e.pid} \subseteq nx.seen
      /\ \A q \in nx.seen \ st.seen : q = e.pid \/ (e.pid \in collapsed /\ e.pid \in Ancestors(q))
  BY DEF Emits, Flags
<1>4. /\ \A k \in 1 .. n : st.rows[k].pid \in st.seen /\ Proper(st.rows[k])
           /\ st.rows[k].children = (Kids(sample, parent, st.rows[k].pid) # {})
      /\ \A j, k \in 1 .. n : j # k => st.rows[j].pid # st.rows[k].pid
      /\ \A q \in st.seen : Ancestors(q) \cap collapsed # {} \/ \E k \in 1 .. n : st.rows[k].pid = q
  BY DEF WalkShown
<1>5. Proper(nx.rows[n + 1])
  BY <1>1, <1>2 DEF Proper
<1> HIDE DEF n, e
<1>6. \A k \in 1 .. n + 1 : k \in 1 .. n \/ k = n + 1
  BY <1>1
<1>7. n + 1 \in 1 .. n + 1 /\ \A k \in 1 .. n : k \in 1 .. n + 1
  BY <1>1
<1>8. \A k \in 1 .. n + 1 : /\ nx.rows[k].pid \in nx.seen /\ Proper(nx.rows[k])
                            /\ nx.rows[k].children = (Kids(sample, parent, nx.rows[k].pid) # {})
  BY <1>2, <1>3, <1>4, <1>5, <1>6
<1>9. \A j, k \in 1 .. n + 1 : j # k => nx.rows[j].pid # nx.rows[k].pid
  BY <1>1, <1>2, <1>4, <1>6
<1>10. ASSUME NEW q \in nx.seen
       PROVE  Ancestors(q) \cap collapsed # {} \/ \E k \in 1 .. n + 1 : nx.rows[k].pid = q
  BY <1>2, <1>3, <1>4, <1>7
<1> QED BY <1>2, <1>8, <1>9, <1>10 DEF WalkShown

(* The new row comes before its mates that have none yet.                  *)
LEMMA SortedStep ==
  ASSUME Input, NEW st, WalkTyped(st), WalkPending(st), WalkNested(st), WalkShown(st),
         WalkSorted(st), NEW nx, NEW i, NEW c, Emits(st, nx, i, c)
  PROVE  WalkSorted(nx)
<1> DEFINE n == Len(st.rows)
           e == st.todo[i]
<1>1. /\ n \in Nat /\ i \in 1 .. Len(st.todo) /\ Proper(e) /\ e.pid \in Listed \ st.seen
      /\ \A j \in 1 .. Len(st.todo) : st.todo[j].pid \notin nx.seen => j > i
      /\ \A k \in 1 .. Len(st.todo) :
           Rooted(st.todo[k].pid) /\ Proper(st.todo[k]) /\ parent[st.todo[k].pid] \in Listed =>
             parent[st.todo[k].pid] \in st.seen
  BY CallFacts, CallOrigin, WalkParts
<1>2. /\ Len(nx.rows) = n + 1 /\ \A k \in 1 .. n : nx.rows[k] = st.rows[k]
      /\ nx.rows[n + 1].pid = e.pid
  <2>1. Adds(st, nx, i)
    BY DEF Emits
  <2> QED BY <2>1, RowAdded
<1>3. st.seen \cup {e.pid} \subseteq nx.seen
  BY DEF Emits, Flags
<1>4. ASSUME NEW p \in Listed \ nx.seen, Mates(e.pid, p) PROVE Before(desc, e.pid, p)
  <2>1. Waits(st, p)
    BY <1>3, <1>4 DEF WalkPending, Mates
  <2>2. parent[p] \notin Listed \ st.seen
    BY <1>1, <1>4 DEF Mates
  <2>3. PICK j \in 1 .. Len(st.todo) : st.todo[j].pid = p /\ Fine(st, j)
    BY <2>1, <2>2 DEF Waits
  <2>4. j > i
    BY <1>1, <1>4, <2>3
  <2>5. i \in 1 .. j /\ j \in 1 .. j
    BY <1>1, <2>4
  <2> QED BY <1>4, <2>3, <2>4, <2>5 DEF Fine
<1>5. /\ \A j, k \in 1 .. n : j < k /\ Mates(st.rows[j].pid, st.rows[k].pid) =>
           Before(desc, st.rows[j].pid, st.rows[k].pid)
      /\ \A k \in 1 .. n : \A p \in Listed \ st.seen :
           Mates(st.rows[k].pid, p) => Before(desc, st.rows[k].pid, p)
  BY DEF WalkSorted
<1> HIDE DEF n, e
<1>6. \A k \in 1 .. n + 1 : k \in 1 .. n \/ k = n + 1
  BY <1>1
<1>7. ASSUME NEW k \in 1 .. n + 1, NEW p \in Listed \ nx.seen, Mates(nx.rows[k].pid, p)
      PROVE  Before(desc, nx.rows[k].pid, p)
  BY <1>2, <1>3, <1>4, <1>5, <1>6, <1>7
<1>8. ASSUME NEW j \in 1 .. n + 1, NEW k \in 1 .. n + 1, j < k, Mates(nx.rows[j].pid, nx.rows[k].pid)
      PROVE  Before(desc, nx.rows[j].pid, nx.rows[k].pid)
  <2>1. j \in 1 .. n
    BY <1>1, <1>8
  <2>2. CASE k \in 1 .. n
    BY <1>2, <1>5, <1>8, <2>1, <2>2
  <2>3. CASE k = n + 1
    BY <1>1, <1>2, <1>5, <1>8, <2>1, <2>3
  <2> QED BY <1>6, <2>2, <2>3
<1> QED BY <1>2, <1>7, <1>8 DEF WalkSorted

-----------------------------------------------------------------------------
(* The whole walk.                                                         *)

(* It starts with the roots, at level 0 and in order.                      *)
LEMMA StartInv ==
  ASSUME Input
  PROVE  WalkInv(Start(sample, parent, desc))
<1> DEFINE st == Start(sample, parent, desc)
           R == {p \in Listed : parent[p] \notin Listed}
           roots == Calls(R, desc, 0)
           all == [i \in DOMAIN sample |-> [pid |-> sample[i], depth |-> 0]]
<1>1. st.rows = <<>> /\ st.seen = {} /\ st.todo = roots \o all
  BY DEF Start, Listed
<1>2. CallsFor(roots, R, 0)
  BY CallsAreSorted
<1>3. /\ all \in Seq(PendingCall) /\ Len(all) = Len(sample) /\ Len(sample) \in Nat
      /\ \A i \in 1 .. Len(sample) : all[i].pid = sample[i] /\ all[i].depth = 0
  <2>1. Len(sample) \in Nat /\ DOMAIN sample = 1 .. Len(sample)
    BY DEF Input
  <2>2. \A i \in 1 .. Len(sample) : sample[i] \in Listed
    BY <2>1 DEF Listed, ToSet
  <2>3. all \in [1 .. Len(sample) -> PendingCall]
    BY <2>1, <2>2 DEF PendingCall
  <2> QED BY <2>1, <2>3
<1> DEFINE c == Len(roots)
<1>4. roots \in Seq(PendingCall) /\ c \in Nat
  BY <1>2 DEF CallsFor
<1> HIDE DEF roots, all, st
<1>5. /\ st.todo \in Seq(PendingCall) /\ Len(st.todo) = c + Len(sample)
      /\ \A j \in 1 .. c : st.todo[j] = roots[j]
      /\ \A j \in 1 .. Len(sample) : st.todo[c + j] = all[j]
  <2>1. st.todo \in Seq(PendingCall) /\ Len(st.todo) = c + Len(all)
    BY <1>1, <1>3, <1>4, ConcatProperties
  <2>2. \A j \in 1 .. c + Len(all) : st.todo[j] = IF j <= c THEN roots[j] ELSE all[j - c]
    BY <1>1, <1>3, <1>4, ConcatProperties
  <2> HIDE DEF c
  <2>3. \A j \in 1 .. c : st.todo[j] = roots[j]
    BY <1>3, <1>4, <2>2
  <2>4. ASSUME NEW j \in 1 .. Len(sample) PROVE st.todo[c + j] = all[j]
    <3>1. c + j \in 1 .. c + Len(all) /\ ~(c + j <= c) /\ (c + j) - c = j
      BY <1>3, <1>4
    <3> QED BY <2>2, <3>1
  <2> QED BY <1>3, <2>1, <2>3, <2>4
<1>6. /\ \A j \in 1 .. c : st.todo[j].pid \in R /\ st.todo[j].depth = 0
      /\ \A j, k \in 1 .. c : j < k => Before(desc, st.todo[j].pid, st.todo[k].pid)
      /\ \A x \in R : \E j \in 1 .. c : st.todo[j].pid = x
  BY <1>2, <1>5 DEF CallsFor
<1>7. \A j \in 1 .. Len(sample) : st.todo[c + j].pid = sample[j] /\ st.todo[c + j].depth = 0
  BY <1>3, <1>5
<1> HIDE DEF c
<1>8. WalkTyped(st)
  BY <1>1, <1>5 DEF WalkTyped
<1>9. \A j \in 1 .. Len(st.todo) : st.todo[j].depth = 0
  <2>1. ASSUME NEW j \in 1 .. Len(st.todo) PROVE st.todo[j].depth = 0
    <3>1. CASE j <= c
      BY <1>4, <1>6, <3>1
    <3>2. CASE j > c
      <4>1. j - c \in 1 .. Len(sample) /\ c + (j - c) = j
        BY <1>3, <1>4, <1>5, <3>2
      <4> QED BY <1>7, <4>1
    <3> QED BY <1>4, <3>1, <3>2
  <2> QED BY <2>1
<1>10. WalkNested(st)
  <2>1. Len(st.rows) = 0
    BY <1>1
  <2> QED BY <1>9, <2>1 DEF WalkNested, Under
<1>11. WalkShown(st) /\ WalkSorted(st)
  <2>1. Len(st.rows) = 0 /\ 1 .. 0 = {}
    BY <1>1
  <2> QED BY <1>1, <2>1 DEF WalkShown, WalkSorted
<1>12. ASSUME NEW p \in Listed PROVE \E j \in 1 .. Len(st.todo) : st.todo[j].pid = p
  <2>1. PICK i \in 1 .. Len(sample) : sample[i] = p
    <3>1. DOMAIN sample = 1 .. Len(sample)
      BY DEF Input
    <3> QED BY <3>1 DEF Listed, ToSet
  <2>2. c + i \in 1 .. Len(st.todo)
    BY <1>3, <1>4, <1>5
  <2> QED BY <1>7, <2>1, <2>2
<1>13. ASSUME NEW p \in Listed PROVE Waits(st, p)
  <2>1. CASE parent[p] \in Listed
    BY <1>1, <2>1 DEF Waits
  <2>2. CASE parent[p] \notin Listed
    <3>1. PICK j \in 1 .. c : st.todo[j].pid = p
      BY <1>6, <2>2
    <3>2. \A k \in 1 .. j : k \in 1 .. c
      BY <1>4
    <3>3. ASSUME NEW k \in 1 .. j PROVE Proper(st.todo[k])
      <4>1. st.todo[k].pid \in R /\ st.todo[k].depth = 0
        BY <1>6, <3>2
      <4> QED BY <4>1, LevelStep, AncestorsStep DEF Proper
    <3>4. Fine(st, j)
      BY <1>6, <3>2, <3>3 DEF Fine
    <3>5. j \in 1 .. Len(st.todo)
      BY <1>3, <1>4, <1>5
    <3> QED BY <3>1, <3>4, <3>5 DEF Waits
  <2> QED BY <2>1, <2>2
<1>14. WalkPending(st)
  BY <1>12, <1>13 DEF WalkPending
<1> QED BY <1>8, <1>10, <1>11, <1>14 DEF WalkInv, st

(* A step of it visits another process, as long as there is one.           *)
LEMMA WalkStep ==
  ASSUME Input, NEW st, WalkInv(st)
  PROVE  LET nx == Walk(sample, parent, desc, collapsed, st) IN
         /\ WalkInv(nx) /\ st.seen \subseteq nx.seen
         /\ Listed \subseteq st.seen \/ \E p \in Listed \ st.seen : p \in nx.seen
<1> DEFINE open == {i \in DOMAIN st.todo : st.todo[i].pid \notin st.seen}
           nx == Walk(sample, parent, desc, collapsed, st)
           first == CHOOSE i \in open : \A j \in open : i <= j
<1>1. /\ WalkTyped(st) /\ WalkPending(st) /\ WalkNested(st) /\ WalkShown(st) /\ WalkSorted(st)
      /\ Len(st.todo) \in Nat /\ DOMAIN st.todo = 1 .. Len(st.todo)
  BY DEF WalkInv, WalkTyped
<1>2. CASE open = {}
  <2>1. nx = st
    BY <1>2 DEF Walk
  <2>2. Listed \subseteq st.seen
    BY <1>1, <1>2 DEF WalkPending
  <2> QED BY <2>1, <2>2
<1>3. CASE open # {}
  <2>1. nx = Emit(sample, parent, desc, collapsed, st, first)
    BY <1>3 DEF Walk
  <2>2. open \subseteq Nat
    BY <1>1
  <2>3. \E i \in open : \A j \in open : i <= j
    <3>1. PICK i \in open : \A j \in open : ~(j < i)
      <4> HIDE DEF open
      <4> QED BY <1>3, <2>2, LeastNumber
    <3>2. \A j \in open : i <= j
      BY <2>2, <3>1
    <3> QED BY <3>2
  <2>4. first \in open /\ \A j \in open : first <= j
    <3> HIDE DEF open
    <3> QED BY <2>3
  <2> HIDE DEF first, nx
  <2>5. FirstOpen(st, first)
    <3>1. first \in 1 .. Len(st.todo) /\ st.todo[first].pid \notin st.seen
      BY <1>1, <2>4
    <3>2. ASSUME NEW j \in 1 .. first - 1 PROVE st.todo[j].pid \in st.seen
      <4>1. j \in DOMAIN st.todo /\ ~(first <= j)
        BY <1>1, <3>1
      <4> QED BY <2>4, <4>1
    <3> QED BY <3>1, <3>2 DEF FirstOpen
  <2>6. PICK c : Emits(st, nx, first, c)
    BY <1>1, <2>1, <2>5, EmitEmits
  <2>7. WalkTyped(nx)
    BY <2>6 DEF Emits, Adds
  <2>8. WalkNested(nx)
    BY <1>1, <2>6, NestedStep
  <2>9. WalkPending(nx)
    BY <1>1, <2>6, PendingStep
  <2>10. WalkShown(nx)
    BY <1>1, <2>6, ShownStep
  <2>11. WalkSorted(nx)
    BY <1>1, <2>6, SortedStep
  <2>12. /\ st.seen \subseteq nx.seen
         /\ st.todo[first].pid \in Listed \ st.seen /\ st.todo[first].pid \in nx.seen
    <3>1. st.todo[first].pid \in Listed \ st.seen
      BY <1>1, <2>5, WalkParts DEF FirstOpen
    <3> QED BY <2>6, <3>1 DEF Emits, Flags
  <2> QED BY <2>7, <2>8, <2>9, <2>10, <2>11, <2>12 DEF WalkInv, nx
<1> QED BY <1>2, <1>3

(* The recursive definition of Walked, with n rows.                        *)
AreWalks(f, n) ==
  f = [k \in 0 .. n |-> IF k = 0 THEN Start(sample, parent, desc)
                        ELSE Walk(sample, parent, desc, collapsed, f[k - 1])]

(* Such a function exists: the walk of k + 1 rows extends that of k.       *)
LEMMA WalksExist ==
  ASSUME NEW n \in Nat
  PROVE  \E f : AreWalks(f, n)
<1> DEFINE S == {k \in 0 .. n : \E f : AreWalks(f, k)}
<1>1. 0 \in S
  <2>1. AreWalks([k \in 0 .. 0 |-> Start(sample, parent, desc)], 0)
    BY DEF AreWalks
  <2> QED BY <2>1
<1>2. ASSUME NEW k \in 0 .. n - 1, k \in S PROVE k + 1 \in S
  <2>1. PICK f : AreWalks(f, k)
    BY <1>2
  <2> DEFINE g == [i \in 0 .. k + 1 |-> IF i = k + 1 THEN Walk(sample, parent, desc, collapsed, f[k])
                                        ELSE f[i]]
  <2>2. ASSUME NEW i \in 0 .. k + 1
        PROVE  g[i] = IF i = 0 THEN Start(sample, parent, desc)
                      ELSE Walk(sample, parent, desc, collapsed, g[i - 1])
    BY <2>1 DEF AreWalks
  <2>3. AreWalks(g, k + 1)
    BY <2>2 DEF AreWalks
  <2> QED BY <2>3
<1> HIDE DEF S
<1>3. n \in S
  BY <1>1, <1>2, Climb
<1> QED BY <1>3 DEF S

(* The walk reaches everyone: after as many rows as there are processes    *)
(* nobody is left, and WalkInv holds.                                      *)
LEMMA WalkEnds ==
  ASSUME Input
  PROVE  \E st : /\ BuildTree(sample, parent, desc, collapsed) = st.rows
                 /\ WalkInv(st) /\ Listed \subseteq st.seen
<1> DEFINE w == Walked(sample, parent, desc, collapsed)
           n == Len(sample)
           S == {k \in 0 .. n : /\ WalkInv(w[k])
                                /\ Listed \subseteq w[k].seen \/ Cardinality(w[k].seen) >= k}
<1>1. n \in Nat /\ n = Cardinality(Listed) /\ IsFiniteSet(Listed)
  BY ListedPids DEF Input
<1>2. AreWalks(w, n)
  <2>1. \E f : AreWalks(f, n)
    BY <1>1, WalksExist
  <2>2. w = CHOOSE f : AreWalks(f, n)
    BY DEF Walked, AreWalks
  <2> HIDE DEF w, n
  <2> QED BY <2>1, <2>2
<1> HIDE DEF w, n
<1>3. /\ w[0] = Start(sample, parent, desc)
      /\ \A k \in 1 .. n : w[k] = Walk(sample, parent, desc, collapsed, w[k - 1])
  BY <1>1, <1>2 DEF AreWalks
<1>4. 0 \in S
  <2>1. WalkInv(w[0])
    BY <1>3, StartInv
  <2>2. w[0].seen = {}
    BY <1>3 DEF Start
  <2>3. Cardinality(w[0].seen) = 0
    BY <2>2, FS_EmptySet
  <2> QED BY <1>1, <2>1, <2>3
<1>5. ASSUME NEW k \in 0 .. n - 1, k \in S PROVE k + 1 \in S
  <2>1. k + 1 \in 1 .. n /\ (k + 1) - 1 = k /\ k + 1 \in 0 .. n
    BY <1>1
  <2> DEFINE st == w[k]
             nx == w[k + 1]
  <2>2. nx = Walk(sample, parent, desc, collapsed, st)
    BY <1>3, <2>1
  <2>3. WalkInv(st) /\ (Listed \subseteq st.seen \/ Cardinality(st.seen) >= k)
    BY <1>5
  <2> HIDE DEF st, nx, S
  <2>4. /\ WalkInv(nx) /\ st.seen \subseteq nx.seen
        /\ Listed \subseteq st.seen \/ \E p \in Listed \ st.seen : p \in nx.seen
    BY <2>2, <2>3, WalkStep
  <2>5. CASE Listed \subseteq st.seen
    BY <2>1, <2>4, <2>5 DEF S, nx
  <2>6. CASE ~(Listed \subseteq st.seen)
    <3>1. PICK p \in Listed \ st.seen : p \in nx.seen
      BY <2>4, <2>6
    <3>2. nx.seen \subseteq Listed /\ st.seen \subseteq Listed
      BY <2>3, <2>4 DEF WalkInv, WalkTyped
    <3>3. IsFiniteSet(nx.seen) /\ IsFiniteSet(st.seen)
      BY <1>1, <3>2, FS_Subset
    <3>4. Cardinality(st.seen \cup {p}) = Cardinality(st.seen) + 1
      BY <3>1, <3>3, FS_AddElement
    <3>5. Cardinality(st.seen \cup {p}) <= Cardinality(nx.seen)
      <4>1. st.seen \cup {p} \in SUBSET nx.seen
        BY <2>4, <3>1
      <4> QED BY <3>3, <4>1, FS_Subset
    <3>6. Cardinality(st.seen) \in Nat /\ Cardinality(nx.seen) \in Nat
      BY <3>3, FS_CardinalityType
    <3>7. Cardinality(nx.seen) >= k + 1
      BY <2>3, <2>6, <3>4, <3>5, <3>6
    <3> QED BY <2>1, <2>4, <3>7 DEF S, nx
  <2> QED BY <2>5, <2>6
<1> HIDE DEF S
<1>6. n \in S
  BY <1>1, <1>4, <1>5, Climb
<1> DEFINE last == w[n]
<1>7. WalkInv(last) /\ (Listed \subseteq last.seen \/ Cardinality(last.seen) >= n)
  BY <1>6 DEF S
<1>8. BuildTree(sample, parent, desc, collapsed) = last.rows
  BY DEF BuildTree, w, n
<1> HIDE DEF last
<1>9. Listed \subseteq last.seen
  <2>1. last.seen \in SUBSET Listed
    BY <1>7 DEF WalkInv, WalkTyped
  <2>2. CASE Cardinality(last.seen) >= n
    <3>1. Cardinality(last.seen) <= Cardinality(Listed) /\ Cardinality(last.seen) \in Nat
      BY <1>1, <2>1, FS_Subset, FS_CardinalityType
    <3>2. Cardinality(Listed) = Cardinality(last.seen)
      BY <1>1, <2>2, <3>1
    <3> QED BY <1>1, <2>1, <3>2, FS_Subset
  <2> QED BY <1>7, <2>2
<1> QED BY <1>7, <1>8, <1>9

-----------------------------------------------------------------------------
(* The tree on screen.                                                     *)

(* The rows are those of the sample, order and collapsed set on hand.      *)
TreeInv == Input /\ tree = BuildTree(sample, parent, desc, collapsed)

(* Such rows have the type, and are the forest, that the tab shows.        *)
LEMMA BuiltTree ==
  ASSUME TreeInv
  PROVE  /\ tree \in Seq(TreeRow) /\ TreeTypeOK /\ TreeIsForest
<1>1. PICK st : tree = st.rows /\ WalkInv(st) /\ Listed \subseteq st.seen
  BY WalkEnds DEF TreeInv
<1> DEFINE n == Len(tree)
<1>2. tree \in Seq(TreeRow) /\ n \in Nat /\ DOMAIN tree = 1 .. n
  BY <1>1 DEF WalkInv, WalkTyped
<1>3. \A i \in 1 .. n : tree[i].pid \in Listed /\ tree[i].depth \in Nat
  BY <1>1, WalkParts DEF WalkInv
<1>4. /\ \A i \in 1 .. n : /\ Proper(tree[i])
                           /\ tree[i].children = (Kids(sample, parent, tree[i].pid) # {})
      /\ \A i, j \in 1 .. n : i # j => tree[i].pid # tree[j].pid
      /\ \A q \in Listed : Ancestors(q) \cap collapsed # {} \/ \E i \in 1 .. n : tree[i].pid = q
  BY <1>1 DEF WalkInv, WalkShown
<1>5. \A i \in 1 .. n : Under(tree, i - 1, tree[i])
  BY <1>1 DEF WalkInv, WalkNested
<1>6. \A i, j \in 1 .. n : i < j /\ Mates(tree[i].pid, tree[j].pid) =>
        Before(desc, tree[i].pid, tree[j].pid)
  BY <1>1 DEF WalkInv, WalkSorted
<1> HIDE DEF n
<1>7. TreeTypeOK
  <2>1. \A i \in DOMAIN tree : tree[i].children = (\E k \in Listed : parent[k] = tree[i].pid)
    <3>1. ASSUME NEW i \in 1 .. n PROVE tree[i].children = (\E k \in Listed : parent[k] = tree[i].pid)
      <4>1. Kids(sample, parent, tree[i].pid) = {k \in Listed : parent[k] = tree[i].pid}
        BY DEF Kids, Listed
      <4>2. (Kids(sample, parent, tree[i].pid) # {}) = (\E k \in Listed : parent[k] = tree[i].pid)
        BY <4>1
      <4>3. tree[i].children = (Kids(sample, parent, tree[i].pid) # {})
        BY <1>4
      <4> QED BY <4>2, <4>3, Zenon
    <3> QED BY <1>2, <3>1
  <2>2. Input
    BY DEF TreeInv
  <2> QED BY <2>1, <2>2, ListedPids DEF TreeTypeOK, Input
<1> DEFINE shownAt(p) == {i \in DOMAIN tree : tree[i].pid = p}
<1>8. ASSUME NEW p \in Listed
      PROVE  /\ Cardinality(shownAt(p)) <= 1
             /\ shownAt(p) = {} => Ancestors(p) \cap collapsed # {}
             /\ Rooted(p) => \A i \in shownAt(p) :
                  Ancestors(p) \cap collapsed = {} /\ tree[i].depth = Cardinality(Ancestors(p))
  <2>1. Cardinality(shownAt(p)) <= 1
    <3>1. CASE shownAt(p) = {}
      BY <3>1, FS_EmptySet
    <3>2. CASE shownAt(p) # {}
      <4>1. PICK i \in 1 .. n : i \in shownAt(p)
        BY <1>2, <3>2
      <4>2. shownAt(p) = {i}
        BY <1>2, <1>4, <4>1
      <4> HIDE DEF shownAt
      <4>3. Cardinality({i}) = 1
        BY FS_Singleton
      <4> QED BY <4>2, <4>3
    <3> QED BY <3>1, <3>2
  <2>2. shownAt(p) = {} => Ancestors(p) \cap collapsed # {}
    BY <1>2, <1>4
  <2>3. ASSUME Rooted(p), NEW i \in shownAt(p)
        PROVE  Ancestors(p) \cap collapsed = {} /\ tree[i].depth = Cardinality(Ancestors(p))
    <3>1. i \in 1 .. n /\ tree[i].pid = p
      BY <1>2, <2>3
    <3> QED BY <1>4, <2>3, <3>1 DEF Proper, Level
  <2> HIDE DEF shownAt
  <2> QED BY <2>1, <2>2, <2>3
<1>9. ASSUME NEW i \in 1 .. n, tree[i].depth > 0
      PROVE  \E j \in 1 .. i - 1 :
               /\ tree[j].pid = parent[tree[i].pid] /\ tree[j].depth = tree[i].depth - 1
               /\ \A k \in j + 1 .. i - 1 : tree[k].depth >= tree[i].depth
  BY <1>5, <1>9 DEF Under
<1>10. ASSUME NEW i \in 1 .. n, NEW j \in 1 .. n,
              i < j, Rooted(tree[i].pid), Rooted(tree[j].pid),
              parent[tree[i].pid] = parent[tree[j].pid] \/ tree[i].depth + tree[j].depth = 0
       PROVE  desc = (tree[i].pid > tree[j].pid)
  <2>1. Mates(tree[i].pid, tree[j].pid)
    <3>1. CASE parent[tree[i].pid] = parent[tree[j].pid]
      BY <1>10, <3>1 DEF Mates
    <3>2. CASE tree[i].depth + tree[j].depth = 0
      <4>1. tree[i].depth = 0 /\ tree[j].depth = 0
        BY <1>3, <3>2
      <4>2. Level(tree[i].pid) = 0 /\ Level(tree[j].pid) = 0
        BY <1>4, <1>10, <4>1 DEF Proper
      <4>3. Input
        BY DEF TreeInv
      <4> QED BY <1>10, <4>2, <4>3, LevelStep DEF Mates
    <3> QED BY <1>10, <3>1, <3>2
  <2>2. Before(desc, tree[i].pid, tree[j].pid)
    BY <1>6, <1>10, <2>1
  <2>3. tree[i].pid \in Nat /\ tree[j].pid \in Nat /\ desc \in BOOLEAN
    BY <1>3, ListedPids DEF TreeInv, Input
  <2>4. CASE desc = TRUE
    BY <2>2, <2>3, <2>4 DEF Before
  <2>5. CASE desc = FALSE
    BY <2>2, <2>3, <2>5 DEF Before
  <2> QED BY <2>3, <2>4, <2>5
<1> HIDE DEF shownAt
<1>11. TreeIsForest
  <2>1. \A i \in DOMAIN tree : tree[i].pid \in Listed
    BY <1>2, <1>3
  <2>2. \A p \in Listed :
          /\ Cardinality(shownAt(p)) <= 1
          /\ shownAt(p) = {} => Ancestors(p) \cap collapsed # {}
          /\ Rooted(p) => \A i \in shownAt(p) :
               Ancestors(p) \cap collapsed = {} /\ tree[i].depth = Cardinality(Ancestors(p))
    BY <1>8
  <2>3. \A i \in DOMAIN tree : tree[i].depth > 0 =>
          \E j \in 1 .. i - 1 :
            /\ tree[j].pid = parent[tree[i].pid] /\ tree[j].depth = tree[i].depth - 1
            /\ \A k \in j + 1 .. i - 1 : tree[k].depth >= tree[i].depth
    BY <1>2, <1>9
  <2>4. \A i, j \in DOMAIN tree :
          /\ i < j /\ Rooted(tree[i].pid) /\ Rooted(tree[j].pid)
          /\ parent[tree[i].pid] = parent[tree[j].pid] \/ tree[i].depth + tree[j].depth = 0
          => desc = (tree[i].pid > tree[j].pid)
    BY <1>2, <1>10
  <2> QED BY <2>1, <2>2, <2>3, <2>4, Zenon DEF TreeIsForest, shownAt
<1> QED BY <1>2, <1>7, <1>11

(* An order of a finite set lists each of its members once.                *)
LEMMA OrdersList ==
  ASSUME NEW S, IsFiniteSet(S), NEW s \in SetToSeqs(S)
  PROVE  s \in Seq(S) /\ ToSet(s) = S /\ Len(s) = Cardinality(S)
<1> DEFINE n == Cardinality(S)
<1>1. n \in Nat
  BY FS_CardinalityType
<1>2. s \in [1 .. n -> S] /\ \A i, j \in 1 .. n : i # j => s[i] # s[j]
  BY DEF SetToSeqs
<1>3. \A x \in S : \E i \in 1 .. n : s[i] = x
  BY <1>1, <1>2, ListHasAll
<1> HIDE DEF n
<1>4. s \in Seq(S) /\ Len(s) = n /\ DOMAIN s = 1 .. n
  BY <1>1, <1>2
<1>5. ToSet(s) = S
  BY <1>2, <1>3, <1>4 DEF ToSet
<1> QED BY <1>4, <1>5 DEF n

(* Every sample, order and key leaves such rows.                           *)
LEMMA TreeStep ==
  ASSUME TreeInv, [TreeNext]_treeVars
  PROVE  TreeInv'
<1>1. ASSUME NEW p \in Known, NEW q \in Known \cup {0}, NEW S \in SUBSET Known, NEW s \in SetToSeqs(S),
             Sampled(s, [parent EXCEPT ![p] = q])
      PROVE  TreeInv'
  <2>1. s \in Seq(Known) /\ Len(s) = Cardinality(ToSet(s))
    <3>1. IsFiniteSet(S)
      BY TreeAssumption, FS_Subset DEF TreeAssumption
    <3>2. s \in Seq(S) /\ Len(s) = Cardinality(ToSet(s))
      BY <3>1, OrdersList
    <3> QED BY <3>2
  <2>2. /\ sample' = s /\ parent' = [parent EXCEPT ![p] = q]
        /\ tree' = BuildTree(s, [parent EXCEPT ![p] = q], desc, collapsed)
        /\ UNCHANGED <<desc, collapsed>>
    BY <1>1 DEF Sampled
  <2>3. parent' \in [Known -> Known \cup {0}]
    BY <1>1, <2>2 DEF TreeInv, Input
  <2>4. Input'
    BY <2>1, <2>2, <2>3 DEF TreeInv, Input, Listed
  <2> QED BY <2>2, <2>4 DEF TreeInv
<1>2. Listed \subseteq Known
  BY ListedPids DEF TreeInv
<1>3. ASSUME NEW p \in Known, NEW s \in SetToSeqs(Listed \ {p}), Sampled(s, [parent EXCEPT ![p] = 0])
      PROVE  TreeInv'
  <2>1. Listed \ {p} \in SUBSET Known /\ 0 \in Known \cup {0}
    BY <1>2
  <2> QED BY <1>1, <1>3, <2>1
<1>4. ASSUME NEW p \in Known, NEW q \in Known \cup {0}, NEW s \in SetToSeqs(Listed \cup {p}),
             Sampled(s, [parent EXCEPT ![p] = q])
      PROVE  TreeInv'
  <2>1. Listed \cup {p} \in SUBSET Known
    BY <1>2
  <2> QED BY <1>1, <1>4, <2>1
<1>5. CASE ToggleOrder
  <2>1. /\ desc' = ~desc /\ tree' = BuildTree(sample, parent, ~desc, collapsed)
        /\ UNCHANGED <<sample, parent, collapsed>>
    BY <1>5 DEF ToggleOrder
  <2> QED BY <2>1 DEF TreeInv, Input, Listed
<1>6. ASSUME NEW i \in DOMAIN tree, NEW expand \in BOOLEAN, ExpandKey(i, expand)
      PROVE  TreeInv'
  <2>1. tree[i] \in TreeRow
    BY BuiltTree
  <2>2. tree[i].pid \in Known
    BY <1>2, <2>1 DEF TreeRow
  <2>3. /\ collapsed' \subseteq collapsed \cup {tree[i].pid}
        /\ tree' = BuildTree(sample, parent, desc, collapsed')
        /\ UNCHANGED <<sample, parent, desc>>
    BY <1>6 DEF ExpandKey
  <2>4. collapsed' \subseteq Known
    BY <2>2, <2>3 DEF TreeInv, Input
  <2> QED BY <2>3, <2>4 DEF TreeInv, Input, Listed
<1>7. CASE UNCHANGED treeVars
  BY <1>7 DEF treeVars, TreeInv, Input, Listed
<1> QED BY <1>3, <1>4, <1>5, <1>6, <1>7 DEF TreeNext

(* What BuildTree makes of a sample is a forest over it, whatever parents  *)
(* the kernel reports, for any number of processes and any keys: nobody is *)
(* lost or shown twice, rows are indented under their parents, siblings    *)
(* keep the sort.                                                          *)
THEOREM TreeStaysForest == TreeSpec => [](TreeIsForest /\ TreeTypeOK)
<1>1. ASSUME TreeInit PROVE TreeInv
  <2>1. /\ sample = <<>> /\ parent = [p \in Known |-> 0] /\ desc = TRUE /\ collapsed = {}
        /\ tree = <<>>
    BY <1>1 DEF TreeInit
  <2>2. Listed = {} /\ Len(sample) = 0
    BY <2>1 DEF Listed, ToSet
  <2>3. Input
    BY <2>1, <2>2, FS_EmptySet DEF Input
  <2>4. PICK st : /\ BuildTree(sample, parent, desc, collapsed) = st.rows
                  /\ WalkInv(st)
    BY <2>3, WalkEnds
  <2>5. st.rows \in Seq(TreeRow) /\ \A i \in 1 .. Len(st.rows) : FALSE
    BY <2>2, <2>4, WalkParts DEF WalkInv, WalkTyped
  <2>6. st.rows = <<>>
    <3>1. Len(st.rows) \in Nat /\ Len(st.rows) = 0
      BY <2>5
    <3> QED BY <2>5, <3>1, EmptySeq
  <2> QED BY <2>1, <2>3, <2>4, <2>6 DEF TreeInv
<1>2. TreeInv => TreeIsForest /\ TreeTypeOK
  BY BuiltTree
<1> QED BY <1>1, <1>2, TreeStep, PTL DEF TreeSpec
=============================================================================
