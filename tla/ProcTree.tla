------------------------------ MODULE ProcTree ------------------------------
(***************************************************************************)
(* The tree view of the Processes tab: BuildTree (internal/procs/tree.go)  *)
(* turns a sample into a forest of rows, and the arrow keys collapse and   *)
(* expand subtrees (expandKey in internal/ui/processes/processes.go).      *)
(*                                                                         *)
(* Parents come from the kernel one process at a time while pids are       *)
(* reused, so they may form a cycle or name a process that is not listed.  *)
(* Processes sort by pid; a pid listed twice is left out.                  *)
(***************************************************************************)
EXTENDS Integers, Sequences, FiniteSets, SequencesExt

CONSTANT Known  \* pids; 0, the parent of none, is never listed

ASSUME TreeAssumption == Known \subseteq Nat \ {0} /\ IsFiniteSet(Known)

VARIABLES
  sample,     \* the listed pids, in the order the filter left them
  parent,     \* the parent each process reports
  desc,       \* the sort is descending
  collapsed,  \* pids whose subtrees are hidden
  tree        \* the rows: [pid, depth, children]

treeVars == <<sample, parent, desc, collapsed, tree>>

Listed == ToSet(sample)

-----------------------------------------------------------------------------
(* BuildTree. *)

(* sortBy: descending for the order the tab starts with.                   *)
Before(d, a, b) == IF d THEN a > b ELSE a < b
Sorted(S, d) ==
  CHOOSE t \in [1 .. Cardinality(S) -> S] : \A i, j \in DOMAIN t : i < j => Before(d, t[i], t[j])

Kids(s, above, p) == {k \in ToSet(s) : above[k] = p}

(* The loops of the walk over the processes in S, as calls still to make.  *)
Calls(S, d, depth) ==
  LET t == Sorted(S, d) IN [i \in DOMAIN t |-> [pid |-> t[i], depth |-> depth]]

(* What markSubtree flags: the recursion passes unvisited processes only,  *)
(* so it reaches the least set with the unvisited children of p and of its *)
(* own members.                                                            *)
MarkSubtree(s, above, seen, p) ==
  LET fresh == ToSet(s) \ seen
      closed(S) == \A k \in fresh : above[k] \in S \cup {p} => k \in S
  IN {k \in fresh : \A S \in SUBSET fresh : closed(S) => k \in S}

Row(s, above, call) ==
  [pid |-> call.pid, depth |-> call.depth, children |-> Kids(s, above, call.pid) # {}]

(* Mutant of Emit: a hidden subtree stays unmarked, so the loop over the   *)
(* rest brings it back.                                                    *)
Emit_Unmarked(s, above, d, hide, st, i) ==
  LET p == st.todo[i].pid
      rest == SubSeq(st.todo, i + 1, Len(st.todo))
  IN [rows |-> Append(st.rows, Row(s, above, st.todo[i])),
      seen |-> st.seen \cup {p},
      todo |-> IF p \in hide THEN rest
               ELSE Calls(Kids(s, above, p), d, st.todo[i].depth + 1) \o rest]

(* The body of the walk for call i: the row of its process, then what is   *)
(* below: a collapsed row hides its whole subtree, of any other one the    *)
(* children come before the calls that were pending.                       *)
Emit(s, above, d, hide, st, i) ==
  LET p == st.todo[i].pid
      rest == SubSeq(st.todo, i + 1, Len(st.todo))
      seen == st.seen \cup {p}
  IN [rows |-> Append(st.rows, Row(s, above, st.todo[i])),
      seen |-> IF p \in hide THEN seen \cup MarkSubtree(s, above, seen, p) ELSE seen,
      todo |-> IF p \in hide THEN rest
               ELSE Calls(Kids(s, above, p), d, st.todo[i].depth + 1) \o rest]

(* Calls for visited processes return at once.                             *)
Walk(s, above, d, hide, st) ==
  LET open == {i \in DOMAIN st.todo : st.todo[i].pid \notin st.seen} IN
  IF open = {} THEN st
  ELSE Emit(s, above, d, hide, st, CHOOSE i \in open : \A j \in open : i <= j)

(* Processes whose parent is not listed are roots; whatever the walk from  *)
(* the roots leaves hangs on a cycle and follows in the sample's order.    *)
Start(s, above, d) ==
  [rows |-> <<>>, seen |-> {},
   todo |-> Calls({p \in ToSet(s) : above[p] \notin ToSet(s)}, d, 0)
            \o [i \in DOMAIN s |-> [pid |-> s[i], depth |-> 0]]]

(* The walk after n rows.  There are never more rows than processes.       *)
Walked(s, above, d, hide) ==
  LET after[n \in 0 .. Len(s)] ==
        IF n = 0 THEN Start(s, above, d) ELSE Walk(s, above, d, hide, after[n - 1])
  IN after

BuildTree(s, above, d, hide) == Walked(s, above, d, hide)[Len(s)].rows

-----------------------------------------------------------------------------
TreeInit ==
  /\ sample = <<>> /\ parent = [p \in Known |-> 0]
  /\ desc = TRUE /\ collapsed = {} /\ tree = <<>>

(* A sample or a filter key: a process leaves, or (re)appears with some    *)
(* parent, in any order.  What is collapsed outlives its process.          *)
Sampled(s, above) ==
  /\ sample' = s /\ parent' = above
  /\ tree' = BuildTree(s, above, desc, collapsed)
  /\ UNCHANGED <<desc, collapsed>>

(* S *)
ToggleOrder ==
  /\ desc' = ~desc
  /\ tree' = BuildTree(sample, parent, ~desc, collapsed)
  /\ UNCHANGED <<sample, parent, collapsed>>

(* left, right on a row with children. *)
ExpandKey(i, expand) ==
  /\ tree[i].children
  /\ collapsed' = IF expand THEN collapsed \ {tree[i].pid} ELSE collapsed \cup {tree[i].pid}
  /\ tree' = BuildTree(sample, parent, desc, collapsed')
  /\ UNCHANGED <<sample, parent, desc>>

TreeNext ==
  \/ \E p \in Known : \E s \in SetToSeqs(Listed \ {p}) : Sampled(s, [parent EXCEPT ![p] = 0])
  \/ \E p \in Known, q \in Known \cup {0} : \E s \in SetToSeqs(Listed \cup {p}) :
       Sampled(s, [parent EXCEPT ![p] = q])
  \/ ToggleOrder
  \/ \E i \in DOMAIN tree, expand \in BOOLEAN : ExpandKey(i, expand)

TreeSpec == TreeInit /\ [][TreeNext]_treeVars

-----------------------------------------------------------------------------
(* Properties. *)

(* The ancestors of a process among the listed ones: the least set with    *)
(* its listed parent and those of its own members.                         *)
Ancestors(p) ==
  LET closed(S) == \A q \in S \cup {p} : parent[q] \in Listed => parent[q] \in S
  IN {a \in Listed : \A S \in SUBSET Listed : closed(S) => a \in S}

(* A process no cycle is above.                                            *)
Rooted(p) == \A a \in Ancestors(p) \cup {p} : a \notin Ancestors(a)

(* No pid is listed twice, and the row's marker tells whether it has       *)
(* children to hide.                                                       *)
TreeTypeOK ==
  /\ Listed \subseteq Known /\ Len(sample) = Cardinality(Listed)
  /\ parent \in [Known -> Known \cup {0}] /\ desc \in BOOLEAN /\ collapsed \subseteq Known
  /\ \A i \in DOMAIN tree : tree[i].children = (\E k \in Listed : parent[k] = tree[i].pid)

(* The rows are a forest over the sample whatever parents it reports: no   *)
(* process appears twice and none is lost, except below a collapsed one;   *)
(* a row is indented under its parent; siblings keep the sort; and a       *)
(* process with sound ancestry is at its depth, shown exactly if none of   *)
(* its ancestors is collapsed.                                             *)
TreeIsForest ==
  LET shownAt(p) == {i \in DOMAIN tree : tree[i].pid = p} IN
  /\ \A i \in DOMAIN tree : tree[i].pid \in Listed
  /\ \A p \in Listed :
       /\ Cardinality(shownAt(p)) <= 1
       /\ shownAt(p) = {} => Ancestors(p) \cap collapsed # {}
       /\ Rooted(p) => \A i \in shownAt(p) :
            Ancestors(p) \cap collapsed = {} /\ tree[i].depth = Cardinality(Ancestors(p))
  /\ \A i \in DOMAIN tree : tree[i].depth > 0 =>
       \E j \in 1 .. i - 1 :
         /\ tree[j].pid = parent[tree[i].pid] /\ tree[j].depth = tree[i].depth - 1
         /\ \A k \in j + 1 .. i - 1 : tree[k].depth >= tree[i].depth
  /\ \A i, j \in DOMAIN tree :
       /\ i < j /\ Rooted(tree[i].pid) /\ Rooted(tree[j].pid)
       /\ parent[tree[i].pid] = parent[tree[j].pid] \/ tree[i].depth + tree[j].depth = 0
       => desc = (tree[i].pid > tree[j].pid)
=============================================================================
