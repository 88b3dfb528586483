---------------------------- MODULE HistoryRing -----------------------------
(***************************************************************************)
(* The ring buffer behind every history graph (canvas.go): `data` is a     *)
(* fixed array of two samples per cell, `head` the next index to write and *)
(* `size` the number of valid samples.  Every change of the terminal's     *)
(* size copies it into an array of another length.  The height of a graph  *)
(* never changes after New and is left out.                                *)
(***************************************************************************)
EXTENDS Integers, Sequences

CONSTANTS
  Samples,   \* the values a graph is fed
  Widths,    \* the widths, in cells, it is resized to
  Unset      \* what a cell holds that no sample was written to

ASSUME RingAssumption == Widths # {} /\ Widths \subseteq Nat \ {0} /\ Unset \notin Samples

VARIABLE graph   \* [data, head, size, width]

Capacity(w) == 2 * w
Indices(w) == 0 .. Capacity(w) - 1

(* tail: the newest n samples, oldest first, across the end of the array.  *)
TailStart(g, n) == (g.head - n + Capacity(g.width)) % Capacity(g.width)
TailIndex_NoWrap(g, n, i) == IF TailStart(g, n) + i - 1 < Capacity(g.width) THEN TailStart(g, n) + i - 1 ELSE 0
TailIndex(g, n, i) ==
  LET at == TailStart(g, n) + i - 1 IN
  IF at < Capacity(g.width) THEN at ELSE at - Capacity(g.width)
NewestOf(g, n) == [i \in 1 .. n |-> g.data[TailIndex(g, n, i)]]

Fewer(a, b) == IF a < b THEN a ELSE b

EmptyGraph(w) ==
  [data |-> [k \in Indices(w) |-> Unset], head |-> 0, size |-> 0, width |-> w]

RingInit == \E w \in Widths : graph = EmptyGraph(w)

RingPush ==
  \E v \in Samples :
    graph' = [graph EXCEPT
      !.data[graph.head] = v,
      !.head = (graph.head + 1) % Capacity(graph.width),
      !.size = IF graph.size < Capacity(graph.width) THEN graph.size + 1 ELSE graph.size]

(* Resize of a graph that already has the width returns at once.           *)
RingResize_Oldest ==
  \E w \in Widths \ {graph.width} :
    LET n == Fewer(graph.size, Capacity(w))
        kept == NewestOf(graph, graph.size)
    IN graph' = [data |-> [k \in Indices(w) |-> IF k < n THEN kept[k + 1] ELSE Unset],
                 head |-> n % Capacity(w), size |-> n, width |-> w]
RingResize ==
  \E w \in Widths \ {graph.width} :
    LET n == Fewer(graph.size, Capacity(w))
        kept == NewestOf(graph, n)
    IN graph' = [data |-> [k \in Indices(w) |-> IF k < n THEN kept[k + 1] ELSE Unset],
                 head |-> n % Capacity(w), size |-> n, width |-> w]

RingNext == RingPush \/ RingResize
RingSpec == RingInit /\ [][RingNext]_graph

(* The samples View draws, right-aligned.                                  *)
Shown == NewestOf(graph, graph.size)

(* Type invariant.  No sample shown is a cell that was never written.      *)
RingTypeOK ==
  /\ graph.width \in Widths
  /\ graph.data \in [Indices(graph.width) -> Samples \cup {Unset}]
  /\ graph.head \in Indices(graph.width)
  /\ graph.size \in 0 .. Capacity(graph.width)
  /\ Shown \in Seq(Samples)

(* The ring implements the window: after any sequence of samples and       *)
(* resizes, what View draws is exactly the latest samples, in order        *)
(* (canvas.go: Resize "keeps the newest samples that fit").                *)
Window == INSTANCE HistoryWindow WITH window <- Shown, cells <- graph.width
RingIsWindow == Window!WindowSpec
=============================================================================
