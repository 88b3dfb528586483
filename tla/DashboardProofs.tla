--------------------------- MODULE DashboardProofs ---------------------------
(***************************************************************************)
(* Proofs about the dashboard tab and the rings behind its graphs, for     *)
(* every terminal size, every sample and every set of widths.              *)
(*                                                                         *)
(* The rings first: what a graph draws is the window of its latest         *)
(* samples.  The argument: modulo the capacity, the i-th newest-first      *)
(* index is one subtraction away, so the sequence `Shown` reads off the    *)
(* array as a plain rotation (TailIndexValue); a push then moves every     *)
(* index by one and a resize starts a rotation at 0.                       *)
(***************************************************************************)
EXTENDS Dashboard, HistoryRing, SequenceTheorems, TLAPS

(* The remainder of a number below twice the divisor.                      *)
LEMMA SmallMod ==
  ASSUME NEW a \in Nat, NEW c \in Nat \ {0}, a < 2 * c
  PROVE  a % c = IF a < c THEN a ELSE a - c
<1>1. CASE a < c
  BY <1>1
<1>2. CASE a >= c
  <2>1. a - c \in 0 .. c - 1 /\ a = 1 * c + (a - c)
    BY <1>2
  <2> QED BY <2>1, <1>2, Z3
<1> QED BY <1>1, <1>2

(* The i-th of the newest n samples lies at a rotation of i.               *)
Rotated(h, n, c, i) == IF h - n + i - 1 >= 0 THEN h - n + i - 1 ELSE h - n + i - 1 + c

(* The index that Graph.View computes for the i-th of the newest n samples *)
(* is that rotation, and inside the array.                                 *)
LEMMA TailIndexValue ==
  ASSUME NEW g, NEW c, c = Capacity(g.width), NEW h, h = g.head,
         c \in Nat \ {0}, h \in 0 .. c - 1, NEW n \in 0 .. c
  PROVE  \A i \in 1 .. n : /\ Rotated(h, n, c, i) \in 0 .. c - 1
                           /\ TailIndex(g, n, i) = Rotated(h, n, c, i)
<1>1. PICK d \in Nat : d = h - n + c /\ d < 2 * c
  OBVIOUS
<1>2. d % c = IF d < c THEN d ELSE d - c
  BY <1>1, SmallMod
<1>3. TailStart(g, n) = IF h - n >= 0 THEN h - n ELSE h - n + c
  BY <1>1, <1>2 DEF TailStart
<1> SUFFICES ASSUME NEW i \in 1 .. n
             PROVE  /\ Rotated(h, n, c, i) \in 0 .. c - 1
                    /\ TailIndex(g, n, i) = Rotated(h, n, c, i)
  OBVIOUS
<1>4. TailIndex(g, n, i) = IF TailStart(g, n) + i - 1 < c THEN TailStart(g, n) + i - 1
                           ELSE TailStart(g, n) + i - 1 - c
  BY <1>3 DEF TailIndex
<1> QED BY <1>3, <1>4 DEF Rotated

(* The next index and the next size stay in range.                         *)
LEMMA NextIndex ==
  ASSUME NEW c \in Nat \ {0}, NEW h \in 0 .. c - 1, NEW n \in 0 .. c
  PROVE  /\ (h + 1) % c = IF h + 1 < c THEN h + 1 ELSE 0
         /\ (h + 1) % c \in 0 .. c - 1
         /\ (IF n < c THEN n + 1 ELSE n) \in 1 .. c
<1>1. PICK d \in Nat : d = h + 1 /\ d < 2 * c
  OBVIOUS
<1>2. d % c = IF d < c THEN d ELSE d - c
  BY <1>1, SmallMod
<1> QED BY <1>1, <1>2

(* How a push moves the head and the size of a ring of c cells.            *)
Moves(c, h, n, k, m) ==
  /\ c \in Nat \ {0} /\ h \in 0 .. c - 1 /\ n \in 0 .. c
  /\ k = (IF h + 1 < c THEN h + 1 ELSE 0)
  /\ m = (IF n < c THEN n + 1 ELSE n)

(* A push moves the rotation by one, and the new sample's index is none of *)
(* those it keeps.                                                         *)
LEMMA PushRotates ==
  ASSUME NEW c, NEW h, NEW n, NEW k, NEW m, Moves(c, h, n, k, m), NEW i \in 1 .. m
  PROVE  /\ Rotated(k, m, c, i) \in 0 .. c - 1
         /\ i = m => Rotated(k, m, c, i) = h
         /\ i # m => /\ n + 1 - m + i \in 1 .. n
                     /\ Rotated(k, m, c, i) = Rotated(h, n, c, n + 1 - m + i)
                     /\ Rotated(k, m, c, i) # h
<1>1. Rotated(k, m, c, i) \in 0 .. c - 1
  BY DEF Moves, Rotated
<1>2. i = m => Rotated(k, m, c, i) = h
  BY DEF Moves, Rotated
<1>3. i # m => n + 1 - m + i \in 1 .. n
  BY DEF Moves
<1>4. i # m => Rotated(k, m, c, i) = Rotated(h, n, c, n + 1 - m + i)
  BY DEF Moves, Rotated
<1>5. i # m => Rotated(k, m, c, i) # h
  BY DEF Moves, Rotated
<1> QED BY <1>1, <1>2, <1>3, <1>4, <1>5

(* The inductive invariant: the fields are in range and every index that   *)
(* View reads holds a sample.                                              *)
Good(g) ==
  /\ g.width \in Widths
  /\ g.data \in [Indices(g.width) -> Samples \cup {Unset}]
  /\ g.head \in Indices(g.width)
  /\ g.size \in 0 .. Capacity(g.width)
  /\ \A i \in 1 .. g.size : g.data[TailIndex(g, g.size, i)] \in Samples

(* Under the invariant the drawn samples are a sequence of samples.        *)
LEMMA NewestIsSeq ==
  ASSUME NEW g, NEW n \in Nat,
         \A i \in 1 .. n : g.data[TailIndex(g, n, i)] \in Samples
  PROVE  /\ NewestOf(g, n) \in Seq(Samples)
         /\ Len(NewestOf(g, n)) = n
         /\ \A i \in 1 .. n : NewestOf(g, n)[i] = g.data[TailIndex(g, n, i)]
<1>1. NewestOf(g, n) \in [1 .. n -> Samples]
  BY DEF NewestOf
<1>2. NewestOf(g, n) \in Seq(Samples)
  BY <1>1, SeqDef
<1>3. DOMAIN NewestOf(g, n) = 1 .. n
  BY DEF NewestOf
<1> QED BY <1>1, <1>2, <1>3, LenProperties DEF NewestOf

(* The newest n samples are the end of the newest m.                       *)
LEMMA NewestOfNewest ==
  ASSUME NEW s \in Seq(Samples), NEW n \in Nat
  PROVE  /\ Window!Newest(s, n) \in Seq(Samples)
         /\ Len(Window!Newest(s, n)) = Fewer(Len(s), n)
         /\ \A i \in 1 .. Fewer(Len(s), n) :
              Window!Newest(s, n)[i] = s[Len(s) - Fewer(Len(s), n) + i]
<1> SUFFICES ASSUME NEW t, t = Window!Newest(s, n), NEW k, k = Fewer(Len(s), n)
             PROVE  /\ t \in Seq(Samples)
                    /\ Len(t) = k
                    /\ \A i \in 1 .. k : t[i] = s[Len(s) - k + i]
  OBVIOUS
<1>0. Len(s) \in Nat
  BY LenProperties
<1>1. CASE Len(s) <= n
  <2>1. t = s /\ k = Len(s)
    BY <1>0, <1>1 DEF Window!Newest, Fewer
  <2>2. \A i \in 1 .. k : Len(s) - k + i = i
    BY <1>0, <2>1
  <2> QED BY <2>1, <2>2
<1>2. CASE Len(s) > n
  <2> DEFINE l == Len(s) - n + 1
  <2>1. t = SubSeq(s, l, Len(s)) /\ k = n
    BY <1>0, <1>2 DEF Window!Newest, Fewer
  <2>2. l \in 1 .. Len(s) + 1 /\ Len(s) - l + 1 = n
    BY <1>0, <1>2
  <2>3. \A i \in l .. Len(s) : s[i] \in Samples
    BY <1>0, <2>2, ElementOfSeq
  <2>4. \A i \in 1 .. n : l + i - 1 = Len(s) - n + i
    BY <1>0
  <2> HIDE DEF l
  <2>5. /\ t \in Seq(Samples)
        /\ Len(t) = IF l <= Len(s) THEN Len(s) - l + 1 ELSE 0
        /\ \A i \in 1 .. Len(s) - l + 1 : t[i] = s[l + i - 1]
    BY <1>0, <2>1, <2>2, <2>3, SubSeqProperties
  <2>6. Len(t) = n
    BY <1>0, <2>2, <2>5
  <2> QED BY <2>1, <2>2, <2>4, <2>5, <2>6
<1> QED BY <1>0, <1>1, <1>2

(* What a push does to the fields.                                         *)
Pushed(g, q, v) ==
  /\ q.width = g.width
  /\ q.data = [g.data EXCEPT ![g.head] = v]
  /\ q.head = (g.head + 1) % Capacity(g.width)
  /\ q.size = IF g.size < Capacity(g.width) THEN g.size + 1 ELSE g.size

(* A push writes behind the newest sample, moves every index by one when   *)
(* the array is full, and never writes over a sample it keeps.             *)
LEMMA PushIndices ==
  ASSUME NEW g, NEW q, NEW v \in Samples, Good(g), Pushed(g, q, v)
  PROVE  /\ q.size \in 1 .. Capacity(g.width)
         /\ q.head \in Indices(g.width)
         /\ q.data \in [Indices(g.width) -> Samples \cup {Unset}]
         /\ \A i \in 1 .. q.size :
              q.data[TailIndex(q, q.size, i)] =
                IF i = q.size THEN v
                ELSE g.data[TailIndex(g, g.size, g.size + 1 - q.size + i)]
<1> DEFINE w == g.width
           c == Capacity(w)
           n == g.size
           m == q.size
<1>1. w \in Nat \ {0}
  BY RingAssumption DEF Good
<1>2. c \in Nat \ {0} /\ Indices(w) = 0 .. c - 1
  BY <1>1 DEF Capacity, Indices
<1>3. g.head \in 0 .. c - 1 /\ n \in 0 .. c /\ g.data \in [0 .. c - 1 -> Samples \cup {Unset}]
  BY <1>2 DEF Good
<1>4. q.head = (g.head + 1) % c /\ m = (IF n < c THEN n + 1 ELSE n) /\ Capacity(q.width) = c
  BY DEF Pushed
<1>5. q.data = [g.data EXCEPT ![g.head] = v]
  BY DEF Pushed
<1> HIDE DEF w, c, n, m
<1>6. q.head \in 0 .. c - 1 /\ m \in 1 .. c /\ Moves(c, g.head, n, q.head, m)
  BY <1>2, <1>3, <1>4, NextIndex DEF Moves
<1>7. \A i \in 1 .. n : TailIndex(g, n, i) = Rotated(g.head, n, c, i)
  BY <1>2, <1>3, TailIndexValue DEF c, w
<1>8. \A i \in 1 .. m : TailIndex(q, m, i) = Rotated(q.head, m, c, i)
  BY <1>2, <1>4, <1>6, TailIndexValue
<1>9. q.data \in [0 .. c - 1 -> Samples \cup {Unset}]
  BY <1>3, <1>5
<1>10. ASSUME NEW i \in 1 .. m
       PROVE  q.data[TailIndex(q, m, i)] =
                IF i = m THEN v ELSE g.data[TailIndex(g, n, n + 1 - m + i)]
  <2>1. CASE i = m
    <3>1. Rotated(q.head, m, c, i) = g.head
      BY <1>6, <2>1, PushRotates
    <3>2. q.data[g.head] = v
      BY <1>3, <1>5
    <3> QED BY <1>8, <2>1, <3>1, <3>2
  <2>2. CASE i # m
    <3>1. /\ n + 1 - m + i \in 1 .. n
          /\ Rotated(q.head, m, c, i) = Rotated(g.head, n, c, n + 1 - m + i)
          /\ Rotated(q.head, m, c, i) # g.head
          /\ Rotated(q.head, m, c, i) \in 0 .. c - 1
      BY <1>6, <2>2, PushRotates
    <3> QED BY <1>3, <1>5, <1>7, <1>8, <2>2, <3>1
  <2> QED BY <2>1, <2>2
<1> QED BY <1>2, <1>6, <1>9, <1>10 DEF w, c, n, m

(* The empty graph shows the empty window.                                 *)
LEMMA RingInitStep == RingInit => Good(graph) /\ Window!WindowInit
<1> SUFFICES ASSUME NEW w \in Widths, graph = EmptyGraph(w)
             PROVE  Good(graph) /\ Window!WindowInit
  BY DEF RingInit
<1>1. w \in Nat \ {0}
  BY RingAssumption
<1>2. /\ graph.width = w /\ graph.size = 0 /\ graph.head = 0
      /\ graph.data = [k \in Indices(w) |-> Unset]
  BY DEF EmptyGraph
<1>3. Good(graph)
  BY <1>1, <1>2 DEF Good, Indices, Capacity
<1>4. Shown = << >>
  <2>1. Shown \in Seq(Samples) /\ Len(Shown) = 0
    BY <1>2, NewestIsSeq DEF Shown
  <2> QED BY <2>1, EmptySeq
<1> QED BY <1>2, <1>3, <1>4 DEF Window!WindowInit

(* What a push shows: the old window with the new sample, cut to size.     *)
LEMMA PushShows ==
  ASSUME NEW g, NEW q, NEW v \in Samples, Good(g), Pushed(g, q, v)
  PROVE  /\ Good(q)
         /\ NewestOf(q, q.size) = Window!Newest(Append(NewestOf(g, g.size), v), Capacity(g.width))
<1> DEFINE c == Capacity(g.width)
           n == g.size
           m == q.size
           s == NewestOf(g, n)
           a == Append(s, v)
           t == Window!Newest(a, c)
           u == NewestOf(q, m)
<1>1. /\ m \in 1 .. c
      /\ q.head \in Indices(g.width)
      /\ q.data \in [Indices(g.width) -> Samples \cup {Unset}]
      /\ \A i \in 1 .. m :
           q.data[TailIndex(q, m, i)] =
             IF i = m THEN v ELSE g.data[TailIndex(g, n, n + 1 - m + i)]
  BY PushIndices
<1>2. g.width \in Nat \ {0}
  BY RingAssumption DEF Good
<1>3. c \in Nat
  BY <1>2 DEF Capacity
<1>4. n \in 0 .. c /\ \A i \in 1 .. n : g.data[TailIndex(g, n, i)] \in Samples
  BY DEF Good
<1>5. m = (IF n < c THEN n + 1 ELSE n) /\ q.width = g.width
  BY DEF Pushed
<1>6. /\ s \in Seq(Samples) /\ Len(s) = n
      /\ \A i \in 1 .. n : s[i] = g.data[TailIndex(g, n, i)]
  BY <1>3, <1>4, NewestIsSeq
<1> HIDE DEF c, n, m, s
<1>7. /\ a \in Seq(Samples) /\ Len(a) = n + 1
      /\ \A i \in 1 .. n : a[i] = s[i]
      /\ a[n + 1] = v
  BY <1>3, <1>4, <1>6, AppendProperties
<1> HIDE DEF a
<1>8. Fewer(n + 1, c) = m
  BY <1>3, <1>4, <1>5 DEF Fewer
<1>9. /\ t \in Seq(Samples) /\ Len(t) = m
      /\ \A i \in 1 .. m : t[i] = a[n + 1 - m + i]
  <2>1. Fewer(Len(a), c) = m /\ Len(a) = n + 1
    BY <1>7, <1>8
  <2>2. /\ t \in Seq(Samples) /\ Len(t) = Fewer(Len(a), c)
        /\ \A i \in 1 .. Fewer(Len(a), c) : t[i] = a[Len(a) - Fewer(Len(a), c) + i]
    BY <1>3, <1>7, NewestOfNewest
  <2> HIDE DEF t
  <2> QED BY <1>1, <1>3, <1>4, <2>1, <2>2
<1>10. ASSUME NEW i \in 1 .. m PROVE q.data[TailIndex(q, m, i)] = t[i]
  <2>1. CASE i = m
    BY <1>1, <1>3, <1>4, <1>7, <1>9, <2>1
  <2>2. CASE i # m
    <3>1. n + 1 - m + i \in 1 .. n
      BY <1>1, <1>3, <1>4, <1>5, <2>2
    <3>2. t[i] = s[n + 1 - m + i]
      BY <1>7, <1>9, <3>1
    <3>3. s[n + 1 - m + i] = g.data[TailIndex(g, n, n + 1 - m + i)]
      BY <1>6, <3>1
    <3> QED BY <1>1, <2>2, <3>2, <3>3
  <2> QED BY <2>1, <2>2
<1>11. \A i \in 1 .. m : q.data[TailIndex(q, m, i)] \in Samples
  BY <1>9, <1>10, ElementOfSeq
<1>12. Good(q)
  BY <1>1, <1>3, <1>5, <1>11 DEF Good, c, m
<1>13. /\ u \in Seq(Samples) /\ Len(u) = m
       /\ \A i \in 1 .. m : u[i] = q.data[TailIndex(q, m, i)]
  BY <1>1, <1>3, <1>11, NewestIsSeq
<1> HIDE DEF t, u
<1>14. u = t
  BY <1>9, <1>10, <1>13, SeqEqual
<1> QED BY <1>12, <1>14 DEF t, u, a, s, c, n, m

(* What a resize does to the fields.                                       *)
Resized(g, q, w, n) ==
  /\ n = Fewer(g.size, Capacity(w))
  /\ q.width = w /\ q.size = n /\ q.head = n % Capacity(w)
  /\ q.data = [k \in Indices(w) |-> IF k < n THEN NewestOf(g, n)[k + 1] ELSE Unset]

(* What a resize shows: the old window cut to the new size.                *)
LEMMA ResizeShows ==
  ASSUME NEW g, NEW w \in Widths, NEW n, NEW q, Good(g), Resized(g, q, w, n)
  PROVE  /\ Good(q)
         /\ NewestOf(q, q.size) = Window!Newest(NewestOf(g, g.size), Capacity(w))
<1> DEFINE c == Capacity(w)
           b == Capacity(g.width)
           z == g.size
           s == NewestOf(g, z)
           r == NewestOf(g, n)
           t == Window!Newest(s, c)
           u == NewestOf(q, n)
<1>1. w \in Nat \ {0} /\ g.width \in Nat \ {0}
  BY RingAssumption DEF Good
<1>2. c \in Nat \ {0} /\ b \in Nat \ {0} /\ Indices(w) = 0 .. c - 1 /\ Indices(g.width) = 0 .. b - 1
  BY <1>1 DEF Capacity, Indices
<1>3. z \in 0 .. b /\ g.head \in 0 .. b - 1 /\ \A i \in 1 .. z : g.data[TailIndex(g, z, i)] \in Samples
  BY <1>2 DEF Good
<1>4. n \in 0 .. c /\ n \in 0 .. z /\ n \in 0 .. b
  BY <1>2, <1>3 DEF Fewer, Resized
<1>5. /\ s \in Seq(Samples) /\ Len(s) = z
      /\ \A i \in 1 .. z : s[i] = g.data[TailIndex(g, z, i)]
  BY <1>2, <1>3, NewestIsSeq
<1>6. \A i \in 1 .. n : TailIndex(g, n, i) = TailIndex(g, z, z - n + i) /\ z - n + i \in 1 .. z
  <2> TAKE i \in 1 .. n
  <2>1. z - n + i \in 1 .. z
    BY <1>3, <1>4
  <2>2. TailIndex(g, n, i) = Rotated(g.head, n, b, i)
    BY <1>2, <1>3, <1>4, TailIndexValue
  <2>3. TailIndex(g, z, z - n + i) = Rotated(g.head, z, b, z - n + i)
    BY <1>2, <1>3, <2>1, TailIndexValue
  <2> HIDE DEF z, b
  <2>4. g.head - n + i - 1 = g.head - z + (z - n + i) - 1
    BY <1>3, <1>4
  <2> QED BY <2>1, <2>2, <2>3, <2>4 DEF Rotated
<1>7. /\ r \in Seq(Samples) /\ Len(r) = n
      /\ \A i \in 1 .. n : r[i] = s[z - n + i]
  <2>1. \A i \in 1 .. n : g.data[TailIndex(g, n, i)] = s[z - n + i]
    BY <1>5, <1>6
  <2>2. \A i \in 1 .. n : g.data[TailIndex(g, n, i)] \in Samples
    BY <1>3, <1>6
  <2>3. n \in Nat
    BY <1>4
  <2>4. /\ r \in Seq(Samples) /\ Len(r) = n
        /\ \A i \in 1 .. n : r[i] = g.data[TailIndex(g, n, i)]
    BY <2>2, <2>3, NewestIsSeq
  <2> QED BY <2>1, <2>4
<1>8. \A i \in 1 .. n : r[i] \in Samples
  BY <1>7, ElementOfSeq
<1>9. /\ q.width = w /\ q.size = n /\ q.head = n % c
      /\ q.data = [k \in 0 .. c - 1 |-> IF k < n THEN r[k + 1] ELSE Unset]
  BY <1>2 DEF Resized
<1> HIDE DEF r, s, z, b
<1>10. q.head = (IF n < c THEN n ELSE 0) /\ q.head \in 0 .. c - 1
  <2>1. n \in Nat /\ n < 2 * c
    BY <1>2, <1>4
  <2>2. n % c = IF n < c THEN n ELSE n - c
    BY <1>2, <2>1, SmallMod
  <2> HIDE DEF c
  <2> QED BY <1>2, <1>4, <1>9, <2>2
<1>11. \A i \in 1 .. n : TailIndex(q, n, i) = i - 1
  <2> TAKE i \in 1 .. n
  <2>1. Capacity(q.width) = c
    BY <1>9
  <2>2. TailIndex(q, n, i) = Rotated(q.head, n, c, i)
    BY <1>2, <1>4, <1>10, <2>1, TailIndexValue
  <2> HIDE DEF c
  <2> QED BY <1>2, <1>4, <1>10, <2>2 DEF Rotated
<1> HIDE DEF c
<1>12. q.data \in [0 .. c - 1 -> Samples \cup {Unset}]
  BY <1>2, <1>4, <1>8, <1>9
<1>13. \A i \in 1 .. n : q.data[TailIndex(q, n, i)] = r[i]
  <2> TAKE i \in 1 .. n
  <2>1. i - 1 \in 0 .. c - 1 /\ i - 1 < n /\ (i - 1) + 1 = i
    BY <1>2, <1>4
  <2>2. q.data[i - 1] = r[(i - 1) + 1]
    BY <1>9, <2>1
  <2> QED BY <1>11, <2>1, <2>2
<1>14. Good(q)
  <2>1. q.head \in Indices(w) /\ q.data \in [Indices(w) -> Samples \cup {Unset}]
    BY <1>2, <1>10, <1>12
  <2>2. n \in 0 .. Capacity(w)
    BY <1>4 DEF c
  <2> QED BY <1>8, <1>9, <1>13, <2>1, <2>2 DEF Good
<1>15. /\ u \in Seq(Samples) /\ Len(u) = n
       /\ \A i \in 1 .. n : u[i] = r[i]
  <2>1. n \in Nat /\ \A i \in 1 .. n : q.data[TailIndex(q, n, i)] \in Samples
    BY <1>4, <1>8, <1>13
  <2>2. /\ u \in Seq(Samples) /\ Len(u) = n
        /\ \A i \in 1 .. n : u[i] = q.data[TailIndex(q, n, i)]
    BY <2>1, NewestIsSeq
  <2> QED BY <1>13, <2>2
<1>16. /\ t \in Seq(Samples) /\ Len(t) = n
       /\ \A i \in 1 .. n : t[i] = s[z - n + i]
  <2>1. Fewer(Len(s), c) = n /\ Len(s) = z
    BY <1>5 DEF z, c, Resized
  <2>2. /\ t \in Seq(Samples) /\ Len(t) = Fewer(Len(s), c)
        /\ \A i \in 1 .. Fewer(Len(s), c) : t[i] = s[Len(s) - Fewer(Len(s), c) + i]
    BY <1>2, <1>5, NewestOfNewest
  <2> QED BY <2>1, <2>2
<1> HIDE DEF t, u
<1>17. u = t
  BY <1>7, <1>15, <1>16, SeqEqual
<1> QED BY <1>9, <1>14, <1>17 DEF t, u, s, z, c

(* One step of the ring keeps the invariant and is a step of the window.   *)
LEMMA RingStep ==
  Good(graph) /\ [RingNext]_graph =>
    Good(graph)' /\ [Window!WindowNext]_<<Shown, graph.width>>
<1> SUFFICES ASSUME Good(graph), [RingNext]_graph
             PROVE  Good(graph)' /\ [Window!WindowNext]_<<Shown, graph.width>>
  OBVIOUS
<1> USE DEF Shown
<1>1. CASE RingPush
  <2>1. PICK v \in Samples :
          graph' = [graph EXCEPT
            !.data[graph.head] = v,
            !.head = (graph.head + 1) % Capacity(graph.width),
            !.size = IF graph.size < Capacity(graph.width) THEN graph.size + 1 ELSE graph.size]
    BY <1>1 DEF RingPush
  <2>2. Pushed(graph, graph', v)
    BY <2>1 DEF Pushed
  <2>3. /\ Good(graph')
        /\ NewestOf(graph', graph'.size) =
             Window!Newest(Append(NewestOf(graph, graph.size), v), Capacity(graph.width))
    BY <2>2, PushShows
  <2>4. Window!WindowPush
    BY <2>2, <2>3 DEF Window!WindowPush, Pushed, Capacity
  <2> QED BY <2>3, <2>4 DEF Window!WindowNext
<1>2. CASE RingResize
  <2>1. PICK w \in Widths :
          graph' = [data |-> [k \in Indices(w) |->
                               IF k < Fewer(graph.size, Capacity(w))
                               THEN NewestOf(graph, Fewer(graph.size, Capacity(w)))[k + 1] ELSE Unset],
                    head |-> Fewer(graph.size, Capacity(w)) % Capacity(w),
                    size |-> Fewer(graph.size, Capacity(w)), width |-> w]
    BY <1>2 DEF RingResize
  <2>2. Resized(graph, graph', w, Fewer(graph.size, Capacity(w)))
    BY <2>1 DEF Resized
  <2>3. /\ Good(graph')
        /\ NewestOf(graph', graph'.size) = Window!Newest(NewestOf(graph, graph.size), Capacity(w))
    BY <2>2, ResizeShows
  <2>4. Window!WindowResize
    BY <2>2, <2>3 DEF Window!WindowResize, Resized, Capacity
  <2> QED BY <2>3, <2>4 DEF Window!WindowNext
<1>3. CASE UNCHANGED graph
  BY <1>3
<1> QED BY <1>1, <1>2, <1>3 DEF RingNext

(* A graph in that state is well typed.                                    *)
LEMMA GoodIsTyped == Good(graph) => RingTypeOK
<1> SUFFICES ASSUME Good(graph) PROVE RingTypeOK
  OBVIOUS
<1>1. graph.size \in Nat
  <2>1. graph.width \in Nat
    BY RingAssumption DEF Good
  <2> QED BY <2>1 DEF Good, Capacity
<1>2. Shown \in Seq(Samples)
  BY <1>1, NewestIsSeq DEF Good, Shown
<1> QED BY <1>2 DEF RingTypeOK, Good

(* Every reachable ring is well typed, and none of the samples it shows is *)
(* a cell no sample was written to.                                        *)
THEOREM RingTypeCorrect == RingSpec => []RingTypeOK
<1>1. RingInit => Good(graph)
  BY RingInitStep
<1>2. Good(graph) /\ [RingNext]_graph => Good(graph)'
  BY RingStep
<1> QED BY <1>1, <1>2, GoodIsTyped, PTL DEF RingSpec

(* The ring buffer implements the window, for all widths and samples: no   *)
(* sequence of samples and resizes loses, repeats or reorders a sample     *)
(* that still fits.                                                        *)
THEOREM RingRefinesWindow == RingSpec => RingIsWindow
<1>1. RingInit => Good(graph) /\ Window!WindowInit
  BY RingInitStep
<1>2. Good(graph) /\ [RingNext]_graph =>
        Good(graph)' /\ [Window!WindowNext]_<<Shown, graph.width>>
  BY RingStep
<1> QED BY <1>1, <1>2, PTL DEF RingSpec, RingIsWindow, Window!WindowSpec
-----------------------------------------------------------------------------
(* The layout and the cached frame.                                        *)

USE DashAssumption DEF DashAssumption, dashVars

(* View's cached frame is never stale: whatever sequence of sizes,         *)
(* samples, reloads and keys, a frame that is still cached was built from  *)
(* what Dashboard would draw now.                                          *)
THEOREM FrameStaysCurrent == DashSpec => []FrameIsCurrent
<1>1. DashInit => FrameIsCurrent
  BY DEF DashInit, FrameIsCurrent
<1>2. ASSUME FrameIsCurrent, [DashNext]_dashVars PROVE FrameIsCurrent'
  <2>1. CASE \/ \E s \in Sizes : SetSize(s)
             \/ \E l \in Looks : SetTheme(l)
             \/ \E s \in Shapes : DashSnapshot(s)
             \/ CycleDensity
    BY <2>1 DEF SetSize, SetTheme, DashSnapshot, CycleDensity, FrameIsCurrent
  <2>2. CASE DashView \/ UNCHANGED dashVars
    <3>1. Inputs' = Inputs /\ frame' \in {frame, Inputs}
      BY <2>2 DEF DashView, Inputs
    <3> QED BY <1>2, <2>2, <3>1 DEF DashView, FrameIsCurrent
  <2> QED BY <1>2, <2>1, <2>2 DEF DashNext
<1> QED BY <1>1, <1>2, PTL DEF DashSpec

-----------------------------------------------------------------------------
(* The connected grid. *)

(* The heights of the three bands in any terminal of the grid class.       *)
LEMMA Bands ==
  ASSUME NEW h \in Int, h >= 24
  PROVE  BandA(h) \in 9 .. 12 /\ BandB(h) \in 7 .. 10 /\ BandC(h) \in Int /\ BandC(h) >= 10
<1> DEFINE qa == (h * 4) \div 10
           qb == (h * 3) \div 10
<1>1. qa \in Int /\ 10 * qa <= 4 * h /\ 4 * h < 10 * qa + 10
  OBVIOUS
<1>2. qb \in Int /\ 10 * qb <= 3 * h /\ 3 * h < 10 * qb + 10
  OBVIOUS
<1>3. BandA(h) = Clamp(qa, 9, 12) /\ BandB(h) = Clamp(qb, 7, 10)
  BY DEF BandA, BandB
<1> HIDE DEF qa, qb
<1>4. /\ BandA(h) = IF qa < 9 THEN 9 ELSE IF qa > 12 THEN 12 ELSE qa
      /\ BandB(h) = IF qb < 7 THEN 7 ELSE IF qb > 10 THEN 10 ELSE qb
  BY <1>1, <1>2, <1>3 DEF Clamp, Smaller, Larger
<1>5. BandA(h) \in 9 .. 12 /\ BandB(h) \in 7 .. 10
  BY <1>1, <1>2, <1>4
<1>6. h - BandA(h) - BandB(h) + 2 >= 10
  BY <1>1, <1>2, <1>4
<1> QED BY <1>5, <1>6 DEF BandC

(* The adapters' panel has one row of border or four to six rows.          *)
LEMMA GpuRows ==
  ASSUME NEW gpus \in Nat
  PROVE  GpuH(gpus) \in {1, 4, 5, 6}
BY DEF GpuH, Smaller

(* Rectangles that share at most a border do not overlap inside.           *)
RowsApart(p, q) == p.Y + p.H <= q.Y + 1 \/ q.Y + q.H <= p.Y + 1
ColsApart(p, q) == p.X + p.W <= q.X + 1 \/ q.X + q.W <= p.X + 1
Whole(p) == p.X \in Int /\ p.Y \in Int /\ p.W \in Int /\ p.H \in Int

(* Panels apart in rows or in columns share no cell inside their borders.  *)
LEMMA ApartInside ==
  ASSUME NEW p, NEW q, Whole(p), Whole(q)
  PROVE  /\ RowsApart(p, q) => InsideRows(p) \cap InsideRows(q) = {}
         /\ ColsApart(p, q) => InsideCols(p) \cap InsideCols(q) = {}
BY DEF Whole, RowsApart, ColsApart, InsideRows, InsideCols

(* The seven panels of a grid of width w whose bands have a, b and c rows, *)
(* the graphics adapters g of the last band's.                             *)
AllPanels(w, a, b, c, g) == BandAPanels(w, a) \cup BandBPanels(w, a, b) \cup BandCPanels(w, a + b - 2, c, g)

(* The panels lie in the frame, at least three cells wide and high, and    *)
(* any two of them are apart.                                              *)
Inside(P, w, h) ==
  \A p \in P : /\ Whole(p) /\ p.X >= 0 /\ p.Y >= 0 /\ p.W >= 3 /\ p.H >= 3
              /\ p.X + p.W <= w /\ p.Y + p.H <= h
Apart(P) ==
  \A p \in P : \A q \in P \ {p} :
    /\ RowsApart(p, q) \/ ColsApart(p, q)
    /\ p.X + p.W # q.X /\ p.Y + p.H # q.Y

(* All seven panels do.                                                    *)
LEMMA Tiling ==
  ASSUME NEW w \in Int, w >= 112, NEW a \in 9 .. 12, NEW b \in 7 .. 10, NEW c \in Int, c >= 10,
         NEW g \in {1, 4, 5, 6}, NEW P, P = AllPanels(w, a, b, c, g)
  PROVE  Inside(P, w, a + b + c - 2) /\ Apart(P)
<1> DEFINE host == Panel("host", 0, 0, HostCol + 1, a)
           cpu == Panel("cpu", HostCol, 0, w - HostCol, a)
           mem == Panel("mem", 0, a - 1, HostCol + 1, b)
           net == Panel("net", HostCol, a - 1, NetCol + 1, b)
           disk == Panel("disk", HostCol + NetCol, a - 1, w - HostCol - NetCol, b)
           proc == Panel("proc", 0, a + b - 2 + g - 1, w, c - g + 1)
           gpu == Panel("gpu", 0, a + b - 2, w, g)
<1>1. /\ host.X = 0 /\ host.Y = 0 /\ host.W = 37 /\ host.H = a
      /\ cpu.X = 36 /\ cpu.Y = 0 /\ cpu.W = w - 36 /\ cpu.H = a
      /\ mem.X = 0 /\ mem.Y = a - 1 /\ mem.W = 37 /\ mem.H = b
      /\ net.X = 36 /\ net.Y = a - 1 /\ net.W = 33 /\ net.H = b
      /\ disk.X = 68 /\ disk.Y = a - 1 /\ disk.W = w - 68 /\ disk.H = b
      /\ proc.X = 0 /\ proc.Y = a + b - 3 + g /\ proc.W = w /\ proc.H = c - g + 1
      /\ gpu.X = 0 /\ gpu.Y = a + b - 2 /\ gpu.W = w /\ gpu.H = g
  BY DEF Panel, HostCol, NetCol
<1>2. \A p \in P : p \in {host, cpu, mem, net, disk, proc} \/ (p = gpu /\ g # 1)
  BY DEF AllPanels, BandAPanels, BandBPanels, BandCPanels
<1> HIDE DEF host, cpu, mem, net, disk, proc, gpu
<1>3. ASSUME NEW p \in P
      PROVE  /\ Whole(p) /\ p.X >= 0 /\ p.Y >= 0 /\ p.W >= 3 /\ p.H >= 3
             /\ p.X + p.W <= w /\ p.Y + p.H <= a + b + c - 2
  BY <1>1, <1>2 DEF Whole
<1>4. ASSUME NEW p \in P, NEW q \in P, p # q
      PROVE  RowsApart(p, q) \/ ColsApart(p, q)
  BY <1>1, <1>2, <1>4 DEF RowsApart, ColsApart
<1>5. ASSUME NEW p \in P, NEW q \in P
      PROVE  p.X + p.W # q.X /\ p.Y + p.H # q.Y
  BY <1>1, <1>2
<1> QED BY <1>3, <1>4, <1>5 DEF Inside, Apart

(* All seven, or the six that remain without adapters: the last one ends   *)
(* in the corner, and each hangs on the border of another one.             *)
InCorner(P, w, h) == \E p \in P : p.X + p.W = w /\ p.Y + p.H = h
Hangs(P) ==
  /\ \A p \in P : p.X > 0 => \E q \in P : q.X + q.W - 1 = p.X /\ q.Y = p.Y
  /\ \A p \in P : p.Y > 0 => \E q \in P : q.Y + q.H - 1 = p.Y

(* The last panel ends in the corner, and each hangs on another's border.  *)
LEMMA Anchored ==
  ASSUME NEW w \in Int, NEW a \in 9 .. 12, NEW b \in 7 .. 10, NEW c \in Int, c >= 10,
         NEW g \in {1, 4, 5, 6}, NEW P, P = AllPanels(w, a, b, c, g)
  PROVE  InCorner(P, w, a + b + c - 2) /\ Hangs(P)
<1> DEFINE host == Panel("host", 0, 0, HostCol + 1, a)
           cpu == Panel("cpu", HostCol, 0, w - HostCol, a)
           mem == Panel("mem", 0, a - 1, HostCol + 1, b)
           net == Panel("net", HostCol, a - 1, NetCol + 1, b)
           disk == Panel("disk", HostCol + NetCol, a - 1, w - HostCol - NetCol, b)
           proc == Panel("proc", 0, a + b - 2 + g - 1, w, c - g + 1)
           gpu == Panel("gpu", 0, a + b - 2, w, g)
<1>1. /\ host.X = 0 /\ host.Y = 0 /\ host.W = 37 /\ host.H = a
      /\ cpu.X = 36 /\ cpu.Y = 0
      /\ mem.X = 0 /\ mem.Y = a - 1 /\ mem.W = 37 /\ mem.H = b
      /\ net.X = 36 /\ net.Y = a - 1 /\ net.W = 33
      /\ disk.X = 68 /\ disk.Y = a - 1
      /\ proc.X = 0 /\ proc.Y = a + b - 3 + g /\ proc.W = w /\ proc.H = c - g + 1
      /\ gpu.X = 0 /\ gpu.Y = a + b - 2 /\ gpu.H = g
  BY DEF Panel, HostCol, NetCol
<1>2. /\ P \subseteq {host, cpu, mem, net, disk, proc, gpu}
      /\ {host, mem, net, proc} \subseteq P
      /\ g # 1 => gpu \in P
      /\ g = 1 => gpu \notin P \/ gpu \in {host, cpu, mem, net, disk, proc}
  BY DEF AllPanels, BandAPanels, BandBPanels, BandCPanels
<1> HIDE DEF host, cpu, mem, net, disk, proc, gpu
<1>3. \E p \in P : p.X + p.W = w /\ p.Y + p.H = a + b + c - 2
  <2>1. proc.X + proc.W = w /\ proc.Y + proc.H = a + b + c - 2
    BY <1>1
  <2> QED BY <1>2, <2>1
<1>4. ASSUME NEW p \in P, p.X > 0 PROVE \E q \in P : q.X + q.W - 1 = p.X /\ q.Y = p.Y
  <2>1. p \in {cpu, net, disk}
    BY <1>1, <1>2, <1>4
  <2>2. CASE p = cpu
    BY <1>1, <1>2, <2>2
  <2>3. CASE p = net
    BY <1>1, <1>2, <2>3
  <2>4. CASE p = disk
    BY <1>1, <1>2, <2>4
  <2> QED BY <2>1, <2>2, <2>3, <2>4
<1>5. ASSUME NEW p \in P, p.Y > 0 PROVE \E q \in P : q.Y + q.H - 1 = p.Y
  <2>1. CASE p \in {mem, net, disk}
    BY <1>1, <1>2, <2>1
  <2>2. CASE p = gpu \/ (p = proc /\ g = 1)
    BY <1>1, <1>2, <2>2
  <2>3. CASE p = proc /\ g # 1
    BY <1>1, <1>2, <2>3
  <2> QED BY <1>1, <1>2, <1>5, <2>1, <2>2, <2>3
<1> QED BY <1>3, <1>4, <1>5 DEF InCorner, Hangs

(* The inputs of the layout.                                               *)
Counts == {"cores", "gpus", "nets", "mounts", "sensors", "busy", "procs", "freq", "swap", "zram", "extras"}
Reports ==
  {s \in [Counts -> Nat] : s.swap \in 0 .. 1 /\ s.zram \in 0 .. 1 /\ s.extras \in 0 .. 4}
LayoutOK == size \in Int \X Int /\ density \in 0 .. 2 /\ sample \in Reports

(* Whatever the size, the density and the sample, the grid's panels tile   *)
(* it.                                                                     *)
LEMMA LayoutTiles ==
  ASSUME LayoutOK
  PROVE  PanelsTile
<1> SUFFICES ASSUME Grid PROVE PanelsTile
  BY DEF PanelsTile
<1> DEFINE w == Width
           h == Height
           a == BandA(h)
           b == BandB(h)
           c == BandC(h)
           g == GpuH(Gpus)
           P == GridPanels(w, h, density, Gpus)
<1>1. w \in Int /\ h \in Int /\ w >= 112 /\ h >= 24 /\ Gpus \in Nat
  BY DEF LayoutOK, Reports, Counts, Grid, Class, Width, Height, Gpus
<1> HIDE DEF w, h
<1>2. a \in 9 .. 12 /\ b \in 7 .. 10 /\ c \in Int /\ c >= 10
  BY <1>1, Bands
<1>3. g \in {1, 4, 5, 6}
  BY <1>1, GpuRows
<1>4. h = a + b + c - 2
  BY <1>1, <1>2 DEF BandC
<1>5. /\ P \subseteq AllPanels(w, a, b, c, g)
      /\ density # 2 => P = AllPanels(w, a, b, c, g)
  BY DEF GridPanels, AllPanels
<1> HIDE DEF a, b, c, g, P
<1>6. Inside(P, w, h) /\ Apart(P)
  <2> DEFINE F == AllPanels(w, a, b, c, g)
             rows == a + b + c - 2
  <2>1. Inside(F, w, rows) /\ Apart(F)
    BY <1>1, <1>2, <1>3, Tiling
  <2>2. P \subseteq F /\ rows = h
    BY <1>4, <1>5
  <2> HIDE DEF F, rows
  <2> QED BY <2>1, <2>2 DEF Inside, Apart
<1>7. ASSUME NEW p \in P, NEW q \in P \ {p}
      PROVE  /\ InsideRows(p) \cap InsideRows(q) = {} \/ InsideCols(p) \cap InsideCols(q) = {}
             /\ p.X + p.W # q.X /\ p.Y + p.H # q.Y
  BY <1>6, ApartInside DEF Inside, Apart
<1>8. density # 2 =>
        /\ \E p \in P : p.X + p.W = w /\ p.Y + p.H = h
        /\ \A p \in P : p.X > 0 => \E q \in P : q.X + q.W - 1 = p.X /\ q.Y = p.Y
        /\ \A p \in P : p.Y > 0 => \E q \in P : q.Y + q.H - 1 = p.Y
  <2> DEFINE F == AllPanels(w, a, b, c, g)
             rows == a + b + c - 2
  <2>1. InCorner(F, w, rows) /\ Hangs(F)
    BY <1>1, <1>2, <1>3, Anchored
  <2>2. (density # 2 => P = F) /\ rows = h
    BY <1>4, <1>5
  <2> HIDE DEF F, rows
  <2> QED BY <2>1, <2>2 DEF InCorner, Hangs
<1> QED BY <1>6, <1>7, <1>8 DEF PanelsTile, Inside, Apart, w, h, P

(* Every step keeps them.                                                  *)
LEMMA LayoutStep ==
  ASSUME LayoutOK, [DashNext]_dashVars
  PROVE  LayoutOK'
<1> USE DEF LayoutOK
<1>1. ASSUME NEW s \in Sizes, SetSize(s) PROVE LayoutOK'
  BY <1>1 DEF SetSize
<1>2. ASSUME NEW l \in Looks, SetTheme(l) PROVE LayoutOK'
  BY <1>2 DEF SetTheme
<1>3. ASSUME NEW s \in Shapes, DashSnapshot(s) PROVE LayoutOK'
  <2>1. s \in [cores : Nat, gpus : Nat, nets : Nat, mounts : Nat, sensors : Nat, busy : Nat, procs : Nat,
                freq : 0 .. 1, swap : 0 .. 1, zram : 0 .. 1, extras : 0 .. 4]
    BY DashAssumption DEF DashAssumption
  <2>2. s \in Reports
    BY <2>1 DEF Reports, Counts
  <2> QED BY <1>3, <2>2 DEF DashSnapshot
<1>4. CASE CycleDensity
  BY <1>4 DEF CycleDensity
<1>5. CASE DashView \/ UNCHANGED dashVars
  BY <1>5 DEF DashView
<1> QED BY <1>1, <1>2, <1>3, <1>4, <1>5 DEF DashNext

(* Whatever the terminal's size, the density and the adapters, the panels  *)
(* of the grid tile the frame.                                             *)
THEOREM PanelsAlwaysTile == DashSpec => []PanelsTile
<1>1. DashInit => LayoutOK
  BY DEF DashInit, LayoutOK, Reports, Counts, NoSample
<1>2. ASSUME LayoutOK, [DashNext]_dashVars PROVE LayoutOK'
  BY <1>2, LayoutStep
<1> QED BY <1>1, <1>2, LayoutTiles, PTL DEF DashSpec

-----------------------------------------------------------------------------
(* What the panels of the grid are given.                                  *)

(* The larger and the smaller of two numbers.                              *)
LEMMA Smallest ==
  ASSUME NEW i \in Int, NEW j \in Int
  PROVE  /\ Smaller(i, j) \in Int /\ Smaller(i, j) <= i /\ Smaller(i, j) <= j /\ Smaller(i, j) \in {i, j}
         /\ Larger(i, j) \in Int /\ Larger(i, j) >= i /\ Larger(i, j) >= j /\ Larger(i, j) \in {i, j}
BY DEF Smaller, Larger

(* At most eight cores in a row.                                           *)
LEMMA CellsInARow ==
  ASSUME NEW n \in Int
  PROVE  CoreGraphW(n) \in 8 .. 24 /\ CellsPerRow(n) \in 1 .. 8
<1> DEFINE q == n \div 6
<1>1. q \in Int
  OBVIOUS
<1>2. CoreGraphW(n) = Clamp(q - 8, 8, 24)
  BY DEF CoreGraphW
<1> HIDE DEF q
<1>3. CoreGraphW(n) \in 8 .. 24
  BY <1>1, <1>2 DEF Clamp, Smaller, Larger
<1> DEFINE k == CoreGraphW(n) + 7
           r == n \div k
<1>4. k \in 15 .. 31
  BY <1>3
<1> HIDE DEF k
<1>5. r \in Int
  BY <1>4
<1>6. CellsPerRow(n) = Clamp(r, 1, 8)
  BY DEF CellsPerRow, k
<1> HIDE DEF r
<1> QED BY <1>3, <1>5, <1>6 DEF Clamp, Smaller, Larger

(* Rows of m cells are no more than those of b full rows.                  *)
LEMMA RowsNeeded ==
  ASSUME NEW m \in 1 .. 8, NEW b \in {1, 2}, NEW n \in Nat, n <= m * b
  PROVE  (n + m - 1) \div m \in Int /\ (n + m - 1) \div m <= b
<1>1. CASE m = 1
  BY <1>1
<1>2. CASE m = 2
  BY <1>2
<1>3. CASE m = 3
  BY <1>3
<1>4. CASE m = 4
  BY <1>4
<1>5. CASE m = 5
  BY <1>5
<1>6. CASE m = 6
  BY <1>6
<1>7. CASE m = 7
  BY <1>7
<1>8. CASE m = 8
  BY <1>8
<1> QED BY <1>1, <1>2, <1>3, <1>4, <1>5, <1>6, <1>7, <1>8

(* What every panel of the grid is, for bands of a, b and c rows.          *)
GridPanel(p, w, a, b, c, g) ==
  \/ p.name \in {"host", "cpu"} /\ p.H = a
  \/ p.name \in {"mem", "net"} /\ p.H = b
  \/ p.name = "disk" /\ p.H = b /\ p.W = w - 68
  \/ p.name = "proc" /\ p.H = c - g + 1
  \/ p.name = "gpu" /\ p.H = g /\ g # 1

(* The panels of the grid are those.                                       *)
LEMMA GridPanelRows ==
  ASSUME NEW w \in Int, NEW a \in 9 .. 12, NEW b \in 7 .. 10, NEW c \in Int, c >= 10,
         NEW g \in {1, 4, 5, 6}, NEW p \in AllPanels(w, a, b, c, g)
  PROVE  p.H \in Int /\ p.H >= 3 /\ GridPanel(p, w, a, b, c, g)
<1>1. CASE p \in BandAPanels(w, a)
  BY <1>1 DEF BandAPanels, Panel, GridPanel
<1>2. CASE p \in BandBPanels(w, a, b)
  BY <1>2 DEF BandBPanels, Panel, GridPanel, HostCol, NetCol
<1>3. CASE p \in BandCPanels(w, a + b - 2, c, g)
  BY <1>3 DEF BandCPanels, Panel, GridPanel
<1> QED BY <1>1, <1>2, <1>3 DEF AllPanels

(* The graphs of the cores, in three to six rows: one line too many is the *)
(* note that counts the cores without one.                                 *)
LEMMA CoreGraphsFit ==
  ASSUME NEW n \in Int, NEW cores \in Nat, NEW r \in 3 .. 6
  PROVE  /\ CoreGridLines(n, cores, r) \in Int /\ CoreGridLines(n, cores, r) <= r + 1
         /\ CoreGridLines(n, cores, r) = r + 1 => Smaller(cores, CellsPerRow(n) * (r \div 3)) < cores
<1> DEFINE m == CellsPerRow(n)
           b == r \div 3
           k == m * b
           shown == Smaller(cores, k)
           drawn == (shown + m - 1) \div m
<1>1. m \in 1 .. 8
  BY CellsInARow
<1>2. b \in {1, 2} /\ 3 * b <= r
  OBVIOUS
<1> HIDE DEF m, b
<1>3. k \in Nat
  BY <1>1, <1>2
<1>4. shown \in Nat /\ shown <= k
  <2> HIDE DEF k
  <2> QED BY <1>3 DEF Smaller
<1> HIDE DEF shown
<1>5. drawn \in Int /\ drawn <= b
  BY <1>1, <1>2, <1>4, RowsNeeded
<1> HIDE DEF drawn
<1>6. CoreGridLines(n, cores, r) =
        IF cores = 0 THEN 0 ELSE 3 * drawn + (IF shown < cores /\ drawn < r THEN 1 ELSE 0)
  BY DEF CoreGridLines, m, b, shown, drawn, k
<1>7. /\ CoreGridLines(n, cores, r) \in Int /\ CoreGridLines(n, cores, r) <= r + 1
      /\ CoreGridLines(n, cores, r) = r + 1 => shown < cores
  BY <1>2, <1>5, <1>6
<1> QED BY <1>7 DEF shown, k, m, b

(* The lines of the CPU panel: only with a graph for every core can there  *)
(* be one too many.                                                        *)
LEMMA CpuFits ==
  ASSUME NEW n \in Int, n > 20, NEW a \in 9 .. 12, NEW d \in 0 .. 2, NEW s \in [Counts -> Nat]
  PROVE  /\ CpuLines(n, a - 2, d = 0, d, s) \in Int
         /\ CpuLines(n, a - 2, d = 0, d, s) <= a - 1
         /\ CpuLines(n, a - 2, d = 0, d, s) = a - 1 =>
              d = 0 /\ Smaller(s.cores, CellsPerRow(n) * ((a - 6) \div 3)) < s.cores
<1>1. s.cores \in Nat
  BY DEF Counts
<1>2. CASE d = 0
  <2> DEFINE r == a - 6
             graphs == CoreGridLines(n, s.cores, r)
             unshown == Smaller(s.cores, CellsPerRow(n) * (r \div 3)) < s.cores
  <2>1. r \in 3 .. 6
    OBVIOUS
  <2>2. a - 2 - 4 = r
    OBVIOUS
  <2>3. CpuLines(n, a - 2, d = 0, d, s) = 4 + CoreGridLines(n, s.cores, a - 2 - 4)
    BY <1>2 DEF CpuLines
  <2>4. CpuLines(n, a - 2, d = 0, d, s) = 4 + graphs
    BY <2>2, <2>3
  <2> HIDE DEF r
  <2>5. graphs \in Int /\ graphs <= r + 1 /\ (graphs = r + 1 => unshown)
    BY <1>1, <2>1, CoreGraphsFit
  <2> HIDE DEF graphs, unshown
  <2>6. r = a - 6
    BY DEF r
  <2>7. /\ CpuLines(n, a - 2, d = 0, d, s) \in Int
        /\ CpuLines(n, a - 2, d = 0, d, s) <= a - 1
        /\ CpuLines(n, a - 2, d = 0, d, s) = a - 1 => unshown
    BY <2>4, <2>5, <2>6
  <2> QED BY <1>2, <2>7 DEF unshown, r
<1>3. CASE d # 0
  <2>1. CpuLines(n, a - 2, d = 0, d, s) \in 4 .. 6
    BY <1>3 DEF CpuLines
  <2> QED BY <2>1
<1> QED BY <1>2, <1>3

(* The lines of the host panel: those over its rows are facts.             *)
LEMMA HostClips ==
  ASSUME NEW r \in 7 .. 10, NEW s \in Reports
  PROVE  /\ HostLines(s, r) - r <= 4
         /\ HostLines(s, r) - r > 0 => HostLines(s, r) = HostFacts(s)
<1> DEFINE n == HostFacts(s)
<1>1. s.extras \in 0 .. 4 /\ s.sensors \in Nat
  BY DEF Reports, Counts
<1>2. n \in 5 .. 11
  BY <1>1 DEF HostFacts, Smaller
<1>3. HostLines(s, r) = n + (IF r - n >= 2 THEN 2 ELSE 0)
  BY DEF HostLines
<1> HIDE DEF n
<1>4. /\ HostLines(s, r) - r <= 4
      /\ HostLines(s, r) - r > 0 => HostLines(s, r) = n
  BY <1>2, <1>3
<1> QED BY <1>4 DEF n

(* The lines of the memory panel: those over its rows are graphs, but for  *)
(* the sixth meter in five rows.                                           *)
LEMMA MemClips ==
  ASSUME NEW r \in 5 .. 8, NEW s \in Reports, NEW d \in 0 .. 2
  PROVE  \/ MemLines(s, d) - r <= MemGraphs(s, d)
         \/ r = 5 /\ s.swap = 1 /\ s.zram = 1 /\ MemLines(s, d) - r = MemGraphs(s, d) + 1
<1> DEFINE k == MemGraphs(s, d)
<1>1. s.swap \in 0 .. 1 /\ s.zram \in 0 .. 1
  BY DEF Reports, Counts
<1>2. k \in 0 .. 3
  BY <1>1 DEF MemGraphs
<1>3. MemLines(s, d) = Larger(5, 3 + s.swap + 2 * s.zram) + k
  BY DEF MemLines, MemMeters
<1> HIDE DEF k
<1>4. \/ MemLines(s, d) - r <= k
      \/ r = 5 /\ s.swap = 1 /\ s.zram = 1 /\ MemLines(s, d) - r = k + 1
  BY <1>1, <1>2, <1>3 DEF Larger
<1> QED BY <1>4 DEF k

(* What the grid gives a panel overflows it by what ClippingBounded says,  *)
(* and by no more.                                                         *)
LEMMA ClippingIsBounded ==
  ASSUME LayoutOK
  PROVE  ClippingBounded
<1> DEFINE w == Width
           h == Height
           a == BandA(h)
           b == BandB(h)
           c == BandC(h)
           g == GpuH(Gpus)
           s == sample
           d == density
<1> SUFFICES ASSUME Grid, NEW p \in GridPanels(w, h, d, Gpus)
    PROVE  LET rows == p.H - 2
               over == GridLines(p, w, d, s) - rows
           IN /\ p.name \in {"net", "gpu", "proc"} => over <= 0
              /\ p.name = "cpu" => /\ over <= 1
                                   /\ over = 1 => d = 0 /\ CoresShown(w, h, Cores) < Cores
              /\ p.name = "disk" => over <= 1 /\ (over = 1 => s.mounts + s.busy > rows)
              /\ p.name = "host" => over <= 4 /\ (over > 0 => over = HostFacts(s) - rows)
              /\ p.name = "mem" =>
                   \/ over <= MemGraphs(s, d)
                   \/ rows = 5 /\ s.swap = 1 /\ s.zram = 1 /\ over = MemGraphs(s, d) + 1
  BY DEF ClippingBounded
<1> DEFINE lines == GridLines(p, w, d, s)
           rows == p.H - 2
<1>1. /\ w \in Int /\ h \in Int /\ w >= 112 /\ h >= 24 /\ Gpus \in Nat /\ d \in 0 .. 2
      /\ s \in Reports
  BY DEF LayoutOK, Reports, Counts, Grid, Class, Width, Height, Gpus
<1>2. p \in AllPanels(w, a, b, c, g)
  BY DEF GridPanels, AllPanels
<1>3. /\ s.cores \in Nat /\ s.gpus \in Nat /\ s.nets \in Nat /\ s.mounts \in Nat
      /\ s.busy \in Nat /\ s.procs \in Nat /\ s \in [Counts -> Nat] /\ Cores = s.cores
  BY <1>1 DEF Reports, Counts, Cores
<1>4. CoresShown(w, h, s.cores) =
        IF a - 2 - 4 < 3 THEN 0 ELSE Smaller(s.cores, CellsPerRow(w - 36 - 2) * ((a - 2 - 4) \div 3))
  BY DEF CoresShown, HostCol
<1> HIDE DEF w, h, d, s
<1>5. a \in 9 .. 12 /\ b \in 7 .. 10 /\ c \in Int /\ c >= 10
  BY <1>1, Bands
<1>6. g \in {1, 4, 5, 6}
  BY <1>1, GpuRows
<1> HIDE DEF a, b, c, g
<1>7. p.H \in Int /\ p.H >= 3 /\ GridPanel(p, w, a, b, c, g)
  BY <1>1, <1>2, <1>5, <1>6, GridPanelRows
<1>8. CASE p.name = "host"
  <2>1. rows = a - 2 /\ rows \in 7 .. 10
    BY <1>5, <1>7, <1>8 DEF GridPanel
  <2>2. lines = HostLines(s, rows)
    BY <1>8 DEF GridLines
  <2> HIDE DEF lines, rows
  <2>3. lines - rows <= 4 /\ (lines - rows > 0 => lines - rows = HostFacts(s) - rows)
    BY <1>1, <2>1, <2>2, HostClips
  <2> QED BY <1>8, <2>3 DEF lines, rows
<1>9. CASE p.name = "cpu"
  <2> DEFINE n == w - HostCol - 2
  <2>1. n \in Int /\ n > 20
    BY <1>1 DEF HostCol
  <2>2. p.H = a
    BY <1>7, <1>9 DEF GridPanel
  <2>3. lines = CpuLines(n, a - 2, d = 0, d, s)
    BY <1>9, <2>2 DEF GridLines
  <2> DEFINE unshown == Smaller(s.cores, CellsPerRow(n) * ((a - 6) \div 3)) < s.cores
  <2> HIDE DEF n, lines
  <2>4. lines \in Int /\ lines <= a - 1 /\ (lines = a - 1 => d = 0 /\ unshown)
    BY <1>1, <1>3, <1>5, <2>1, <2>3, CpuFits
  <2>5. unshown => CoresShown(w, h, Cores) < Cores
    <3>1. a - 2 - 4 = a - 6 /\ ~(a - 2 - 4 < 3)
      BY <1>5
    <3> QED BY <1>3, <1>4, <3>1 DEF n, HostCol
  <2> HIDE DEF unshown
  <2>6. lines - rows <= 1 /\ (lines - rows = 1 => d = 0 /\ unshown)
    BY <1>5, <2>2, <2>4
  <2> QED BY <1>9, <2>5, <2>6 DEF lines
<1>10. CASE p.name = "mem"
  <2>1. rows = b - 2 /\ rows \in 5 .. 8
    BY <1>5, <1>7, <1>10 DEF GridPanel
  <2>2. lines = MemLines(s, d)
    BY <1>10 DEF GridLines
  <2> HIDE DEF lines, rows
  <2>3. \/ lines - rows <= MemGraphs(s, d)
        \/ rows = 5 /\ s.swap = 1 /\ s.zram = 1 /\ lines - rows = MemGraphs(s, d) + 1
    BY <1>1, <2>1, <2>2, MemClips
  <2> QED BY <1>10, <2>3 DEF lines, rows
<1>11. CASE p.name = "net"
  <2>1. p.H = b
    BY <1>7, <1>11 DEF GridPanel
  <2>2. lines = NetLines(s, b - 7)
    BY <1>11, <2>1 DEF GridLines
  <2> HIDE DEF lines
  <2>3. lines - rows <= 0
    BY <1>3, <1>5, <2>1, <2>2 DEF NetLines, Smaller, Larger
  <2> QED BY <1>11, <2>3 DEF lines
<1>12. CASE p.name = "disk"
  <2>1. p.H = b /\ p.W = w - 68
    BY <1>7, <1>12 DEF GridPanel
  <2>2. lines = DiskLines(s, p.W - 2, Larger(2, p.H - 2))
    BY <1>12 DEF GridLines
  <2> HIDE DEF lines
  <2>3. /\ lines - rows <= 1
        /\ lines - rows = 1 => s.mounts + s.busy > rows
    BY <1>1, <1>3, <1>5, <2>1, <2>2 DEF DiskLines, Smaller, Larger
  <2> QED BY <1>12, <2>3 DEF lines
<1>13. CASE p.name = "gpu"
  <2>1. lines = GpuLines(s, p.H - 2)
    BY <1>13 DEF GridLines
  <2> HIDE DEF lines
  <2>2. lines - rows <= 0
    BY <1>3, <1>7, <2>1 DEF GpuLines, Smaller
  <2> QED BY <1>13, <2>2 DEF lines
<1>14. CASE p.name = "proc"
  <2>1. p.H = c - g + 1
    BY <1>7, <1>14 DEF GridPanel
  <2>2. lines = ProcLines(s, Larger(2, p.H - 3))
    BY <1>14 DEF GridLines
  <2> HIDE DEF lines
  <2>3. lines - rows <= 0
    BY <1>3, <1>5, <1>6, <2>1, <2>2 DEF ProcLines, Smaller, Larger
  <2> QED BY <1>14, <2>3 DEF lines
<1> QED BY <1>7, <1>8, <1>9, <1>10, <1>11, <1>12, <1>13, <1>14 DEF GridPanel

-----------------------------------------------------------------------------
(* How wide the graphs are.                                                *)

(* The strengthening: the graphs were made for the current size, under     *)
(* some density; a core graph exists for every core of the sample, as wide *)
(* as the current size makes it.                                           *)
SizedInv ==
  /\ DOMAIN coreW = 0 .. Cores - 1
  /\ Sized => /\ \E d \in 0 .. 2 : graphW = GraphWidths(Width, Height, d)
              /\ \A i \in DOMAIN coreW : coreW[i] = CoreGraphW(Width - HostCol - 2)

(* Every step keeps it.                                                    *)
LEMMA SizedStep ==
  ASSUME LayoutOK, SizedInv, [DashNext]_dashVars
  PROVE  SizedInv'
<1>1. ASSUME NEW s \in Sizes, SetSize(s) PROVE SizedInv'
  <2>1. size' = s /\ density' = density /\ sample' = sample
    BY <1>1 DEF SetSize
  <2>2. Width' = s[1] /\ Height' = s[2] /\ Cores' = Cores
    BY <2>1 DEF Width, Height, Cores
  <2>3. CASE s[1] < 1 \/ s[2] < 1
    <3>1. s[1] \in Int /\ s[2] \in Int
      OBVIOUS
    <3>2. ~Sized' /\ coreW' = coreW
      BY <1>1, <2>2, <2>3, <3>1 DEF SetSize, Sized
    <3> QED BY <2>2, <3>2 DEF SizedInv
  <2>4. CASE ~(s[1] < 1 \/ s[2] < 1)
    <3>1. /\ graphW' = GraphWidths(Width', Height', density)
          /\ coreW' = [i \in DOMAIN coreW |-> CoreGraphW(Width' - HostCol - 2)]
      BY <1>1, <2>2, <2>4 DEF SetSize
    <3>2. density \in 0 .. 2
      BY DEF LayoutOK
    <3>3. DOMAIN coreW' = 0 .. Cores' - 1
      BY <2>2, <3>1 DEF SizedInv
    <3>4. \A i \in DOMAIN coreW' : coreW'[i] = CoreGraphW(Width' - HostCol - 2)
      BY <3>1
    <3> QED BY <3>1, <3>2, <3>3, <3>4 DEF SizedInv
  <2> QED BY <2>3, <2>4
<1>2. ASSUME NEW s \in Shapes, DashSnapshot(s) PROVE SizedInv'
  <2>1. /\ size' = size /\ graphW' = graphW /\ sample' = s
        /\ coreW' = RecordCores(s.cores)
    BY <1>2 DEF DashSnapshot
  <2>2. Width' = Width /\ Height' = Height /\ Cores' = s.cores /\ (Sized' <=> Sized)
    BY <2>1 DEF Width, Height, Cores, Sized
  <2>3. DOMAIN coreW' = 0 .. s.cores - 1
    BY <2>1 DEF RecordCores
  <2>4. ASSUME NEW i \in 0 .. s.cores - 1
        PROVE  coreW'[i] = IF i \in DOMAIN coreW THEN coreW[i] ELSE CoreGraphW(Width - HostCol - 2)
    BY <2>1 DEF RecordCores
  <2> QED BY <2>1, <2>2, <2>3, <2>4 DEF SizedInv
<1>3. CASE UNCHANGED <<size, sample, graphW, coreW>>
  BY <1>3 DEF SizedInv, Sized, Width, Height, Cores
<1>4. ASSUME NEW l \in Looks, SetTheme(l) PROVE UNCHANGED <<size, sample, graphW, coreW>>
  BY <1>4 DEF SetTheme
<1>5. CycleDensity \/ DashView \/ UNCHANGED dashVars => UNCHANGED <<size, sample, graphW, coreW>>
  BY DEF CycleDensity, DashView
<1> QED BY <1>1, <1>2, <1>3, <1>4, <1>5 DEF DashNext

(* Graphs made for the current size fit the panels of that size, whatever  *)
(* the density was and is.                                                 *)
LEMMA SizedGraphsFit ==
  ASSUME LayoutOK, SizedInv
  PROVE  GraphsFit
<1> SUFFICES ASSUME Sized, Width >= 36 PROVE GraphsFit
  BY DEF GraphsFit
<1>1. Width \in Int /\ Height \in Int /\ Cores \in Nat
  BY DEF LayoutOK, Reports, Counts, Width, Height, Cores
<1>2. PICK d \in 0 .. 2 : graphW = GraphWidths(Width, Height, d)
  BY DEF SizedInv
<1>3. \A g \in {"cpu", "mem", "net"} : graphW[g] <= Room(Width, Height)[g]
  <2> DEFINE w == Width
             half == Width \div 2
             class == Class(Width, Height)
  <2>1. half \in Int /\ w \in Int
    BY <1>1
  <2>2. \/ class = "narrow" /\ w < 80
        \/ class = "stacked" /\ w >= 80
        \/ class = "grid" /\ w >= 112
    BY <1>1 DEF Class
  <2>3. CASE class = "narrow"
    <3>1. graphW = [cpu |-> Larger(16, w - 6), mem |-> Larger(12, half - 8), net |-> Larger(12, w - 6)]
      BY <1>2, <2>3 DEF GraphWidths
    <3>2. Room(Width, Height) = [load |-> w - 2, cpu |-> w - 2,
                                 mem |-> Larger(20, 2 * Larger(12, half - 8) + 2), net |-> w - 2]
      BY <2>3 DEF Room
    <3> HIDE DEF half, w
    <3>3. Larger(16, w - 6) <= w - 2 /\ Larger(12, w - 6) <= w - 2
      BY <2>1, <2>2 DEF Larger, w
    <3>4. Larger(12, half - 8) <= Larger(20, 2 * Larger(12, half - 8) + 2)
      BY <2>1 DEF Larger
    <3> QED BY <3>1, <3>2, <3>3, <3>4
  <2>4. CASE class = "stacked"
    <3>1. /\ graphW.cpu = Larger(20, w - HostCol - 8)
          /\ graphW.mem = HostCol - 2 /\ graphW.net = NetCol - 2
      BY <1>2, <2>4 DEF GraphWidths
    <3>2. /\ Room(Width, Height).cpu = w - HostCol - 4
          /\ Room(Width, Height).mem = Larger(20, 2 * Larger(14, HostCol - 6) + 2)
          /\ Room(Width, Height).net = NetCol - 2
      BY <2>4 DEF Room
    <3> HIDE DEF w
    <3> QED BY <2>1, <2>2, <2>4, <3>1, <3>2 DEF Larger, HostCol, NetCol
  <2>5. CASE class = "grid"
    <3>1. /\ graphW.cpu \in {Larger(20, w - HostCol - 8), Larger(20, w - HostCol - 2)}
          /\ graphW.mem = HostCol - 2 /\ graphW.net = NetCol - 2
      BY <1>2, <2>5 DEF GraphWidths
    <3>2. /\ Room(Width, Height).cpu = w - HostCol - 2
          /\ Room(Width, Height).mem = HostCol - 1
          /\ Room(Width, Height).net = NetCol - 1
      BY <2>5 DEF Room
    <3> HIDE DEF w
    <3> QED BY <2>1, <2>2, <2>5, <3>1, <3>2 DEF Larger, HostCol, NetCol
  <2> QED BY <2>2, <2>3, <2>4, <2>5
<1>4. ASSUME Grid, NEW i \in 0 .. CoresShown(Width, Height, Cores) - 1
      PROVE  i \in DOMAIN coreW /\ coreW[i] = CoreGraphW(Width - HostCol - 2)
  <2> DEFINE n == Width - HostCol - 2
             r == BandA(Height) - 2 - 4
             k == CellsPerRow(n) * (r \div 3)
  <2>1. n \in Int
    BY <1>1 DEF HostCol
  <2>2. CellsPerRow(n) \in 1 .. 8
    BY <2>1, CellsInARow
  <2>3. Height >= 24
    BY <1>1, <1>4 DEF Grid, Class
  <2>4. BandA(Height) \in 9 .. 12
    BY <1>1, <2>3, Bands
  <2>5. r \in Int /\ r \div 3 \in Int
    BY <2>4
  <2> HIDE DEF n, r
  <2>6. k \in Int
    BY <2>2, <2>5
  <2>7. CoresShown(Width, Height, Cores) = IF r < 3 THEN 0 ELSE Smaller(Cores, k)
    BY DEF CoresShown, n, r
  <2> HIDE DEF k
  <2>8. CoresShown(Width, Height, Cores) \in Int /\ CoresShown(Width, Height, Cores) <= Cores
    BY <1>1, <2>6, <2>7 DEF Smaller
  <2>9. i \in 0 .. Cores - 1
    BY <1>1, <2>8
  <2> QED BY <2>9 DEF SizedInv
<1> QED BY <1>3, <1>4 DEF GraphsFit

(* No graph is wider than its panel, and the lines clipped are those that  *)
(* ClippingBounded names, panel by panel, for every sequence of sizes,     *)
(* samples, densities and themes (gridPanels, SetSize and the panels'      *)
(* views).                                                                 *)
THEOREM PanelContentsHold == DashSpec => []PanelContents
<1>1. DashInit => LayoutOK /\ SizedInv
  BY DEF DashInit, LayoutOK, Reports, Counts, NoSample, SizedInv, Sized, Width, Height, Cores
<1>2. ASSUME LayoutOK, SizedInv, [DashNext]_dashVars PROVE SizedInv'
  BY <1>2, SizedStep
<1>3. ASSUME LayoutOK, [DashNext]_dashVars PROVE LayoutOK'
  BY <1>3, LayoutStep
<1>4. LayoutOK /\ SizedInv => PanelContents
  BY ClippingIsBounded, SizedGraphsFit DEF PanelContents
<1> QED BY <1>1, <1>2, <1>3, <1>4, PTL DEF DashSpec

(* Every variable of the dashboard stays in its domain, a graph exists for *)
(* exactly the cores of the last sample, and every ring has room for a     *)
(* column, in any terminal and after any sequence of resizes.              *)
THEOREM DashTypeCorrect == DashSpec => []DashTypeOK
<1> DEFINE Typed == /\ size \in Sizes \cup {<<0, 0>>} /\ density \in 0 .. 2 /\ look \in Looks
                    /\ sample \in Shapes \cup {NoSample}
                    /\ frame = NoFrame \/ frame.built
           Wide == \A g \in {"cpu", "mem", "net"} : graphW[g] >= 12
           Cells == \A i \in DOMAIN coreW : coreW[i] \in 8 .. 24
<1>1. ASSUME DashInit PROVE LayoutOK /\ SizedInv /\ Typed /\ Wide /\ Cells
  BY <1>1 DEF DashInit, LayoutOK, Reports, Counts, NoSample, SizedInv, Sized, Width, Height, Cores, NetCol
<1>2. ASSUME NEW n \in Int PROVE CoreGraphW(n) \in 8 .. 24
  <2> DEFINE q == n \div 6 - 8
  <2>1. q \in Int
    OBVIOUS
  <2> HIDE DEF q
  <2>2. CoreGraphW(n) = Clamp(q, 8, 24)
    BY DEF CoreGraphW, q
  <2> QED BY <2>1, <2>2 DEF Clamp, Smaller, Larger
<1>3. ASSUME NEW w \in Int, NEW h \in Int, NEW d, NEW g \in {"cpu", "mem", "net"}
      PROVE  GraphWidths(w, h, d)[g] >= 12
  <2> DEFINE half == w \div 2
  <2>1. half \in Int
    OBVIOUS
  <2>2. /\ Larger(16, w - 6) >= 12 /\ Larger(12, w - 6) >= 12
        /\ Larger(20, w - HostCol - 2) >= 12 /\ Larger(20, w - HostCol - 8) >= 12
        /\ HostCol - 2 >= 12 /\ NetCol - 2 >= 12
    BY DEF Larger, HostCol, NetCol
  <2> HIDE DEF half
  <2>3. Larger(12, half - 8) >= 12
    BY <2>1 DEF Larger
  <2>4. \/ GraphWidths(w, h, d) = [cpu |-> Larger(16, w - 6), mem |-> Larger(12, half - 8),
                                   net |-> Larger(12, w - 6)]
        \/ \E c \in {Larger(20, w - HostCol - 2), Larger(20, w - HostCol - 8)} :
             GraphWidths(w, h, d) = [cpu |-> c, mem |-> HostCol - 2, net |-> NetCol - 2]
    BY DEF GraphWidths, half
  <2> QED BY <2>2, <2>3, <2>4
<1>4. ASSUME LayoutOK, SizedInv, Typed, Wide, Cells, [DashNext]_dashVars
      PROVE  Typed' /\ Wide' /\ Cells'
  <2>1. size \in Int \X Int
    BY <1>4 DEF LayoutOK
  <2>2. ASSUME NEW s \in Sizes, SetSize(s) PROVE Typed' /\ Wide' /\ Cells'
    <3>1. s[1] \in Int /\ s[2] \in Int /\ s[1] - HostCol - 2 \in Int
      BY DashAssumption DEF DashAssumption, HostCol
    <3>2. Typed'
      BY <1>4, <2>2 DEF SetSize
    <3>3. CASE UNCHANGED <<graphW, coreW>>
      BY <1>4, <3>2, <3>3
    <3>4. CASE /\ graphW' = GraphWidths(s[1], s[2], density)
               /\ coreW' = [i \in DOMAIN coreW |-> CoreGraphW(s[1] - HostCol - 2)]
      <4>1. Wide'
        BY <1>3, <3>1, <3>4
      <4>2. CoreGraphW(s[1] - HostCol - 2) \in 8 .. 24
        BY <1>2, <3>1
      <4>3. Cells'
        BY <3>4, <4>2
      <4> QED BY <3>2, <4>1, <4>3
    <3> HIDE DEF Typed, Wide, Cells
    <3> QED BY <2>2, <3>3, <3>4 DEF SetSize
  <2>3. ASSUME NEW s \in Shapes, DashSnapshot(s) PROVE Typed' /\ Wide' /\ Cells'
    <3>1. Typed' /\ Wide'
      BY <1>4, <2>3 DEF DashSnapshot
    <3>2. Width - HostCol - 2 \in Int
      BY <2>1 DEF Width, HostCol
    <3>3. CoreGraphW(Width - HostCol - 2) \in 8 .. 24
      BY <1>2, <3>2
    <3>4. Cells'
      BY <1>4, <2>3, <3>3 DEF DashSnapshot, RecordCores
    <3> QED BY <3>1, <3>4
  <2>4. ASSUME NEW l \in Looks, SetTheme(l) PROVE Typed' /\ Wide' /\ Cells'
    BY <1>4, <2>4 DEF SetTheme
  <2>5. CASE CycleDensity
    BY <1>4, <2>5 DEF CycleDensity
  <2>6. CASE DashView
    BY <1>4, <2>6 DEF DashView, Inputs
  <2>7. CASE UNCHANGED dashVars
    BY <1>4, <2>7 DEF dashVars
  <2> HIDE DEF Typed, Wide, Cells
  <2> QED BY <1>4, <2>2, <2>3, <2>4, <2>5, <2>6, <2>7 DEF DashNext
<1>5. ASSUME SizedInv, Typed, Wide, Cells PROVE DashTypeOK
  BY <1>5 DEF SizedInv, DashTypeOK
<1>6. ASSUME LayoutOK, SizedInv, [DashNext]_dashVars PROVE LayoutOK' /\ SizedInv'
  BY <1>6, LayoutStep, SizedStep
<1> HIDE DEF Typed, Wide, Cells
<1> QED BY <1>1, <1>4, <1>5, <1>6, PTL DEF DashSpec
=============================================================================
