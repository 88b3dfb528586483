---------------------------- MODULE ScreenProofs ----------------------------
(***************************************************************************)
(* Proofs about the screen around the tabs and about the settings, for all *)
(* widths, terminals, letters, thresholds, themes and theme files.         *)
(*                                                                         *)
(* A recursive definition has the values it was written for only if there  *)
(* is a function that satisfies it.  The induction behind that is stated   *)
(* for a set of numbers (Climb), from the well-foundedness of the natural  *)
(* numbers.                                                                *)
(***************************************************************************)
EXTENDS Screen, Settings, FiniteSetTheorems, SequenceTheorems, WellFoundedInduction, TLAPS

(* A set of natural numbers has a least one.                               *)
LEMMA LeastNumber ==
  ASSUME NEW T, T \subseteq Nat, T # {}
  PROVE  \E m \in T : \A k \in T : ~(k < m)
<1> DEFINE R == OpToRel(<, Nat)
<1>1. IsWellFoundedOn(R, Nat)
  BY NatLessThanWellFounded
<1>2. \A i, j \in Nat : i < j => <<i, j>> \in R
  BY DEF OpToRel
<1> HIDE DEF R
<1>3. PICK m \in T : \A k \in T : ~ (<<k, m>> \in R)
  BY <1>1, WFMin
<1> QED BY <1>2, <1>3

(* A set that has 0, and the successor of each of its members below n, has *)
(* every number up to n.                                                   *)
LEMMA Climb ==
  ASSUME NEW S, NEW n \in Nat, 0 \in S, \A k \in 0 .. n - 1 : k \in S => k + 1 \in S
  PROVE  0 .. n \subseteq S
<1> DEFINE T == {k \in 0 .. n : k \notin S}
<1> SUFFICES ASSUME T # {} PROVE FALSE
  OBVIOUS
<1>1. PICK k \in T : \A j \in T : ~(j < k)
  <2>1. T \subseteq Nat
    OBVIOUS
  <2> HIDE DEF T
  <2> QED BY <2>1, LeastNumber
<1>2. k \in 0 .. n /\ k \notin S /\ k # 0
  OBVIOUS
<1>3. k - 1 \in 0 .. n - 1 /\ k - 1 < k
  BY <1>2
<1>4. k - 1 \in S
  BY <1>1, <1>3
<1> QED BY <1>2, <1>3, <1>4

-----------------------------------------------------------------------------
(* Running totals.                                                         *)

(* The recursive definition of Totals, with n widths.                      *)
AreTotals(f, w, n) == f = [i \in 0 .. n |-> IF i = 0 THEN 0 ELSE f[i - 1] + w[i]]

(* Such a function exists: the totals of k + 1 widths extend those of k.   *)
LEMMA TotalsExist ==
  ASSUME NEW w, NEW n \in Nat
  PROVE  \E f : AreTotals(f, w, n)
<1> DEFINE S == {k \in 0 .. n : \E f : AreTotals(f, w, k)}
<1>1. 0 \in S
  <2>1. AreTotals([i \in 0 .. 0 |-> 0], w, 0)
    BY DEF AreTotals
  <2> QED BY <2>1
<1>2. ASSUME NEW k \in 0 .. n - 1, k \in S PROVE k + 1 \in S
  <2>1. PICK f : AreTotals(f, w, k)
    BY <1>2
  <2> DEFINE g == [i \in 0 .. k + 1 |-> IF i = k + 1 THEN f[k] + w[k + 1] ELSE f[i]]
  <2>2. ASSUME NEW i \in 0 .. k + 1 PROVE g[i] = IF i = 0 THEN 0 ELSE g[i - 1] + w[i]
    BY <2>1 DEF AreTotals
  <2>3. AreTotals(g, w, k + 1)
    BY <2>2 DEF AreTotals
  <2> QED BY <2>3
<1> HIDE DEF S
<1>3. n \in S
  BY <1>1, <1>2, Climb
<1> QED BY <1>3 DEF S

(* The totals of n widths start at 0, rise, and one ends where the next    *)
(* begins.                                                                 *)
LEMMA TotalsRise ==
  ASSUME NEW w \in Seq(Nat)
  PROVE  /\ Totals(w)[0] = 0
         /\ \A i \in 1 .. Len(w) : Totals(w)[i] = Totals(w)[i - 1] + w[i]
         /\ \A i \in 0 .. Len(w) : Totals(w)[i] \in Nat /\ Totals(w)[i] <= Totals(w)[Len(w)]
<1> DEFINE n == Len(w)
           t == Totals(w)
<1>1. n \in Nat
  OBVIOUS
<1>2. AreTotals(t, w, n)
  <2>1. \E f : AreTotals(f, w, n)
    BY <1>1, TotalsExist
  <2>2. t = CHOOSE f : AreTotals(f, w, n)
    BY DEF Totals, AreTotals
  <2> QED BY <2>1, <2>2
<1> HIDE DEF t
<1>3. \A i \in 0 .. n : t[i] = IF i = 0 THEN 0 ELSE t[i - 1] + w[i]
  <2> DEFINE body == [i \in 0 .. n |-> IF i = 0 THEN 0 ELSE t[i - 1] + w[i]]
  <2>1. t = body
    BY <1>2 DEF AreTotals
  <2>2. \A i \in 0 .. n : body[i] = IF i = 0 THEN 0 ELSE t[i - 1] + w[i]
    OBVIOUS
  <2> HIDE DEF body
  <2> QED BY <2>1, <2>2
<1>4. t[0] = 0 /\ \A i \in 1 .. n : t[i] = t[i - 1] + w[i] /\ w[i] \in Nat
  BY <1>1, <1>3
<1> HIDE DEF n
<1>5. \A i \in 0 .. n : t[i] \in Nat
  <2> DEFINE S == {i \in 0 .. n : t[i] \in Nat}
  <2>1. 0 \in S
    BY <1>1, <1>4
  <2>2. \A k \in 0 .. n - 1 : k \in S => k + 1 \in S
    BY <1>1, <1>4
  <2> HIDE DEF S
  <2>3. 0 .. n \subseteq S
    BY <1>1, <2>1, <2>2, Climb
  <2> QED BY <2>3 DEF S
<1>6. \A i \in 0 .. n : t[i] <= t[n]
  <2> DEFINE S == {j \in 0 .. n : t[n - j] <= t[n]}
  <2>1. 0 \in S
    BY <1>1, <1>5
  <2>2. ASSUME NEW k \in 0 .. n - 1, k \in S PROVE k + 1 \in S
    <3>1. /\ n - k \in 1 .. n /\ n - k - 1 \in 0 .. n /\ n - (k + 1) = n - k - 1
          /\ k + 1 \in 0 .. n
      BY <1>1
    <3>2. t[n - k] = t[n - k - 1] + w[n - k] /\ w[n - k] \in Nat
      BY <1>4, <3>1
    <3>3. t[n - k - 1] \in Nat /\ t[n - k] \in Nat /\ t[n] \in Nat
      BY <1>1, <1>5, <3>1
    <3>4. t[n - k - 1] <= t[n]
      BY <2>2, <3>2, <3>3
    <3> QED BY <3>1, <3>4
  <2> HIDE DEF S
  <2>3. 0 .. n \subseteq S
    BY <1>1, <2>1, <2>2, Climb
  <2>4. ASSUME NEW i \in 0 .. n PROVE t[i] <= t[n]
    <3>1. n - i \in 0 .. n /\ n - (n - i) = i
      BY <1>1
    <3>2. n - i \in S
      BY <2>3, <3>1
    <3> QED BY <3>1, <3>2 DEF S
  <2> QED BY <2>4
<1> QED BY <1>4, <1>5, <1>6 DEF n, t

(* A position left of the end of the row lies in one of the widths, and    *)
(* one from there on in none.                                              *)
LEMMA TotalsCover ==
  ASSUME NEW w \in Seq(Nat), NEW x \in Nat
  PROVE  x < Totals(w)[Len(w)] <=>
           \E i \in 1 .. Len(w) : Totals(w)[i - 1] <= x /\ x < Totals(w)[i]
<1> DEFINE n == Len(w)
           t == Totals(w)
           T == {i \in 0 .. n : x < t[i]}
<1>1. /\ n \in Nat /\ t[0] = 0
      /\ \A i \in 0 .. n : t[i] \in Nat /\ t[i] <= t[n]
  BY TotalsRise
<1> HIDE DEF n, t
<1>2. ASSUME NEW i \in 1 .. n, x < t[i] PROVE x < t[n]
  BY <1>1, <1>2
<1>3. ASSUME x < t[n] PROVE \E i \in 1 .. n : t[i - 1] <= x /\ x < t[i]
  <2>1. T \subseteq Nat /\ T # {}
    BY <1>1, <1>3
  <2> HIDE DEF T
  <2>2. PICK i \in T : \A k \in T : ~(k < i)
    BY <2>1, LeastNumber
  <2>3. i \in 1 .. n /\ x < t[i]
    BY <1>1, <2>2 DEF T
  <2>4. i - 1 \in 0 .. n /\ i - 1 < i
    BY <1>1, <2>3
  <2>5. ~(x < t[i - 1])
    BY <2>2, <2>4 DEF T
  <2> QED BY <1>1, <2>3, <2>4, <2>5
<1> QED BY <1>2, <1>3 DEF n, t

-----------------------------------------------------------------------------
(* The row of tabs.                                                        *)

(* The widths of the titles are numbers, and so are the ends of the zones. *)
CellWidths(act, compact) == [i \in 1 .. Len(Tabs) |-> CellW(i, act, compact)]

(* A title has a natural width, whichever tab is active.                   *)
LEMMA CellsAreNumbers ==
  ASSUME NEW act, NEW compact
  PROVE  CellWidths(act, compact) \in Seq(Nat) /\ Len(CellWidths(act, compact)) = Len(Tabs)
<1>1. Len(Tabs) \in Nat /\ DOMAIN Tabs = 1 .. Len(Tabs)
  BY ScreenAssumption DEF ScreenAssumption
<1>2. ASSUME NEW i \in 1 .. Len(Tabs) PROVE CellW(i, act, compact) \in Nat
  <2> DEFINE Titles == [full : Nat, icon : Nat]
  <2>1. Tabs \in Seq(Titles)
    BY ScreenAssumption DEF ScreenAssumption
  <2> HIDE DEF Titles
  <2>2. Tabs[i] \in Titles
    BY <1>1, <2>1
  <2>3. Tabs[i].full \in Nat /\ Tabs[i].icon \in Nat
    BY <2>2 DEF Titles
  <2>4. CapW \in Nat
    BY ScreenAssumption DEF ScreenAssumption
  <2> QED BY <2>3, <2>4 DEF CellW
<1> QED BY <1>1, <1>2 DEF CellWidths

(* The zones cover the strip: a position is in one of them exactly when it *)
(* is left of the end of the strip.                                        *)
LEMMA ZonesCoverStrip ==
  ASSUME NEW act, NEW compact
  PROVE  /\ StripW(act, compact) \in Nat
         /\ \A x \in Nat :
              x < StripW(act, compact) <=>
                \E i \in DOMAIN Tabs : Edge(act, compact)[i - 1] <= x /\ x < Edge(act, compact)[i]
<1> DEFINE w == CellWidths(act, compact)
<1>1. w \in Seq(Nat) /\ Len(w) = Len(Tabs)
  BY CellsAreNumbers
<1>2. Edge(act, compact) = Totals(w)
  BY DEF Edge, CellWidths
<1>3. StripW(act, compact) = Totals(w)[Len(w)] /\ DOMAIN Tabs = 1 .. Len(w)
  BY <1>1, <1>2, ScreenAssumption DEF StripW, ScreenAssumption
<1> HIDE DEF w
<1>4. Totals(w)[Len(w)] \in Nat
  BY <1>1, TotalsRise
<1>5. ASSUME NEW x \in Nat
      PROVE  x < Totals(w)[Len(w)] <=>
               \E i \in 1 .. Len(w) : Totals(w)[i - 1] <= x /\ x < Totals(w)[i]
  BY <1>1, TotalsCover
<1> QED BY <1>2, <1>3, <1>4, <1>5

(* What remains to the right of the strip for the chips and the clock.     *)
LEMMA RightFits ==
  ASSUME NEW w \in Nat, NEW act, NEW n \in Nat
  PROVE  /\ RightW(w, act, n) \in Nat
         /\ RightW(w, act, n) # 0 => w - RightW(w, act, n) \in Nat
<1> DEFINE c == Compact(w, act, n)
           left == StripW(act, c)
           r == TabBarRight(n)
           wanted == IF w - left - r < 1 /\ n > 0 THEN CountW ELSE r
<1>1. left \in Nat
  BY ZonesCoverStrip
<1>2. r \in Nat
  <2> DEFINE k == AtMost(n, 3)
             chips == k * (ChipW + 1)
  <2>1. k \in Nat /\ ChipW + 1 \in Nat
    BY ScreenAssumption DEF ScreenAssumption, AtMost
  <2> HIDE DEF k
  <2>2. chips \in Nat
    BY <2>1
  <2>3. r = chips + (IF n > 3 THEN CountW + 1 ELSE 0) + ClockW
    BY DEF TabBarRight, k
  <2> HIDE DEF chips
  <2> QED BY <2>2, <2>3 DEF CountW, ClockW
<1>3. RightW(w, act, n) = IF w - left - wanted < 1 THEN 0 ELSE wanted
  BY DEF RightW
<1> HIDE DEF left, r
<1>4. wanted \in Nat
  BY <1>2 DEF CountW
<1> HIDE DEF wanted
<1> QED BY <1>1, <1>3, <1>4

(* What is recorded of the row of tabs on screen.                          *)
RowRecorded ==
  /\ bar.act = activeTab /\ bar.compact \in BOOLEAN /\ bar.right \in Nat
  /\ bounds = TabBarLeft(bar.act, bar.compact)
  /\ IF bar.right = 0 THEN zone = NoZone ELSE zone \in Nat /\ zone = term[1] - bar.right

(* What is recorded says where a click goes.                               *)
LEMMA RecordedClicks ==
  ASSUME RowRecorded, term \in Nat \X Nat
  PROVE  ClickHitsShownTab
<1> DEFINE act == bar.act
           compact == bar.compact
           edge == Edge(act, compact)
           strip == StripW(act, compact)
           In(x, i) == edge[i - 1] <= x /\ x < edge[i]
<1>1. strip \in Nat /\ \A x \in Nat : x < strip <=> \E i \in DOMAIN Tabs : In(x, i)
  BY ZonesCoverStrip
<1>2. term[1] \in Nat /\ bar.right \in Nat
  BY DEF RowRecorded
<1>3. DOMAIN Tabs = 1 .. Len(Tabs) /\ Len(Tabs) \in Nat
  BY ScreenAssumption DEF ScreenAssumption
<1>4. DOMAIN bounds = DOMAIN Tabs /\ \A i \in DOMAIN Tabs : bounds[i] = <<edge[i - 1], edge[i]>>
  BY DEF RowRecorded, TabBarLeft
<1>5. ASSUME NEW x \in Nat
      PROVE  TabAt(x) = IF \E i \in DOMAIN Tabs : In(x, i) THEN CHOOSE i \in DOMAIN Tabs : In(x, i) ELSE 0
  <2> DEFINE Recorded(i) == bounds[i][1] <= x /\ x < bounds[i][2]
  <2>1. \A i \in DOMAIN Tabs : Recorded(i) <=> In(x, i)
    BY <1>4
  <2>2. (\E i \in DOMAIN bounds : Recorded(i)) <=> \E i \in DOMAIN Tabs : In(x, i)
    BY <1>4, <2>1
  <2>3. (CHOOSE i \in DOMAIN bounds : Recorded(i)) = CHOOSE i \in DOMAIN Tabs : In(x, i)
    BY <1>4, <2>1
  <2> HIDE DEF In
  <2> QED BY <2>2, <2>3 DEF TabAt
<1>6. ASSUME NEW x \in Nat
      PROVE  DrawnAt(x) = IF x < strip THEN CHOOSE i \in DOMAIN Tabs : In(x, i)
                          ELSE IF bar.right > 0 /\ x >= term[1] - bar.right THEN -1 ELSE 0
  <2>1. edge[Len(Tabs)] = strip
    BY DEF StripW
  <2>2. x < strip \/ x >= strip
    BY <1>1
  <2> HIDE DEF strip
  <2> QED BY <1>1, <2>1, <2>2 DEF DrawnAt
<1> HIDE DEF In, strip, edge
<1>7. ASSUME NEW x \in Nat, x < strip
      PROVE  TabAt(x) = DrawnAt(x) /\ DrawnAt(x) \in 1 .. Len(Tabs)
  <2>1. \E i \in DOMAIN Tabs : In(x, i)
    BY <1>1, <1>7
  <2>2. (CHOOSE i \in DOMAIN Tabs : In(x, i)) \in DOMAIN Tabs
    BY <2>1
  <2> QED BY <1>3, <1>5, <1>6, <1>7, <2>1, <2>2
<1>8. ASSUME NEW x \in Nat, ~(x < strip)
      PROVE  TabAt(x) = 0 /\ DrawnAt(x) = IF bar.right > 0 /\ x >= term[1] - bar.right THEN -1 ELSE 0
  BY <1>1, <1>5, <1>6, <1>8
<1>9. (zone >= 0 <=> bar.right > 0) /\ (bar.right > 0 => zone = term[1] - bar.right)
  BY <1>2 DEF RowRecorded, NoZone
<1>10. ASSUME NEW x \in 0 .. term[1] - 1
       PROVE  /\ TabAt(x) = AtLeast(DrawnAt(x), 0)
              /\ (TabAt(x) = 0 /\ zone >= 0 /\ x >= zone) <=> DrawnAt(x) = -1
  <2>1. x \in Nat
    BY <1>2
  <2>2. CASE x < strip
    BY <1>3, <1>7, <2>1, <2>2 DEF AtLeast
  <2>3. CASE ~(x < strip)
    BY <1>8, <1>9, <2>1, <2>3 DEF AtLeast
  <2> QED BY <2>2, <2>3
<1>11. bar.act = activeTab
  BY DEF RowRecorded
<1> QED BY <1>10, <1>11 DEF ClickHitsShownTab

-----------------------------------------------------------------------------
(* The bars and the frame.                                                 *)

(* The chips that are kept fit, and there is always a number of them to    *)
(* keep: the largest that fits, or none.                                   *)
LEMMA KeptChipsFit ==
  ASSUME NEW w \in Nat
  PROVE  /\ Chips[KeptChips(w)] \in Nat
         /\ Chips[KeptChips(w)] = 0 \/ LeftW + Hints(w) + Chips[KeptChips(w)] <= w
<1> DEFINE ws == [k \in 1 .. Len(LiveChips) |-> LiveChips[k] + IF k > 1 THEN 1 ELSE 0]
           n == Len(LiveChips)
           Fits(k) == LeftW + Hints(w) + Chips[k] <= w
           Kept(k) == (k = 0 \/ Fits(k)) /\ \A j \in k + 1 .. n : LeftW + Hints(w) + Chips[j] > w
           T == {k \in 0 .. n : n - k = 0 \/ Fits(n - k)}
<1>1. n \in Nat /\ DOMAIN LiveChips = 1 .. n /\ \A k \in 1 .. n : LiveChips[k] \in Nat
  BY ScreenAssumption DEF ScreenAssumption
<1>2. ws \in Seq(Nat) /\ Len(ws) = n
  BY <1>1
<1>3. Chips = Totals(ws)
  BY DEF Chips
<1> HIDE DEF ws, n
<1>4. Chips[0] = 0 /\ \A k \in 0 .. n : Chips[k] \in Nat
  BY <1>2, <1>3, TotalsRise
<1>5. LeftW \in Nat /\ Hints(w) \in Nat
  BY ScreenAssumption DEF ScreenAssumption, Hints, HintsShort, HintsFull
<1>6. PICK m \in T : \A k \in T : ~(k < m)
  <2>1. n \in T /\ T \subseteq Nat
    BY <1>1
  <2> HIDE DEF T
  <2> QED BY <2>1, LeastNumber
<1>7. n - m \in 0 .. n /\ m \in 0 .. n /\ (n - m = 0 \/ Fits(n - m))
  BY <1>1, <1>6
<1>8. ASSUME NEW j \in n - m + 1 .. n PROVE LeftW + Hints(w) + Chips[j] > w
  <2>1. j \in 1 .. n /\ n - j \in 0 .. n /\ n - j < m /\ n - (n - j) = j
    BY <1>1, <1>7
  <2>2. ~Fits(j)
    BY <1>6, <2>1
  <2>3. Chips[j] \in Nat
    BY <1>4, <2>1
  <2> QED BY <1>5, <2>2, <2>3
<1>9. Kept(n - m)
  BY <1>7, <1>8
<1>10. KeptChips(w) = CHOOSE k \in 0 .. n : Kept(k)
  BY DEF KeptChips, n
<1>11. KeptChips(w) \in 0 .. n /\ Kept(KeptChips(w))
  <2> HIDE DEF Kept
  <2> QED BY <1>7, <1>9, <1>10
<1> QED BY <1>4, <1>11

(* The status bar is as wide as the terminal.                              *)
LEMMA StatusBarFills ==
  ASSUME NEW w \in Nat, w >= LeftW + HintsShort, NEW lost, NEW noted, NEW sampled
  PROVE  StatusBarView(w, lost, noted, sampled) = w
<1> DEFINE h == Hints(w)
           mid == IF noted THEN FlashW(w) ELSE IF sampled THEN Chips[KeptChips(w)] ELSE 0
<1>1. LeftW \in Nat /\ LeftW >= 12
  BY ScreenAssumption DEF ScreenAssumption
<1>2. h \in Nat /\ LeftW + h <= w
  BY <1>1 DEF Hints, HintsShort, HintsFull
<1>3. RemoteLostBar(w) = w
  BY <1>1 DEF RemoteLostBar, AtLeast, HintsShort
<1>4. FlashW(w) \in Nat /\ LeftW + h + FlashW(w) <= w
  <2> DEFINE budget == w - LeftW - h - 2
  <2>1. FlashW(w) = IF budget > 10 THEN budget + 2 ELSE 0
    BY DEF FlashW
  <2> HIDE DEF h
  <2> QED BY <1>1, <1>2, <2>1
<1>5. Chips[KeptChips(w)] \in Nat /\ LeftW + h + Chips[KeptChips(w)] <= w
  <2>1. /\ Chips[KeptChips(w)] \in Nat
        /\ Chips[KeptChips(w)] = 0 \/ LeftW + h + Chips[KeptChips(w)] <= w
    BY KeptChipsFit
  <2> HIDE DEF h
  <2> QED BY <1>1, <1>2, <2>1
<1>6. mid \in Nat /\ LeftW + h + mid <= w
  <2> HIDE DEF h
  <2> QED BY <1>1, <1>2, <1>4, <1>5
<1>7. StatusBarView(w, lost, noted, sampled) =
        IF lost THEN RemoteLostBar(w) ELSE LeftW + mid + h + AtLeast(0, w - LeftW - h - mid)
  BY DEF StatusBarView
<1> HIDE DEF mid, h
<1>8. LeftW + mid + h + AtLeast(0, w - LeftW - h - mid) = w
  BY <1>1, <1>2, <1>6 DEF AtLeast
<1> QED BY <1>3, <1>7, <1>8

(* The content is clipped and padded to what the bars leave.               *)
LEMMA RowsFill ==
  ASSUME NEW h \in Nat, h >= 2, NEW lines \in Nat
  PROVE  2 + ContentRows(h, lines) = h
BY DEF ContentRows, AtLeast, AtMost

(* What every redraw leaves: a frame that fits and a row that is recorded. *)
ScreenInv ==
  /\ term \in Nat \X Nat /\ open \in Nat
  /\ RowRecorded /\ ScreenFits

(* The redraw after a message establishes it, whatever the message did.    *)
LEMMA RedrawFits ==
  ASSUME Frame, term' \in Nat \X Nat, open' \in Nat
  PROVE  ScreenInv'
<1>1. PICK lines \in Contents : /\ TabBarView(term'[1], activeTab', open')
                                /\ status' = StatusBarView(term'[1], ended', flash', live')
                                /\ rowCount' = 2 + ContentRows(term'[2], lines)
  BY DEF Frame
<1> DEFINE w == term'[1]
           h == term'[2]
<1>2. w \in Nat /\ h \in Nat /\ lines \in Nat
  BY ScreenAssumption DEF ScreenAssumption
<1>3. h >= 2 => rowCount' = h
  BY <1>1, <1>2, RowsFill
<1>4. w >= LeftW + HintsShort => status' = w
  BY <1>1, <1>2, StatusBarFills
<1>5. RowRecorded'
  <2> DEFINE r == RightW(w, activeTab', open')
             c == Compact(w, activeTab', open')
  <2>1. /\ bar' = [act |-> activeTab', compact |-> c, right |-> r]
        /\ bounds' = TabBarLeft(activeTab', c)
        /\ zone' = IF r = 0 THEN NoZone ELSE w - r
    BY <1>1 DEF TabBarView, RecordedAs
  <2>2. r \in Nat /\ (r # 0 => w - r \in Nat)
    BY <1>2, RightFits
  <2>3. c \in BOOLEAN
    BY DEF Compact
  <2> HIDE DEF r, c
  <2>4. bar'.act = activeTab' /\ bar'.compact = c /\ bar'.right = r
    BY <2>1
  <2> QED BY <2>1, <2>2, <2>3, <2>4 DEF RowRecorded
<1> QED BY <1>3, <1>4, <1>5 DEF ScreenInv, ScreenFits

(* The invariant of the screen.                                            *)
LEMMA ScreenInvariant == ScreenSpec => []ScreenInv
<1>1. ASSUME ScreenInit PROVE ScreenInv
  <2>1. term = <<0, 0>> /\ open = 0
    BY <1>1 DEF ScreenInit
  <2>2. ScreenFits
    BY <2>1, ScreenAssumption DEF ScreenFits, ScreenAssumption, HintsShort
  <2>3. RowRecorded
    BY <1>1 DEF ScreenInit, RowRecorded
  <2> QED BY <2>1, <2>2, <2>3 DEF ScreenInv
<1>2. ASSUME ScreenInv, [ScreenNext]_screenVars PROVE ScreenInv'
  <2>1. term \in Nat \X Nat /\ open \in Nat
    BY <1>2 DEF ScreenInv
  <2>2. ASSUME NEW s \in TermSizes, WindowSize(s) PROVE ScreenInv'
    BY <2>1, <2>2, RedrawFits, ScreenAssumption DEF WindowSize, ScreenAssumption
  <2>3. ASSUME NEW n \in AlertCounts, SampleArrives(n) PROVE ScreenInv'
    BY <2>1, <2>3, RedrawFits, ScreenAssumption DEF SampleArrives, ScreenAssumption
  <2>4. CASE StreamEnds
    BY <2>1, <2>4, RedrawFits DEF StreamEnds
  <2>5. ASSUME NEW x \in Columns, ClickBar(x) PROVE ScreenInv'
    BY <2>1, <2>5, RedrawFits DEF ClickBar
  <2>6. CASE OverlayKey \/ NeighbourKey \/ NoteKey
    BY <2>1, <2>6, RedrawFits DEF OverlayKey, NeighbourKey, NoteKey
  <2>7. ASSUME NEW c \in Pressed, Press(c) PROVE ScreenInv'
    BY <2>1, <2>7, RedrawFits DEF Press, DigitKey, TabKey
  <2>8. CASE UNCHANGED screenVars
    BY <1>2, <2>8 DEF ScreenInv, screenVars, RowRecorded, ScreenFits
  <2> QED BY <1>2, <2>2, <2>3, <2>4, <2>5, <2>6, <2>7, <2>8 DEF ScreenNext
<1> QED BY <1>1, <1>2, PTL DEF ScreenSpec

(* "Docked, always": the frame has exactly the rows of the terminal and    *)
(* the status bar exactly its columns, for all titles, chips, contents and *)
(* sizes of the terminal.                                                  *)
THEOREM FrameAlwaysFits == ScreenSpec => []ScreenFits
<1>1. ScreenInv => ScreenFits
  BY DEF ScreenInv
<1> QED BY <1>1, ScreenInvariant, PTL

(* A click on the row of tabs reaches what the row shows there, whichever  *)
(* strips were measured while it was drawn.                                *)
THEOREM ClicksReachShownTab == ScreenSpec => []ClickHitsShownTab
<1>1. ScreenInv => ClickHitsShownTab
  BY RecordedClicks DEF ScreenInv
<1> QED BY <1>1, ScreenInvariant, PTL

-----------------------------------------------------------------------------
(* Types.                                                                  *)

(* The part of the type invariant that the redraw does not write.          *)
TabsTyped ==
  /\ term \in TermSizes \cup {<<0, 0>>} /\ activeTab \in DOMAIN Tabs
  /\ shownTabs \subseteq DOMAIN Tabs /\ activeTab \in shownTabs
  /\ {help, history, editing, live, flash, ended} \subseteq BOOLEAN
  /\ typed \in 0 .. MaxTyped /\ meant \in 0 .. MaxTyped /\ open \in AlertCounts \cup {0}

(* Whichever tab is chosen, it is the one that believes it is shown.       *)
LEMMA SetActiveKeeps ==
  ASSUME TabsTyped, NEW i \in DOMAIN Tabs, SetActiveTab(i)
  PROVE  /\ activeTab' \in DOMAIN Tabs
         /\ shownTabs' \subseteq DOMAIN Tabs /\ activeTab' \in shownTabs'
BY DEF TabsTyped, SetActiveTab

(* Every message keeps it: a click finds a tab of the row, the neighbours  *)
(* of a tab wrap around, and a digit beyond the last tab does nothing.     *)
LEMMA TabsTypedStep ==
  ASSUME TabsTyped, RowRecorded, ScreenNext
  PROVE  TabsTyped'
<1> DEFINE Places == UNCHANGED <<activeTab, shownTabs>>
           Typing == UNCHANGED <<typed, meant>>
<1>1. Len(Tabs) \in Nat /\ DOMAIN Tabs = 1 .. Len(Tabs) /\ MaxTyped \in Nat
  BY ScreenAssumption DEF ScreenAssumption
<1>2. ASSUME NEW s \in TermSizes, WindowSize(s) PROVE TabsTyped'
  BY <1>2 DEF WindowSize, TabsTyped, Fades
<1>3. ASSUME NEW n \in AlertCounts, SampleArrives(n) PROVE TabsTyped'
  BY <1>3 DEF SampleArrives, TabsTyped, Fades
<1>4. CASE StreamEnds
  BY <1>4 DEF StreamEnds, TabsTyped, Fades
<1>5. ASSUME NEW x \in Columns, ClickBar(x) PROVE TabsTyped'
  <2>1. DOMAIN bounds = DOMAIN Tabs
    BY DEF RowRecorded, TabBarLeft
  <2>2. TabAt(x) # 0 => TabAt(x) \in DOMAIN Tabs
    BY <2>1 DEF TabAt
  <2>3. /\ activeTab' \in DOMAIN Tabs /\ history' \in BOOLEAN /\ flash' \in BOOLEAN
        /\ shownTabs' \subseteq DOMAIN Tabs /\ activeTab' \in shownTabs'
        /\ UNCHANGED <<term, help, editing, typed, meant, open, live, ended>>
    <3>1. CASE TabAt(x) # 0
      BY <1>5, <2>2, <3>1, SetActiveKeeps DEF ClickBar, TabsTyped, Fades
    <3>2. CASE TabAt(x) = 0
      BY <1>5, <3>2 DEF ClickBar, TabsTyped, Fades
    <3> QED BY <3>1, <3>2
  <2> QED BY <2>3 DEF TabsTyped
<1>6. CASE OverlayKey
  BY <1>6 DEF OverlayKey, TabsTyped, Fades
<1>7. CASE NeighbourKey
  <2>1. /\ (activeTab % Len(Tabs)) + 1 \in DOMAIN Tabs
        /\ ((activeTab - 2) % Len(Tabs)) + 1 \in DOMAIN Tabs
    BY <1>1 DEF TabsTyped
  <2>2. /\ activeTab' \in DOMAIN Tabs
        /\ shownTabs' \subseteq DOMAIN Tabs /\ activeTab' \in shownTabs'
    BY <1>7, <2>1, SetActiveKeeps DEF NeighbourKey
  <2> QED BY <1>7, <2>2 DEF NeighbourKey, TabsTyped, Fades
<1>8. CASE NoteKey
  BY <1>8 DEF NoteKey, TabsTyped
<1>9. ASSUME NEW c \in Pressed, DigitKey(c) PROVE TabsTyped'
  <2>1. /\ activeTab' \in DOMAIN Tabs
        /\ shownTabs' \subseteq DOMAIN Tabs /\ activeTab' \in shownTabs'
    <3>1. CASE c \in DOMAIN Tabs
      BY <1>9, <3>1, SetActiveKeeps DEF DigitKey
    <3>2. CASE c \notin DOMAIN Tabs
      BY <1>9, <3>2 DEF DigitKey, TabsTyped
    <3> QED BY <3>1, <3>2
  <2>2. meant' \in 0 .. MaxTyped
    BY <1>1, <1>9 DEF DigitKey, TabsTyped
  <2> QED BY <1>9, <2>1, <2>2 DEF DigitKey, TabsTyped, Fades
<1>10. ASSUME NEW c \in Pressed, TabKey(c) PROVE TabsTyped'
  <2>1. typed' \in 0 .. MaxTyped /\ meant' \in 0 .. MaxTyped
    BY <1>1, <1>10 DEF TabKey, TabsTyped
  <2>2. editing' \in BOOLEAN /\ flash' \in BOOLEAN
    BY <1>10 DEF TabKey, TabsTyped, Fades
  <2>3. UNCHANGED <<term, activeTab, shownTabs, help, history, open, live, ended>>
    BY <1>10 DEF TabKey
  <2> QED BY <2>1, <2>2, <2>3 DEF TabsTyped
<1> QED BY <1>2, <1>3, <1>4, <1>5, <1>6, <1>7, <1>8, <1>9, <1>10 DEF ScreenNext, Press

(* The screen's variables stay in their domains, and the tab on screen     *)
(* always believes it is shown, or its table would stop following the      *)
(* samples (setActive, app.go:175-182).                                    *)
THEOREM ScreenTypeCorrect == ScreenSpec => []ScreenTypeOK
<1>1. ASSUME ScreenInit PROVE TabsTyped
  <2>1. 1 \in DOMAIN Tabs /\ 0 \in 0 .. MaxTyped
    BY ScreenAssumption DEF ScreenAssumption
  <2> QED BY <1>1, <2>1 DEF ScreenInit, TabsTyped
<1>2. ASSUME TabsTyped, ScreenInv, [ScreenNext]_screenVars PROVE TabsTyped'
  <2>1. CASE ScreenNext
    BY <1>2, <2>1, TabsTypedStep DEF ScreenInv
  <2>2. CASE UNCHANGED screenVars
    BY <1>2, <2>2 DEF screenVars, TabsTyped
  <2> QED BY <1>2, <2>1, <2>2
<1>3. ASSUME TabsTyped, ScreenInv PROVE ScreenTypeOK
  <2>1. DOMAIN bounds = DOMAIN Tabs /\ zone >= NoZone
    BY <1>3 DEF ScreenInv, RowRecorded, TabBarLeft, NoZone
  <2> QED BY <1>3, <2>1 DEF TabsTyped, ScreenTypeOK
<1> QED BY <1>1, <1>2, <1>3, ScreenInvariant, PTL DEF ScreenSpec

-----------------------------------------------------------------------------
(* The settings.                                                           *)

(* What normalize leaves: each key is free, and so is the kill key's other *)
(* case; the two do not meet in either case; the thresholds are in order.  *)
KeyFree(k) == k \in Letters \ Reserved
CfgSane(c) ==
  /\ KeyFree(c.kill)
  /\ c.filter # NoKey => KeyFree(c.filter) /\ Lower[c.kill] # Lower[c.filter]
  /\ c.warn \in Int /\ c.crit \in Int
  /\ c.warn < Huge => c.crit > c.warn

(* What the file may hold.                                                 *)
FileSane(v) ==
  /\ v.kill \in Letters /\ v.filter \in Letters \cup {NoKey}
  /\ v.warn \in Int /\ v.crit \in Int

(* The inductive invariant: the configuration in force is sane, and screen *)
(* and tabs show the palette it means.                                     *)
SettingsInv ==
  /\ FileSane(file.values) /\ CfgSane(cfg)
  /\ palette = ByName(registry, cfg.theme) /\ tabPalette = palette

(* The defaults are sane, and normalize makes any file's values so.        *)
LEMMA DefaultSane == CfgSane(Default) /\ FileSane(Default)
BY SettingsAssumption, LettersAssumption, ThresholdsAssumption
   DEF SettingsAssumption, LettersAssumption, ThresholdsAssumption, CfgSane, FileSane, KeyFree, Default

(* Whatever a file holds, normalize leaves values that agree.              *)
LEMMA NormalizedSane ==
  ASSUME NEW f, FileSane(f)
  PROVE  CfgSane(Normalized(f))
<1> DEFINE kill == IF ValidKey(f.kill) THEN f.kill ELSE KillDefault
           filter == IF ValidKey(f.filter) THEN f.filter ELSE NoKey
           clash == filter # NoKey /\ Lower[kill] = Lower[filter]
           n == Normalized(f)
<1>1. /\ n.kill = IF clash THEN KillDefault ELSE kill
      /\ n.filter = IF clash THEN NoKey ELSE filter
      /\ n.warn = Warn(f.warn) /\ n.crit = Crit(f.warn, f.crit)
  BY DEF Normalized
<1>2. KeyFree(KillDefault) /\ KeyFree(kill) /\ (filter # NoKey => KeyFree(filter))
  BY SettingsAssumption, LettersAssumption
     DEF SettingsAssumption, LettersAssumption, KeyFree, ValidKey
<1>3. /\ KeyFree(n.kill)
      /\ n.filter # NoKey => KeyFree(n.filter) /\ Lower[n.kill] # Lower[n.filter]
  <2> HIDE DEF kill, filter, n
  <2> QED BY <1>1, <1>2
<1>4. /\ n.warn \in Int /\ n.crit \in Int
      /\ n.warn < Huge => n.crit > n.warn
  <2>1. f.warn \in Int /\ f.crit \in Int
    BY DEF FileSane
  <2> HIDE DEF n
  <2> QED BY <1>1, <2>1, ThresholdsAssumption DEF ThresholdsAssumption, Warn, Crit, PlusOne
<1> HIDE DEF n
<1> QED BY <1>3, <1>4 DEF CfgSane, n

(* A sane configuration's keys reach their handlers: what a letter shares  *)
(* with a key that is consumed first is its case, and the reserved letters *)
(* are reserved in both.                                                   *)
LEMMA KeysReachHandlers ==
  ASSUME CfgSane(cfg)
  PROVE  /\ Handler(KillKey) = "kill"
         /\ ForceKey # KillKey => Handler(ForceKey) = "force"
         /\ cfg.filter # NoKey => Handler(cfg.filter) = "filter"
<1> USE SettingsAssumption, LettersAssumption
        DEF SettingsAssumption, LettersAssumption
<1> DEFINE Early == GlobalKeys \cup TabKeys
<1>1. cfg.kill \in Letters \ Reserved
  BY DEF CfgSane, KeyFree
<1>2. ASSUME NEW l \in Letters, l \notin Reserved
      PROVE  l \notin Early /\ Lower[l] \notin Early /\ Upper[Lower[l]] \notin Early
  <2>1. Lower[l] \in Letters /\ Upper[Lower[l]] \in Letters
    OBVIOUS
  <2>2. Lower[Lower[l]] = Lower[l] /\ Lower[Upper[Lower[l]]] = Lower[l]
    BY <2>1
  <2> QED BY <1>2, <2>2
<1>3. KillKey \in Letters /\ ForceKey \in Letters /\ KillKey \notin Early /\ ForceKey \notin Early
  BY <1>1, <1>2 DEF KillKey, ForceKey
<1>4. cfg.filter # KillKey /\ cfg.filter # ForceKey
  <2>1. CASE cfg.filter = NoKey
    BY <1>3, <2>1
  <2>2. CASE cfg.filter # NoKey
    <3>1. Lower[cfg.filter] # Lower[cfg.kill]
      BY <2>2 DEF CfgSane
    <3>2. Lower[KillKey] = Lower[cfg.kill] /\ Lower[ForceKey] = Lower[cfg.kill]
      BY <1>1, <1>3 DEF KillKey, ForceKey
    <3> QED BY <3>1, <3>2
  <2> QED BY <2>1, <2>2
<1>5. cfg.filter # NoKey => cfg.filter \notin Early
  BY <1>2 DEF CfgSane, KeyFree
<1> HIDE DEF KillKey, ForceKey
<1>6. Handler(KillKey) = "kill"
  BY <1>3, <1>4 DEF Handler
<1>7. ForceKey # KillKey => Handler(ForceKey) = "force"
  BY <1>3, <1>4 DEF Handler
<1>8. cfg.filter # NoKey => Handler(cfg.filter) = "filter"
  BY <1>5 DEF Handler
<1> QED BY <1>6, <1>7, <1>8

(* Every step keeps the configuration sane and the palettes together.      *)
LEMMA SettingsStep ==
  ASSUME SettingsInv, [SettingsNext]_settingsVars
  PROVE  SettingsInv'
<1> USE DEF SettingsInv
<1>1. ASSUME NEW f \in Files, EditFile(f) PROVE SettingsInv'
  <2>1. FileSane(f.values)
    <3>1. f.values = Default \/ FileSane(f.values)
      BY SettingsAssumption, ThresholdsAssumption
         DEF SettingsAssumption, ThresholdsAssumption, Files, FileSane
    <3> QED BY <3>1, DefaultSane
  <2> QED BY <1>1, <2>1 DEF EditFile, FileSane, CfgSane, KeyFree, ByName
<1>2. ASSUME NEW n \in UserNames, EditTheme(n) PROVE SettingsInv'
  BY <1>2 DEF EditTheme, FileSane, CfgSane, KeyFree, ByName
<1>3. CASE CycleTheme
  <2>1. PICK next : /\ cfg' = [cfg EXCEPT !.theme = next]
                    /\ palette' = ByName(registry, next) /\ tabPalette' = palette'
                    /\ UNCHANGED <<file, registry>>
    BY <1>3 DEF CycleTheme, Distribute
  <2>2. CfgSane(cfg)'
    BY <2>1 DEF CfgSane, KeyFree
  <2> QED BY <2>1, <2>2
<1>4. CASE Reload
  <2>1. /\ cfg' = Load /\ registry' = dir /\ file' = file
        /\ palette' = ByName(dir, Load.theme) /\ tabPalette' = palette'
    BY <1>4 DEF Reload, LoadUserThemes, Distribute
  <2>2. CfgSane(Load)
    BY DefaultSane, NormalizedSane DEF Load
  <2> HIDE DEF Load
  <2>3. CfgSane(cfg)' /\ palette' = ByName(registry', cfg'.theme)
    BY <2>1, <2>2 DEF CfgSane, KeyFree
  <2> QED BY <2>1, <2>3
<1>5. CASE UNCHANGED settingsVars
  BY <1>5 DEF settingsVars, FileSane, CfgSane, KeyFree, ByName
<1> QED BY <1>1, <1>2, <1>3, <1>4, <1>5 DEF SettingsNext

(* Through any edits, reloads and theme keys the screen and the tabs show  *)
(* the palette that the configured name means, the kill, force and filter  *)
(* keys reach their handlers, and crit stays above warn.                   *)
THEOREM SettingsAlwaysApplied == SettingsSpec => []SettingsApplied
<1>1. SettingsInit => SettingsInv
  <2> SUFFICES ASSUME SettingsInit PROVE SettingsInv
    OBVIOUS
  <2>1. file.values = Default /\ cfg = Default /\ Default.theme = DefaultTheme
    BY DEF SettingsInit, Default
  <2>2. palette = ByName(registry, cfg.theme) /\ tabPalette = palette
    BY <2>1 DEF SettingsInit
  <2> QED BY <2>1, <2>2, DefaultSane DEF SettingsInv
<1>2. SettingsInv => SettingsApplied
  BY KeysReachHandlers DEF SettingsInv, SettingsApplied, CfgSane
<1> QED BY <1>1, <1>2, SettingsStep, PTL DEF SettingsSpec

-----------------------------------------------------------------------------
(* The cycle of themes.                                                    *)

(* A function that lists a set of numbers in order.                        *)
Lists(s, S, n) == s \in [1 .. n -> S] /\ \A i, j \in 1 .. n : i < j => s[i] < s[j]

(* Every finite set of numbers can be listed: its least one comes first.   *)
LEMMA ListExists ==
  ASSUME NEW S \in SUBSET Nat, IsFiniteSet(S)
  PROVE  \E s : Lists(s, S, Cardinality(S))
<1> DEFINE n == Cardinality(S)
           Listable(k) == \A X \in SUBSET S : Cardinality(X) = k => \E s : Lists(s, X, k)
           K == {k \in 0 .. n : Listable(k)}
<1>1. n \in Nat
  BY FS_CardinalityType
<1>2. \A X \in SUBSET S : IsFiniteSet(X) /\ Cardinality(X) \in Nat
  BY FS_Subset, FS_CardinalityType
<1>3. 0 \in K
  <2>1. ASSUME NEW X \in SUBSET S PROVE Lists([i \in 1 .. 0 |-> i], X, 0)
    BY DEF Lists
  <2>2. Listable(0)
    BY <2>1
  <2> QED BY <1>1, <2>2
<1>4. ASSUME NEW k \in 0 .. n - 1, k \in K PROVE k + 1 \in K
  <2>1. ASSUME NEW X \in SUBSET S, Cardinality(X) = k + 1
        PROVE  \E s : Lists(s, X, k + 1)
    <3>1. X # {} /\ X \subseteq Nat
      BY <2>1, FS_EmptySet
    <3>2. PICK m \in X : \A x \in X : ~(x < m)
      BY <3>1, LeastNumber
    <3>3. Cardinality(X \ {m}) = k
      BY <1>2, <2>1, FS_RemoveElement
    <3>4. Listable(k)
      BY <1>4
    <3>5. PICK s : Lists(s, X \ {m}, k)
      BY <3>3, <3>4
    <3> DEFINE t == [i \in 1 .. k + 1 |-> IF i = 1 THEN m ELSE s[i - 1]]
    <3>6. ASSUME NEW i \in 1 .. k + 1, i # 1
          PROVE  i - 1 \in 1 .. k /\ t[i] = s[i - 1] /\ t[i] \in X /\ t[i] # m
      BY <3>5, <3>6 DEF Lists
    <3>7. t[1] = m /\ t \in [1 .. k + 1 -> X]
      BY <3>6
    <3>8. ASSUME NEW i \in 1 .. k + 1, NEW j \in 1 .. k + 1, i < j
          PROVE  t[i] < t[j]
      <4>1. j # 1 /\ j - 1 \in 1 .. k /\ t[j] = s[j - 1] /\ t[j] \in X /\ t[j] # m
        BY <3>6, <3>8
      <4>2. CASE i = 1
        <5>1. t[j] \in Nat /\ m \in Nat /\ ~(t[j] < m)
          BY <3>1, <3>2, <4>1
        <5> QED BY <3>7, <4>1, <4>2, <5>1
      <4>3. CASE i # 1
        <5>1. i - 1 \in 1 .. k /\ t[i] = s[i - 1]
          BY <3>6, <4>3
        <5>2. i - 1 < j - 1
          BY <3>8
        <5> HIDE DEF t
        <5> QED BY <3>5, <4>1, <5>1, <5>2 DEF Lists
      <4> QED BY <4>2, <4>3
    <3> HIDE DEF t
    <3>9. Lists(t, X, k + 1)
      BY <3>7, <3>8 DEF Lists
    <3> QED BY <3>9
  <2>2. Listable(k + 1)
    BY <2>1
  <2> HIDE DEF Listable
  <2> QED BY <1>1, <2>2
<1> HIDE DEF K
<1>5. n \in K
  BY <1>1, <1>3, <1>4, Climb
<1> QED BY <1>5 DEF K

(* The names of the files, in order: each once, and all of them.           *)
LEMMA OrderedNames ==
  ASSUME NEW S \in SUBSET Nat, IsFiniteSet(S)
  PROVE  /\ Cardinality(S) \in Nat
         /\ Lists(InOrder(S), S, Cardinality(S))
<1>1. \E s \in [1 .. Cardinality(S) -> S] : \A i, j \in DOMAIN s : i < j => s[i] < s[j]
  BY ListExists DEF Lists
<1> QED BY <1>1, FS_CardinalityType DEF InOrder, Lists

(* All names, when no file overrides a built-in theme: none comes twice.   *)
DistinctNames(names, n) ==
  /\ n \in Nat \ {0} /\ names \in Seq(Nat) /\ Len(names) = n
  /\ \A i, j \in 1 .. n : names[i] = names[j] => i = j

(* The list that T walks holds no name twice, unless a file overrides a    *)
(* built-in theme.                                                         *)
LEMMA NamesAreDistinct ==
  ASSUME NEW reg, DOMAIN reg \subseteq UserNames, DOMAIN reg \cap 1 .. BuiltIns = {}
  PROVE  \E n : DistinctNames(NamesOf(reg), n)
<1> DEFINE S == DOMAIN reg
           c == Cardinality(S)
           s == InOrder(S)
           first == [i \in 1 .. BuiltIns |-> i]
           names == NamesOf(reg)
<1>1. S \in SUBSET Nat /\ IsFiniteSet(S) /\ BuiltIns \in Nat \ {0}
  <2>1. UserNames \subseteq Nat /\ IsFiniteSet(UserNames) /\ BuiltIns \in Nat \ {0}
    BY SettingsAssumption DEF SettingsAssumption
  <2>2. S \in SUBSET UserNames
    OBVIOUS
  <2> HIDE DEF S
  <2> QED BY <2>1, <2>2, FS_Subset
<1>2. S \cap 1 .. BuiltIns = {}
  OBVIOUS
<1> HIDE DEF S
<1>3. c \in Nat /\ s \in [1 .. c -> S] /\ \A i, j \in 1 .. c : i < j => s[i] < s[j]
  BY <1>1, OrderedNames DEF Lists
<1> HIDE DEF c, s
<1>4. s \in Seq(Nat) /\ Len(s) = c
  <2>1. s \in [1 .. c -> Nat]
    BY <1>1, <1>3
  <2> QED BY <1>3, <2>1
<1>5. /\ first \in Seq(Nat) /\ Len(first) = BuiltIns
      /\ \A i \in 1 .. BuiltIns : first[i] = i
  BY <1>1
<1>6. names = first \o s
  BY DEF NamesOf, S, s
<1> HIDE DEF first, names
<1>7. /\ names \in Seq(Nat) /\ Len(names) = BuiltIns + c
      /\ \A i \in 1 .. BuiltIns + c : names[i] = IF i <= BuiltIns THEN i ELSE s[i - BuiltIns]
  <2>1. names \in Seq(Nat) /\ Len(names) = BuiltIns + c
    BY <1>4, <1>5, <1>6, ConcatProperties
  <2>2. \A i \in 1 .. BuiltIns + c : names[i] = IF i <= BuiltIns THEN first[i] ELSE s[i - BuiltIns]
    BY <1>4, <1>5, <1>6, ConcatProperties
  <2> QED BY <1>1, <1>3, <1>5, <2>1, <2>2
<1>8. ASSUME NEW i \in 1 .. BuiltIns + c, NEW j \in 1 .. BuiltIns + c, i < j PROVE names[i] # names[j]
  <2>1. CASE j <= BuiltIns
    BY <1>1, <1>7, <1>8, <2>1
  <2>2. CASE j > BuiltIns
    <3>1. j - BuiltIns \in 1 .. c /\ names[j] = s[j - BuiltIns]
      BY <1>1, <1>3, <1>7, <2>2
    <3>2. CASE i <= BuiltIns
      <4>1. names[i] \in 1 .. BuiltIns
        BY <1>1, <1>7, <3>2
      <4>2. names[j] \in S
        BY <1>3, <3>1
      <4> QED BY <1>2, <4>1, <4>2
    <3>3. CASE i > BuiltIns
      <4>1. i - BuiltIns \in 1 .. c /\ names[i] = s[i - BuiltIns]
        BY <1>1, <1>3, <1>7, <3>3
      <4>2. i - BuiltIns < j - BuiltIns
        BY <1>1, <1>8
      <4>3. names[i] < names[j] /\ names[i] \in Nat
        BY <1>1, <1>3, <3>1, <4>1, <4>2
      <4> QED BY <4>3
    <3> QED BY <1>1, <3>2, <3>3
  <2> QED BY <1>1, <2>1, <2>2
<1>9. DistinctNames(names, BuiltIns + c)
  BY <1>1, <1>3, <1>7, <1>8 DEF DistinctNames
<1> QED BY <1>9 DEF names

(* What T does to a name in the list, and to any other.                    *)
LEMMA NextInCycle ==
  ASSUME NEW reg, NEW n, DistinctNames(NamesOf(reg), n)
  PROVE  /\ \A i \in 1 .. n : NextTheme(reg, NamesOf(reg)[i]) = NamesOf(reg)[IF i < n THEN i + 1 ELSE 1]
         /\ \A x : (\A i \in 1 .. n : NamesOf(reg)[i] # x) => NextTheme(reg, x) = NamesOf(reg)[1]
<1> DEFINE names == NamesOf(reg)
           At(x) == {i \in DOMAIN names : names[i] = x}
           First(x) == CHOOSE i \in At(x) : \A j \in At(x) : i <= j
<1>1. \A x : NextTheme(reg, x) = IF At(x) = {} THEN names[1] ELSE names[(First(x) % Len(names)) + 1]
  BY DEF NextTheme
<1>2. n \in Nat \ {0} /\ Len(names) = n /\ DOMAIN names = 1 .. n
  BY DEF DistinctNames
<1>3. \A i, j \in 1 .. n : names[i] = names[j] => i = j
  BY DEF DistinctNames
<1> HIDE DEF names
<1>4. ASSUME NEW i \in 1 .. n PROVE NextTheme(reg, names[i]) = names[IF i < n THEN i + 1 ELSE 1]
  <2>1. At(names[i]) = {i}
    BY <1>2, <1>3
  <2>2. First(names[i]) = i
    BY <1>2, <2>1
  <2>3. i % n = IF i < n THEN i ELSE 0
    <3>1. CASE i < n
      BY <1>2, <3>1
    <3>2. CASE i = n
      <4>1. n % n = 0
        BY <1>2
      <4> QED BY <3>2, <4>1
    <3> QED BY <1>2, <3>1, <3>2
  <2>4. (i % n) + 1 = IF i < n THEN i + 1 ELSE 1
    BY <1>2, <2>3
  <2> QED BY <1>1, <1>2, <2>1, <2>2, <2>4
<1>5. ASSUME NEW x, \A i \in 1 .. n : names[i] # x PROVE NextTheme(reg, x) = names[1]
  <2>1. At(x) = {}
    BY <1>2, <1>5
  <2> QED BY <1>1, <2>1
<1> QED BY <1>4, <1>5 DEF names

(* The themes after k presses.                                             *)
ArePresses(f, reg, name, n) ==
  f = [k \in 0 .. n |-> IF k = 0 THEN name ELSE NextTheme(reg, f[k - 1])]

(* The recursion over the presses has a solution, by induction on them.    *)
LEMMA PressesExist ==
  ASSUME NEW reg, NEW name, NEW n \in Nat
  PROVE  \E f : ArePresses(f, reg, name, n)
<1> DEFINE S == {k \in 0 .. n : \E f : ArePresses(f, reg, name, k)}
<1>1. 0 \in S
  <2>1. ArePresses([k \in 0 .. 0 |-> name], reg, name, 0)
    BY DEF ArePresses
  <2> QED BY <2>1
<1>2. ASSUME NEW k \in 0 .. n - 1, k \in S PROVE k + 1 \in S
  <2>1. PICK f : ArePresses(f, reg, name, k)
    BY <1>2
  <2> DEFINE g == [i \in 0 .. k + 1 |-> IF i = k + 1 THEN NextTheme(reg, f[k]) ELSE f[i]]
  <2>2. ASSUME NEW i \in 0 .. k + 1 PROVE g[i] = IF i = 0 THEN name ELSE NextTheme(reg, g[i - 1])
    BY <2>1 DEF ArePresses
  <2>3. ArePresses(g, reg, name, k + 1)
    BY <2>2 DEF ArePresses
  <2> QED BY <2>3
<1> HIDE DEF S
<1>3. n \in S
  BY <1>1, <1>2, Climb
<1> QED BY <1>3 DEF S

(* From wherever the cycle starts, the k-th press shows the k-th name      *)
(* after it, around the end of the list.                                   *)
Around(start, k, n) == IF start + k <= n THEN start + k ELSE start + k - n

(* As many presses as there are names show every name, from any start.     *)
LEMMA CycleShowsAll ==
  ASSUME NEW reg, DOMAIN reg \subseteq UserNames, DOMAIN reg \cap 1 .. BuiltIns = {}, NEW name
  PROVE  {Presses(reg, name)[k] : k \in 1 .. Len(NamesOf(reg))} = ToSet(NamesOf(reg))
<1> DEFINE names == NamesOf(reg)
           f == Presses(reg, name)
<1>1. PICK n : DistinctNames(names, n)
  BY NamesAreDistinct
<1>2. /\ \A i \in 1 .. n : NextTheme(reg, names[i]) = names[IF i < n THEN i + 1 ELSE 1]
      /\ \A x : (\A i \in 1 .. n : names[i] # x) => NextTheme(reg, x) = names[1]
  BY <1>1, NextInCycle
<1>3. n \in Nat \ {0} /\ Len(names) = n /\ DOMAIN names = 1 .. n
  BY <1>1 DEF DistinctNames
<1>4. ArePresses(f, reg, name, n)
  <2>1. \E g : ArePresses(g, reg, name, n)
    BY <1>3, PressesExist
  <2>2. f = CHOOSE g : ArePresses(g, reg, name, n)
    BY <1>3 DEF Presses, ArePresses
  <2> QED BY <2>1, <2>2
<1> HIDE DEF names, f
<1>5. f[0] = name /\ \A k \in 1 .. n : f[k] = NextTheme(reg, f[k - 1])
  <2> DEFINE body == [k \in 0 .. n |-> IF k = 0 THEN name ELSE NextTheme(reg, f[k - 1])]
  <2>1. f = body
    BY <1>4 DEF ArePresses
  <2>2. body[0] = name /\ \A k \in 1 .. n : body[k] = NextTheme(reg, f[k - 1])
    BY <1>3
  <2> HIDE DEF body
  <2> QED BY <2>1, <2>2
<1>6. PICK start \in 0 .. n :
        IF start = 0 THEN \A i \in 1 .. n : names[i] # name ELSE names[start] = name
  BY <1>3
<1> DEFINE S == {k \in 0 .. n : k = 0 \/ f[k] = names[Around(start, k, n)]}
<1>7. 0 \in S
  BY <1>3
<1>8. ASSUME NEW k \in 0 .. n - 1, k \in S PROVE k + 1 \in S
  <2>1. k + 1 \in 1 .. n /\ k + 1 - 1 = k
    BY <1>3
  <2>2. f[k + 1] = NextTheme(reg, f[k])
    BY <1>5, <2>1
  <2>3. CASE k = 0 /\ start = 0
    <3>1. f[k + 1] = names[1] /\ Around(start, k + 1, n) = 1
      BY <1>2, <1>3, <1>5, <1>6, <2>2, <2>3 DEF Around
    <3> QED BY <2>1, <3>1
  <2>4. ASSUME NEW i \in 1 .. n, f[k] = names[i], Around(start, k + 1, n) = IF i < n THEN i + 1 ELSE 1
        PROVE  k + 1 \in S
    BY <1>2, <2>1, <2>2, <2>4
  <2>5. CASE k = 0 /\ start # 0
    <3>1. start \in 1 .. n /\ f[k] = names[start]
      BY <1>5, <1>6, <2>5
    <3>2. Around(start, k + 1, n) = IF start < n THEN start + 1 ELSE 1
      BY <1>3, <2>5, <3>1 DEF Around
    <3> QED BY <2>4, <3>1, <3>2
  <2>6. CASE k # 0
    <3>1. f[k] = names[Around(start, k, n)]
      BY <1>8, <2>6
    <3>2. /\ Around(start, k, n) \in 1 .. n
          /\ Around(start, k + 1, n) = IF Around(start, k, n) < n THEN Around(start, k, n) + 1 ELSE 1
      BY <1>3, <2>6 DEF Around
    <3> QED BY <2>4, <3>1, <3>2
  <2> QED BY <2>3, <2>5, <2>6
<1> HIDE DEF S
<1>9. 0 .. n \subseteq S
  BY <1>3, <1>7, <1>8, Climb
<1>10. ASSUME NEW k \in 1 .. n PROVE f[k] = names[Around(start, k, n)] /\ Around(start, k, n) \in 1 .. n
  <2>1. k \in S /\ k # 0
    BY <1>3, <1>9
  <2> QED BY <1>3, <2>1 DEF S, Around
<1>11. ASSUME NEW i \in 1 .. n PROVE \E k \in 1 .. n : f[k] = names[i]
  <2> DEFINE k == IF i > start THEN i - start ELSE i - start + n
  <2>1. k \in 1 .. n /\ Around(start, k, n) = i
    BY <1>3 DEF Around
  <2> HIDE DEF k
  <2> QED BY <1>10, <2>1
<1>12. {f[k] : k \in 1 .. n} = {names[i] : i \in 1 .. n}
  BY <1>10, <1>11
<1>13. ToSet(names) = {names[i] : i \in 1 .. n}
  BY <1>3 DEF ToSet
<1> QED BY <1>3, <1>12, <1>13 DEF f, names

(* Pressing T again and again shows every theme, whichever files were read *)
(* and whether or not the configured name is one of theirs.                *)
THEOREM CycleReachesEveryTheme == SettingsSpec => []ThemeCycleReachesAll
<1> DEFINE Known == DOMAIN dir \subseteq UserNames /\ DOMAIN registry \subseteq UserNames
<1>1. SettingsInit => Known
  BY DEF SettingsInit
<1>2. ASSUME Known, [SettingsNext]_settingsVars PROVE Known'
  <2>1. ASSUME NEW f \in Files, EditFile(f) PROVE Known'
    BY <1>2, <2>1 DEF EditFile
  <2>2. ASSUME NEW n \in UserNames, EditTheme(n) PROVE Known'
    BY <1>2, <2>2 DEF EditTheme
  <2>3. CASE CycleTheme
    BY <1>2, <2>3 DEF CycleTheme
  <2>4. CASE Reload
    BY <1>2, <2>4 DEF Reload, LoadUserThemes
  <2>5. CASE UNCHANGED settingsVars
    BY <1>2, <2>5 DEF settingsVars
  <2> QED BY <1>2, <2>1, <2>2, <2>3, <2>4, <2>5 DEF SettingsNext
<1>3. Known => ThemeCycleReachesAll
  BY CycleShowsAll DEF ThemeCycleReachesAll
<1> QED BY <1>1, <1>2, <1>3, PTL DEF SettingsSpec

-----------------------------------------------------------------------------
(* Types of the settings.                                                  *)

(* The fields of a configuration and of a file.                            *)
Configs(themes) ==
  [theme : themes, kill : Letters, filter : Letters \cup {NoKey}, warn : Int, crit : Int]

(* T always finds a name, whether or not the present one is still listed.  *)
LEMMA NextThemeIsName ==
  ASSUME NEW reg, DOMAIN reg \subseteq UserNames, NEW name
  PROVE  NextTheme(reg, name) \in Nat \ {0}
<1> DEFINE S == DOMAIN reg
           c == Cardinality(S)
           own == InOrder(S)
           first == [i \in 1 .. BuiltIns |-> i]
           names == NamesOf(reg)
           at == {i \in DOMAIN names : names[i] = name}
           k == ((CHOOSE i \in at : \A j \in at : i <= j) % Len(names)) + 1
<1>1. /\ UserNames \subseteq Nat \ {0} /\ IsFiniteSet(UserNames) /\ BuiltIns \in Nat \ {0}
  BY SettingsAssumption DEF SettingsAssumption
<1>2. S \in SUBSET Nat /\ IsFiniteSet(S)
  BY <1>1, FS_Subset
<1>3. c \in Nat /\ own \in [1 .. c -> S]
  BY <1>2, OrderedNames DEF Lists
<1> HIDE DEF own, c
<1>4. own \in Seq(Nat \ {0}) /\ Len(own) = c
  <2>1. own \in [1 .. c -> Nat \ {0}]
    BY <1>1, <1>3
  <2> QED BY <1>3, <2>1
<1>5. first \in Seq(Nat \ {0}) /\ Len(first) = BuiltIns
  BY <1>1
<1>6. names = first \o own
  BY DEF NamesOf, own
<1> HIDE DEF first, names
<1>7. names \in Seq(Nat \ {0}) /\ Len(names) = BuiltIns + c
  <2> DEFINE Positive == Nat \ {0}
  <2>1. first \in Seq(Positive) /\ own \in Seq(Positive)
    BY <1>4, <1>5
  <2> HIDE DEF Positive
  <2>2. names \in Seq(Positive) /\ Len(names) = Len(first) + Len(own)
    BY <1>6, <2>1, ConcatProperties
  <2> QED BY <1>4, <1>5, <2>2 DEF Positive
<1>8. Len(names) \in Nat \ {0} /\ DOMAIN names = 1 .. Len(names)
  BY <1>1, <1>3, <1>7
<1>9. names[1] \in Nat \ {0}
  BY <1>7, <1>8
<1>10. at # {} => names[k] \in Nat \ {0}
  <2>1. at \subseteq 1 .. Len(names)
    BY <1>8
  <2> HIDE DEF at
  <2>2. ASSUME at # {} PROVE (CHOOSE i \in at : \A j \in at : i <= j) \in 1 .. Len(names)
    <3>1. \E i \in at : \A j \in at : i <= j
      <4>1. at \subseteq Nat
        BY <1>8, <2>1
      <4>2. PICK m \in at : \A j \in at : ~(j < m)
        BY <2>2, <4>1, LeastNumber
      <4>3. \A j \in at : m <= j
        BY <4>1, <4>2
      <4> QED BY <4>3
    <3> QED BY <2>1, <3>1
  <2>3. ASSUME at # {} PROVE k \in 1 .. Len(names)
    <3> DEFINE i == CHOOSE i \in at : \A j \in at : i <= j
    <3>1. i \in 1 .. Len(names)
      BY <2>2, <2>3
    <3> HIDE DEF i
    <3>2. (i % Len(names)) + 1 \in 1 .. Len(names)
      BY <1>8, <3>1
    <3> QED BY <3>2 DEF i
  <2> HIDE DEF k
  <2> QED BY <1>7, <1>8, <2>3
<1>11. NextTheme(reg, name) = IF at = {} THEN names[1] ELSE names[k]
  BY DEF NextTheme, names
<1> HIDE DEF at, k
<1> QED BY <1>9, <1>10, <1>11

(* A configuration's fields may be known more narrowly.                    *)
LEMMA FieldsWiden ==
  ASSUME NEW T, NEW K, NEW F, NEW W, NEW C, T \subseteq Nat, K \subseteq Letters,
         F \subseteq Letters \cup {NoKey}, W \subseteq Int, C \subseteq Int
  PROVE  [theme : T, kill : K, filter : F, warn : W, crit : C] \subseteq Configs(Nat)
BY DEF Configs

(* Whatever a file holds, what is loaded from it is a configuration.       *)
LEMMA LoadIsTyped ==
  ASSUME file \in Files \cup {[state |-> "missing", values |-> Default]}, file.state # "broken"
  PROVE  Load \in Configs(Nat \ {0})
<1>0. /\ DefaultTheme \in Nat \ {0} /\ UserNames \subseteq Nat \ {0} /\ KillDefault \in Letters
      /\ Warns \subseteq Int /\ Crits \subseteq Int
      /\ Huge \in Int /\ WarnDefault \in Int /\ CritDefault \in Int
  BY SettingsAssumption, ThresholdsAssumption DEF SettingsAssumption, ThresholdsAssumption
<1> USE <1>0
<1>1. Default \in Configs(Nat \ {0})
  BY DEF Default, Configs
<1>2. ASSUME NEW f \in Configs(Nat) PROVE Normalized(f) \in Configs(Nat \ {0})
  <2> DEFINE kill == IF ValidKey(f.kill) THEN f.kill ELSE KillDefault
             filter == IF ValidKey(f.filter) THEN f.filter ELSE NoKey
             clash == filter # NoKey /\ Lower[kill] = Lower[filter]
             theme == IF f.theme = 0 THEN DefaultTheme ELSE f.theme
  <2>1. /\ f.theme \in Nat /\ f.kill \in Letters /\ f.filter \in Letters \cup {NoKey}
        /\ f.warn \in Int /\ f.crit \in Int
    BY <1>2 DEF Configs
  <2>2. theme \in Nat \ {0} /\ kill \in Letters /\ filter \in Letters \cup {NoKey}
    BY <2>1
  <2>3. Warn(f.warn) \in Int /\ Crit(f.warn, f.crit) \in Int
    BY <2>1 DEF Warn, Crit, PlusOne
  <2>4. Normalized(f) = [theme |-> theme, kill |-> IF clash THEN KillDefault ELSE kill,
                         filter |-> IF clash THEN NoKey ELSE filter,
                         warn |-> Warn(f.warn), crit |-> Crit(f.warn, f.crit)]
    BY DEF Normalized
  <2> HIDE DEF theme, kill, filter, clash
  <2>5. (IF clash THEN KillDefault ELSE kill) \in Letters
    BY <2>2
  <2>6. (IF clash THEN NoKey ELSE filter) \in Letters \cup {NoKey}
    BY <2>2
  <2> QED BY <2>2, <2>3, <2>4, <2>5, <2>6 DEF Configs
<1>3. file.state # "missing" => file.values \in Configs(Nat)
  <2>1. Default \in Configs(Nat)
    BY <1>1 DEF Configs
  <2>2. CASE file \in [state : {"missing", "broken"}, values : {Default}]
               \/ file = [state |-> "missing", values |-> Default]
    BY <2>1, <2>2
  <2> DEFINE themes == [theme : {0, DefaultTheme} \cup UserNames, kill : {KillDefault},
                        filter : {NoKey}, warn : {WarnDefault}, crit : {CritDefault}]
             letters == [theme : {0}, kill : Letters, filter : Letters \cup {NoKey},
                         warn : {WarnDefault}, crit : {CritDefault}]
             limits == [theme : {0}, kill : {KillDefault}, filter : {NoKey}, warn : Warns, crit : Crits]
             all == themes \cup letters \cup limits
  <2>3. themes \subseteq Configs(Nat) /\ letters \subseteq Configs(Nat) /\ limits \subseteq Configs(Nat)
    <3>1. /\ {0, DefaultTheme} \cup UserNames \subseteq Nat /\ {0} \subseteq Nat
          /\ {KillDefault} \subseteq Letters /\ {NoKey} \subseteq Letters \cup {NoKey}
          /\ {WarnDefault} \subseteq Int /\ {CritDefault} \subseteq Int
          /\ Warns \subseteq Int /\ Crits \subseteq Int
      OBVIOUS
    <3>2. themes \subseteq Configs(Nat)
      BY <3>1, FieldsWiden, Zenon
    <3>3. letters \subseteq Configs(Nat)
      BY <3>1, FieldsWiden, Zenon
    <3>4. limits \subseteq Configs(Nat)
      BY <3>1, FieldsWiden, Zenon
    <3> HIDE DEF themes, letters, limits
    <3> QED BY <3>2, <3>3, <3>4
  <2>4. all \subseteq Configs(Nat)
    <3> HIDE DEF themes, letters, limits
    <3> QED BY <2>3
  <2>5. file \in [state : {"ok"}, values : all] \cup [state : {"missing", "broken"}, values : {Default}]
               \cup {[state |-> "missing", values |-> Default]}
    BY DEF Files
  <2> HIDE DEF all
  <2>6. CASE file \in [state : {"ok"}, values : all]
    BY <2>4, <2>6
  <2> QED BY <2>2, <2>5, <2>6
<1> QED BY <1>1, <1>2, <1>3 DEF Load

(* The configuration keeps its fields, and the palettes in force were read *)
(* from files that existed, through any edits, reloads and theme keys.     *)
THEOREM SettingsTypeCorrect == SettingsSpec => []SettingsTypeOK
<1> DEFINE Typed == SettingsTypeOK /\ cfg \in Configs(Nat \ {0})
<1>1. SettingsInit => Typed
  <2> SUFFICES ASSUME SettingsInit PROVE Typed
    OBVIOUS
  <2>1. Default \in Configs(Nat \ {0})
    BY SettingsAssumption, ThresholdsAssumption
       DEF SettingsAssumption, ThresholdsAssumption, Default, Configs
  <2>2. DOMAIN dir \subseteq UserNames
    BY DEF SettingsInit
  <2> QED BY <2>1, <2>2, SettingsAssumption DEF SettingsInit, SettingsTypeOK, SettingsAssumption, Configs
<1>2. ASSUME Typed, [SettingsNext]_settingsVars PROVE Typed'
  <2>1. /\ cfg \in Configs(Nat \ {0}) /\ edits \in 0 .. MaxEdits /\ MaxEdits \in Nat
        /\ file \in Files \cup {[state |-> "missing", values |-> Default]}
        /\ DOMAIN dir \subseteq UserNames /\ DOMAIN registry \subseteq UserNames
    BY <1>2, SettingsAssumption DEF SettingsTypeOK, SettingsAssumption
  <2>2. ASSUME cfg' \in Configs(Nat \ {0}), edits' \in 0 .. MaxEdits,
               file' \in Files \cup {[state |-> "missing", values |-> Default]},
               DOMAIN dir' \subseteq UserNames, DOMAIN registry' \subseteq UserNames
        PROVE  Typed'
    BY <2>2 DEF SettingsTypeOK, Configs
  <2> HIDE DEF Typed
  <2>3. ASSUME NEW f \in Files, EditFile(f) PROVE Typed'
    <3>1. edits' \in 0 .. MaxEdits /\ file' = f /\ UNCHANGED <<cfg, dir, registry>>
      BY <2>1, <2>3 DEF EditFile
    <3> QED BY <2>1, <2>2, <3>1
  <2>4. ASSUME NEW n \in UserNames, EditTheme(n) PROVE Typed'
    <3>1. edits' \in 0 .. MaxEdits /\ UNCHANGED <<file, cfg, registry>>
      BY <2>1, <2>4 DEF EditTheme
    <3>2. DOMAIN dir' \subseteq UserNames
      BY <2>1, <2>4 DEF EditTheme
    <3> QED BY <2>1, <2>2, <3>1, <3>2
  <2>5. CASE CycleTheme
    <3>1. PICK next : /\ next = NextTheme(registry, cfg.theme) /\ cfg' = [cfg EXCEPT !.theme = next]
                      /\ UNCHANGED <<file, dir, edits, registry>>
      BY <2>5 DEF CycleTheme
    <3>2. next \in Nat \ {0}
      BY <2>1, <3>1, NextThemeIsName
    <3>3. cfg' \in Configs(Nat \ {0})
      BY <2>1, <3>1, <3>2 DEF Configs
    <3> QED BY <2>1, <2>2, <3>1, <3>3
  <2>6. CASE Reload
    <3>1. /\ cfg' = Load /\ registry' = dir /\ file.state # "broken"
          /\ UNCHANGED <<file, dir, edits>>
      BY <2>6 DEF Reload, LoadUserThemes
    <3>2. Load \in Configs(Nat \ {0})
      BY <2>1, <3>1, LoadIsTyped
    <3> QED BY <2>1, <2>2, <3>1, <3>2
  <2>7. CASE UNCHANGED settingsVars
    <3>1. UNCHANGED <<file, dir, edits, cfg, registry>>
      BY <2>7 DEF settingsVars
    <3> QED BY <2>1, <2>2, <3>1
  <2> QED BY <1>2, <2>3, <2>4, <2>5, <2>6, <2>7 DEF SettingsNext
<1>3. Typed => SettingsTypeOK
  OBVIOUS
<1> HIDE DEF Typed
<1> QED BY <1>1, <1>2, <1>3, PTL DEF SettingsSpec
=============================================================================
