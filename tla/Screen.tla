------------------------------- MODULE Screen -------------------------------
(***************************************************************************)
(* The screen around the tabs (app.go): which tab is active, the overlays, *)
(* the global keys, the row of tabs with its alert chips and its clickable *)
(* zones, the status bar, and the frame that stacks them.  Every message   *)
(* but mouse motion redraws the frame, and drawing the row of tabs records *)
(* where the tabs are: an action here is a message and the redraw after    *)
(* it.  Texts are their widths in cells.                                   *)
(***************************************************************************)
EXTENDS Integers, Sequences, FiniteSets

CONSTANTS
  Tabs,        \* the titles' widths: a sequence of [full, icon]
  CapW,        \* the cap of the active tab: one cell with nerd fonts, or none
  Filterable,  \* the position of the Processes tab in it
  ChipW,       \* the width of an alert chip
  LeftW,       \* the identity at the left of the status bar
  LiveChips,   \* the widths of the live chips, by priority
  Contents,    \* the lines a tab or an overlay may have
  TermSizes,   \* the sizes <<width, height>> of the terminal
  AlertCounts, \* how many alerts may be open
  Columns,     \* where the row of tabs is clicked
  Pressed,     \* the keys pressed, of 0 .. Esc
  MaxTyped     \* bound: characters typed into the filter

(* Widths and sizes are numbers; the logo, a space and the version take    *)
(* twelve cells of the identity at least.                                  *)
ASSUME ScreenAssumption ==
  /\ Tabs \in Seq([full : Nat, icon : Nat])
  /\ \A i \in DOMAIN Tabs : 0 < Tabs[i].icon /\ Tabs[i].icon <= Tabs[i].full
  /\ Filterable \in DOMAIN Tabs /\ AlertCounts \subseteq Nat /\ MaxTyped \in Nat
  /\ LeftW \in Nat /\ LeftW >= 12 /\ ChipW \in Nat /\ CapW \in 0 .. 1 /\ LiveChips \in Seq(Nat)
  /\ TermSizes \subseteq Nat \X Nat /\ Contents \subseteq Nat

VARIABLES
  term,        \* width and height
  activeTab, shownTabs,   \* the tab on screen; the tabs that believe they are
  help, history,          \* the overlays
  editing, typed,         \* the filter of the Processes tab, its characters
  meant,       \* history: characters pressed while it was open and in front
  open,        \* alerts open
  live,        \* a sample was received
  flash,       \* a transient note is up
  ended,       \* the remote stream ended
  bar,         \* the row of tabs on screen: [act, compact, right]
  bounds,      \* tabBounds
  zone,        \* alertZoneStart
  status,      \* width of the status bar before the final clip
  rowCount     \* rows of the frame

screenVars == <<term, activeTab, shownTabs, help, history, editing, typed, meant, open, live, flash,
                ended, bar, bounds, zone, status, rowCount>>

ClockW == 5        \* 15:04
CountW == 5        \* a chip with the number of alerts
HintsFull == 53
HintsShort == 14
NoZone == -1

AtMost(a, b) == IF a < b THEN a ELSE b
AtLeast(a, b) == IF a > b THEN a ELSE b

(* Where each of a row of widths ends: the running totals, from 0 on.      *)
Totals(widths) ==
  LET end[i \in 0 .. Len(widths)] == IF i = 0 THEN 0 ELSE end[i - 1] + widths[i] IN end

-----------------------------------------------------------------------------
(* The row of tabs.                                                        *)

CellW(i, act, compact) ==
  2 + (IF compact /\ i # act THEN Tabs[i].icon ELSE Tabs[i].full) + (IF i = act THEN CapW ELSE 0)
Edge(act, compact) == Totals([i \in 1 .. Len(Tabs) |-> CellW(i, act, compact)])

(* tabBarLeft: the strip and, as its side effect, the clickable zones.     *)
TabBarLeft(act, compact) ==
  LET edge == Edge(act, compact) IN [i \in DOMAIN Tabs |-> <<edge[i - 1], edge[i]>>]
StripW(act, compact) == Edge(act, compact)[Len(Tabs)]

(* tabBarRight: at most three chips and a count of the others, the clock.  *)
TabBarRight(n) ==
  AtMost(n, 3) * (ChipW + 1) + (IF n > 3 THEN CountW + 1 ELSE 0) + ClockW

(* tabBarView.  The strip is measured in full, then compact if the row is  *)
(* too long, and a compact strip that does not help is measured in full    *)
(* again for the zones it records.                                         *)
Compact(w, act, n) ==
  /\ StripW(act, FALSE) + TabBarRight(n) > w
  /\ StripW(act, TRUE) + TabBarRight(n) <= w
RightW(w, act, n) ==
  LET left == StripW(act, Compact(w, act, n))
      wanted == IF w - left - TabBarRight(n) < 1 /\ n > 0 THEN CountW ELSE TabBarRight(n)
  IN IF w - left - wanted < 1 THEN 0 ELSE wanted

(* Mutant of RecordedAs: the zones of the last strip measured stay.        *)
RecordedAs_Measured(w, act, n) == StripW(act, FALSE) + TabBarRight(n) > w
RecordedAs(w, act, n) == Compact(w, act, n)

TabBarView(w, act, n) ==
  /\ bar' = [act |-> act, compact |-> Compact(w, act, n), right |-> RightW(w, act, n)]
  /\ bounds' = TabBarLeft(act, RecordedAs(w, act, n))
  /\ zone' = IF RightW(w, act, n) = 0 THEN NoZone ELSE w - RightW(w, act, n)

(* tabAt: the tab whose zone holds a column, 0 when there is none.         *)
TabAt(x) ==
  IF \E i \in DOMAIN bounds : bounds[i][1] <= x /\ x < bounds[i][2]
  THEN CHOOSE i \in DOMAIN bounds : bounds[i][1] <= x /\ x < bounds[i][2] ELSE 0

-----------------------------------------------------------------------------
(* The status bar.                                                         *)

Hints(w) == IF LeftW + HintsFull > w THEN HintsShort ELSE HintsFull

(* Chips with separators of one cell; the last ones are dropped first.     *)
Chips == Totals([k \in 1 .. Len(LiveChips) |-> LiveChips[k] + IF k > 1 THEN 1 ELSE 0])
KeptChips(w) ==
  CHOOSE k \in 0 .. Len(LiveChips) :
    /\ k = 0 \/ LeftW + Hints(w) + Chips[k] <= w
    /\ \A j \in k + 1 .. Len(LiveChips) : LeftW + Hints(w) + Chips[j] > w

(* A note longer than any terminal, in a chip with a cell of padding on    *)
(* either side.  Mutant: the padding is not part of the budget.            *)
FlashW_NoPadding(w) ==
  LET budget == w - LeftW - Hints(w) IN IF budget > 10 THEN budget + 2 ELSE 0
FlashW(w) ==
  LET budget == w - LeftW - Hints(w) - 2 IN IF budget > 10 THEN budget + 2 ELSE 0

RemoteLostBar(w) ==
  LET text == IF w - 4 > 20 THEN w - 4 ELSE 24 IN AtLeast(text, w - 2) + 2

StatusBarView(w, lost, noted, sampled) ==
  LET mid == IF noted THEN FlashW(w) ELSE IF sampled THEN Chips[KeptChips(w)] ELSE 0
  IN IF lost THEN RemoteLostBar(w)
     ELSE LeftW + mid + Hints(w) + AtLeast(0, w - LeftW - Hints(w) - mid)

-----------------------------------------------------------------------------
(* The frame: the content of the active tab or of an overlay, of any       *)
(* length, clipped or padded to what the two bars leave of the height.     *)

(* Mutant of ContentRows: only padded.                                     *)
ContentRows_NoClip(h, lines) == AtLeast(lines, h - 2)
ContentRows(h, lines) ==
  AtLeast(IF h > 0 THEN AtMost(lines, AtLeast(0, h - 2)) ELSE lines, h - 2)

(* The redraw that ends the handling of a message.                         *)
Frame ==
  \E lines \in Contents :
    /\ TabBarView(term'[1], activeTab', open')
    /\ status' = StatusBarView(term'[1], ended', flash', live')
    /\ rowCount' = 2 + ContentRows(term'[2], lines)

-----------------------------------------------------------------------------
(* Messages.                                                               *)

(* A note fades unseen; the next redraw no longer shows it.                *)
Fades == flash' \in IF flash THEN BOOLEAN ELSE {FALSE}

(* New: every tab believes it is visible until it is left.                 *)
ScreenInit ==
  /\ term = <<0, 0>> /\ activeTab = 1 /\ shownTabs = DOMAIN Tabs
  /\ help = FALSE /\ history = FALSE
  /\ editing = FALSE /\ typed = 0 /\ meant = 0
  /\ open = 0 /\ live = FALSE /\ flash = FALSE /\ ended = FALSE
  /\ bar = [act |-> 1, compact |-> FALSE, right |-> 0]
  /\ bounds = TabBarLeft(1, FALSE) /\ zone = NoZone
  /\ status = LeftW + HintsShort /\ rowCount = 2

WindowSize(s) ==
  /\ term' = s /\ Fades
  /\ UNCHANGED <<activeTab, shownTabs, help, history, editing, typed, meant, open, live, ended>>
  /\ Frame

SampleArrives(n) ==
  /\ open' = n /\ live' = TRUE /\ Fades
  /\ UNCHANGED <<term, activeTab, shownTabs, help, history, editing, typed, meant, ended>>
  /\ Frame

StreamEnds ==
  /\ ended' = TRUE /\ Fades
  /\ UNCHANGED <<term, activeTab, shownTabs, help, history, editing, typed, meant, open, live>>
  /\ Frame

(* setActive.  Mutant: the tab that is left goes on believing it is shown. *)
SetActiveTab_Both(i) ==
  /\ activeTab' = i
  /\ shownTabs' = shownTabs \cup {i}
SetActiveTab(i) ==
  /\ activeTab' = i
  /\ shownTabs' = IF i = activeTab THEN shownTabs ELSE (shownTabs \ {activeTab}) \cup {i}

(* A click on the row of tabs; content clicks belong to the tabs.          *)
ClickBar(x) ==
  /\ \/ TabAt(x) # 0 /\ SetActiveTab(TabAt(x)) /\ UNCHANGED history
     \/ /\ TabAt(x) = 0
        /\ history' = IF zone >= 0 /\ x >= zone THEN ~history ELSE history
        /\ UNCHANGED <<activeTab, shownTabs>>
  /\ Fades
  /\ UNCHANGED <<term, help, editing, typed, meant, open, live, ended>>
  /\ Frame

(* globalKey: help, history, esc on an overlay, the neighbouring tabs and  *)
(* the digits.  A key is a number: a digit, or one of the names below.     *)
(* The theme and reload keys only leave a note here; q ends the program.   *)
Digits == 1 .. 9
Slash == 10
Enter == 11
Esc == 12
OverlayKey ==
  /\ \/ help' = ~help /\ UNCHANGED history
     \/ history' = ~history /\ UNCHANGED help
     \/ help /\ help' = FALSE /\ UNCHANGED history
     \/ ~help /\ history /\ history' = FALSE /\ UNCHANGED help
  /\ Fades
  /\ UNCHANGED <<term, activeTab, shownTabs, editing, typed, meant, open, live, ended>>
  /\ Frame
NeighbourKey ==
  /\ \/ SetActiveTab((activeTab % Len(Tabs)) + 1)
     \/ SetActiveTab(((activeTab - 2) % Len(Tabs)) + 1)
  /\ Fades
  /\ UNCHANGED <<term, help, history, editing, typed, meant, open, live, ended>>
  /\ Frame
DigitKey(d) ==
  /\ meant' = IF editing /\ activeTab = Filterable /\ ~help /\ ~history /\ meant < MaxTyped
              THEN meant + 1 ELSE meant
  /\ IF d \in DOMAIN Tabs THEN SetActiveTab(d) ELSE UNCHANGED <<activeTab, shownTabs>>
  /\ Fades
  /\ UNCHANGED <<term, help, history, editing, typed, open, live, ended>>
  /\ Frame
NoteKey ==
  /\ flash' = TRUE
  /\ UNCHANGED <<term, activeTab, shownTabs, help, history, editing, typed, meant, open, live, ended>>
  /\ Frame

(* Any other key goes to the active tab unless an overlay is open: the     *)
(* filter of the Processes tab opens, takes a character, is closed.        *)
TabKey(c) ==
  /\ ~help /\ ~history /\ activeTab = Filterable
  /\ \/ ~editing /\ c = Slash /\ editing' = TRUE /\ UNCHANGED <<typed, meant>>
     \/ editing /\ c = Enter /\ editing' = FALSE /\ UNCHANGED <<typed, meant>>
     \/ editing /\ c = Esc /\ editing' = FALSE /\ typed' = 0 /\ meant' = 0
     \/ /\ editing /\ c \notin {Enter, Esc} /\ typed < MaxTyped /\ meant < MaxTyped
        /\ typed' = typed + 1 /\ meant' = meant + 1 /\ UNCHANGED editing
  /\ Fades
  /\ UNCHANGED <<term, activeTab, shownTabs, help, history, open, live, ended>>
  /\ Frame

(* KeyPressMsg: what a printable key does.                                 *)
Press(c) == IF c \in Digits THEN DigitKey(c) ELSE TabKey(c)

ScreenNext ==
  \/ \E s \in TermSizes : WindowSize(s)
  \/ \E n \in AlertCounts : SampleArrives(n)
  \/ StreamEnds
  \/ \E x \in Columns : x < term[1] /\ ClickBar(x)
  \/ OverlayKey \/ NeighbourKey \/ NoteKey
  \/ \E c \in Pressed : Press(c)

ScreenSpec == ScreenInit /\ [][ScreenNext]_screenVars
-----------------------------------------------------------------------------
(* Properties.                                                             *)

(* Every variable in its domain, and the tab on screen believes it is      *)
(* shown, or its table would stop following the samples.                   *)
ScreenTypeOK ==
  /\ term \in TermSizes \cup {<<0, 0>>} /\ activeTab \in DOMAIN Tabs
  /\ shownTabs \subseteq DOMAIN Tabs /\ activeTab \in shownTabs
  /\ {help, history, editing, live, flash, ended} \subseteq BOOLEAN
  /\ typed \in 0 .. MaxTyped /\ meant \in 0 .. MaxTyped /\ open \in AlertCounts \cup {0}
  /\ DOMAIN bounds = DOMAIN Tabs /\ zone >= NoZone

(* What the row of tabs shows at a column: the tab's position, -1 for the  *)
(* chips and the clock, 0 between the two.                                 *)
DrawnAt(x) ==
  LET edge == Edge(bar.act, bar.compact)
      strip == edge[Len(Tabs)]
  IN CASE x < strip -> CHOOSE i \in DOMAIN Tabs : edge[i - 1] <= x /\ x < edge[i]
       [] x >= strip /\ bar.right > 0 /\ x >= term[1] - bar.right -> -1
       [] OTHER -> 0

(* tabAt, alertZoneStart: whatever strips were measured on the way, a      *)
(* click reaches what the row of tabs shows under the pointer.             *)
ClickHitsShownTab ==
  /\ bar.act = activeTab
  /\ \A x \in 0 .. term[1] - 1 :
       /\ TabAt(x) = AtLeast(DrawnAt(x), 0)
       /\ (TabAt(x) = 0 /\ zone >= 0 /\ x >= zone) <=> DrawnAt(x) = -1

(* "Docked, always" (comment app.go:514-521): the frame has exactly the    *)
(* rows of the terminal, from two on, whatever the tab renders; and the    *)
(* status bar fills its row without spilling over, as soon as the identity *)
(* and the short hints fit, with a note, with live chips or after the      *)
(* stream was lost.                                                        *)
ScreenFits ==
  /\ term[2] >= 2 => rowCount = term[2]
  /\ term[1] >= LeftW + HintsShort => status = term[1]

(* README.md:99, "filter - matches name, user, or PID prefix for all-digit *)
(* queries": a digit typed while the filter is open extends the query.     *)
DigitsReachFilter == typed = meant
=============================================================================
