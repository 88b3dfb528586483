----------------------------- MODULE TableTabs ------------------------------
(***************************************************************************)
(* The Disks, Network and Connections tabs (disks.go, network.go,          *)
(* conns.go).  Each keeps its last sample, rebuilds its tables only while  *)
(* it is visible, and drops columns when the terminal is narrow; the       *)
(* connections have two columns more when some process id is known.  The   *)
(* table widget draws itself at every change of its rows or columns and    *)
(* indexes the columns by a row's cells: a row longer than the header is   *)
(* a panic.  A sample is the names of what it reports, the same for every  *)
(* table, and whether it has process ids.                                  *)
(***************************************************************************)
EXTENDS Integers, FiniteSets

CONSTANTS
  Names,      \* devices, interfaces, connections
  Widths,     \* terminal widths
  Samples,    \* length of a history (12)
  HistNames,  \* names remembered before the histories are dropped (128)
  NoTab       \* no tab of these is visible

ASSUME TabsAssumption ==
  /\ Samples \in Nat \ {0} /\ HistNames \in Nat
  /\ Widths \subseteq Nat \ {0} /\ IsFiniteSet(Names)

Tables == {"net", "conn", "fs", "io"}
TabOf(t) == IF t \in {"fs", "io"} THEN "disks" ELSE t
TabNames == {"net", "conn", "disks"}

VARIABLES
  wide,      \* the terminal's width, 0 before the first resize
  front,     \* the active tab among these, or NoTab
  told,      \* the tabs that believe they are visible
  sampled,   \* the last sample: [names, pids]
  anyPID,    \* the connections have the process columns
  cols,      \* per table: the number of columns
  body,      \* per table: the rows, [names, cells]
  cur,       \* per table: the cursor
  focus,     \* the disks table under keyboard control
  hist,      \* history lengths by name
  torn       \* a table has drawn a row longer than its header

tabsVars == <<wide, front, told, sampled, anyPID, cols, body, cur, focus, hist, torn>>

If(c, n) == IF c THEN n ELSE 0

-----------------------------------------------------------------------------
(* The columns of each table.                                              *)
UsageColumns(w) == 4 + If(w >= 100, 3)
IoColumns(w) == 4 + If(w >= 90, 1) + If(w >= 76, 2)
NetColumns(w) == 4 + If(w >= 100, 2) + If(w >= 112, 1) + If(w >= 88, 1)
ConnColumns(pid) == 3 + If(pid, 2)
Columns(t, w, pid) ==
  CASE t = "fs" -> UsageColumns(w) [] t = "io" -> IoColumns(w)
    [] t = "net" -> NetColumns(w) [] t = "conn" -> ConnColumns(pid)

(* The cells rebuild gives a row.  Mutant: a threshold is off by one.      *)
UsageCells_Sooner(w) == 2 + If(w >= 99, 1) + 1 + If(w >= 99, 2) + 1
UsageCells(w) == 2 + If(w >= 100, 1) + 1 + If(w >= 100, 2) + 1
IoCells(w) == 3 + If(w >= 90, 1) + If(w >= 76, 2) + 1
NetCells(w) == 3 + If(w >= 100, 2) + If(w >= 112, 1) + If(w >= 88, 1) + 1
ConnCells(pid) == 3 + If(pid, 2)
Cells(t, w, pid) ==
  CASE t = "fs" -> UsageCells(w) [] t = "io" -> IoCells(w)
    [] t = "net" -> NetCells(w) [] t = "conn" -> ConnCells(pid)

NoRows == [names |-> {}, cells |-> 0]
HasPID(s) == s.pids /\ s.names # {}

(* The rows fit under a header of n columns.                               *)
Fits(rows, n) == rows.names = {} \/ rows.cells <= n

(* rebuild, SetRows and EnsureCursor: the rows of table t for the sample,  *)
(* and the cursor on one of them.                                          *)
Built(t, s, w, pid) == [names |-> s.names, cells |-> IF s.names = {} THEN 0 ELSE Cells(t, w, pid)]
Clamped(c, n) == IF c >= n THEN n - 1 ELSE c
Ensured(c, n) == IF n > 0 /\ (c < 0 \/ c >= n) THEN 0 ELSE c
CursorFor(t, emptied, s) ==
  LET n == Cardinality(s.names)
      c == IF emptied THEN -1 ELSE cur[t]
  IN Ensured(Clamped(c, n), n)

(* SetTableColumns: a header of another length empties the rows first.     *)
(* Mutant: it never does.                                                  *)
Emptied_Never(t, n) == FALSE
Emptied(t, n) == cols[t] # n

-----------------------------------------------------------------------------
(* recordIO, recordRates: a rate more for every name, the histories all    *)
(* dropped before that when there are too many names.  Mutant: they are    *)
(* kept.                                                                   *)
Longer(kept, s) ==
  LET Len1(n) == (IF n \in kept THEN hist[n] ELSE 0) + If(n \in s.names, 1)
  IN [n \in kept \cup s.names |-> IF Len1(n) > Samples THEN Samples ELSE Len1(n)]
Recorded_Keep(s) == Longer(DOMAIN hist, s)
Recorded(s) ==
  Longer(IF Cardinality(DOMAIN hist) > HistNames THEN {} ELSE DOMAIN hist, s)

-----------------------------------------------------------------------------
TableInit ==
  /\ wide = 0 /\ front = NoTab /\ told = TabNames
  /\ sampled = [names |-> {}, pids |-> FALSE] /\ anyPID = FALSE
  /\ cols = [t \in Tables |-> Columns(t, 100, TRUE)]
  /\ body = [t \in Tables |-> NoRows]
  /\ cur = [t \in Tables |-> 0]
  /\ focus = "fs" /\ torn = FALSE
  /\ hist = [n \in {} |-> 0]

(* SetSize of every tab: the new header, drawn over what is left of the    *)
(* rows, then the rows rebuilt from the last sample.                       *)
ResizeTables(w) ==
  LET n(t) == Columns(t, w, anyPID)
      left(t) == IF Emptied(t, n(t)) THEN NoRows ELSE body[t]
      built(t) == Built(t, sampled, w, anyPID)
  IN
  /\ wide' = w
  /\ cols' = [t \in Tables |-> n(t)]
  /\ body' = [t \in Tables |-> built(t)]
  /\ cur' = [t \in Tables |-> CursorFor(t, Emptied(t, n(t)), sampled)]
  /\ torn' = (torn \/ \E t \in Tables : ~Fits(left(t), n(t)) \/ ~Fits(built(t), n(t)))
  /\ UNCHANGED <<front, told, sampled, anyPID, focus, hist>>

(* Rebuilding the tables of the tabs in T for the sample s, the            *)
(* connections' process columns following the sample (syncPIDNames).       *)
(* Mutant: the rows are rebuilt before the header follows.                 *)
Rebuild_RowsFirst(T, s) ==
  LET of(t) == TabOf(t) \in T
      pid == IF "conn" \in T THEN HasPID(s) ELSE anyPID
      n(t) == IF t = "conn" /\ pid # anyPID THEN Columns(t, wide, pid) ELSE cols[t]
      built(t) == Built(t, s, wide, pid)
  IN
  /\ anyPID' = pid
  /\ cols' = [t \in Tables |-> n(t)]
  /\ body' = [t \in Tables |-> IF of(t) THEN built(t) ELSE body[t]]
  /\ cur' = [t \in Tables |-> IF of(t) THEN CursorFor(t, FALSE, s) ELSE cur[t]]
  /\ torn' = (torn \/ \E t \in Tables : of(t) /\ ~Fits(built(t), cols[t]))
RebuildTabs(T, s) ==
  LET of(t) == TabOf(t) \in T
      pid == IF "conn" \in T THEN HasPID(s) ELSE anyPID
      reshaped(t) == t = "conn" /\ pid # anyPID
      n(t) == IF reshaped(t) THEN Columns(t, wide, pid) ELSE cols[t]
      built(t) == Built(t, s, wide, pid)
  IN
  /\ anyPID' = pid
  /\ cols' = [t \in Tables |-> n(t)]
  /\ body' = [t \in Tables |-> IF of(t) THEN built(t) ELSE body[t]]
  /\ cur' = [t \in Tables |-> IF of(t) THEN CursorFor(t, reshaped(t), s) ELSE cur[t]]
  /\ torn' = (torn \/ \E t \in Tables : of(t) /\ ~Fits(built(t), n(t)))

(* SnapshotMsg, to every tab.                                              *)
SampleMsg(s) ==
  /\ sampled' = s /\ hist' = Recorded(s)
  /\ RebuildTabs(told, s)
  /\ UNCHANGED <<wide, front, told, focus>>

(* setActive: the tab left is told, then the one entered, which catches    *)
(* up.  Mutant: it waits for the next sample.                              *)
Enter_NoCatchUp(b) ==
  /\ front' = b /\ told' = (told \ {front}) \cup ({b} \cap TabNames)
  /\ UNCHANGED <<wide, sampled, anyPID, cols, body, cur, focus, hist, torn>>
Enter(b) ==
  /\ b # front
  /\ front' = b /\ told' = (told \ {front}) \cup ({b} \cap TabNames)
  /\ RebuildTabs({b}, sampled)
  /\ UNCHANGED <<wide, sampled, focus, hist>>

(* Keys, wheel and clicks: the cursor of a table of the tab in front.  On  *)
(* the disks tab, left and right change the focus, and a click takes it.   *)
MoveRow(t, c) ==
  /\ TabOf(t) = front
  /\ c \in 0 .. Cardinality(body[t].names) - 1
  /\ cur' = [cur EXCEPT ![t] = c]
  /\ focus' \in {focus} \cup (IF front = "disks" THEN {t} ELSE {})
  /\ UNCHANGED <<wide, front, told, sampled, anyPID, cols, body, hist, torn>>
SwitchFocus ==
  /\ front = "disks"
  /\ focus' = IF focus = "fs" THEN "io" ELSE "fs"
  /\ UNCHANGED <<wide, front, told, sampled, anyPID, cols, body, cur, hist, torn>>

TableNext ==
  \/ \E w \in Widths : ResizeTables(w)
  \/ \E s \in [names : SUBSET Names, pids : BOOLEAN] : SampleMsg(s)
  \/ \E b \in TabNames \cup {NoTab} : Enter(b)
  \/ \E t \in Tables, c \in 0 .. Cardinality(Names) - 1 : MoveRow(t, c)
  \/ SwitchFocus

TableSpec == TableInit /\ [][TableNext]_tabsVars

-----------------------------------------------------------------------------
(* Every variable in its domain: a table with rows has one of them         *)
(* selected, and names that come and go do not pile up in the histories.   *)
TableTypeOK ==
  /\ wide \in Widths \cup {0} /\ front \in TabNames \cup {NoTab} /\ told \subseteq TabNames
  /\ front \in told \cup {NoTab} /\ focus \in {"fs", "io"}
  /\ \A t \in Tables : body[t].names # {} => cur[t] \in 0 .. Cardinality(body[t].names) - 1
  /\ \A n \in DOMAIN hist : hist[n] \in 1 .. Samples
  /\ Cardinality(DOMAIN hist) <= HistNames + Cardinality(sampled.names)

(* SetTableColumns, syncPIDNames: through any order of resizes, samples    *)
(* with and without process ids and tab changes, no table ever draws a row *)
(* with more cells than it has columns, not even between the two calls     *)
(* that change rows and header (comments conns.go:154-155).                *)
RowsFitColumns == ~torn /\ \A t \in Tables : Fits(body[t], cols[t])

(* SetVisible: the tables of the tab in front show the last sample, under  *)
(* the columns that sample and the width call for, however many samples    *)
(* and resizes the tab slept through.                                      *)
FrontTableIsFresh ==
  \A t \in Tables :
    TabOf(t) = front =>
      /\ body[t].names = sampled.names
      /\ wide > 0 => cols[t] = Columns(t, wide, HasPID(sampled))
                  /\ (body[t].names # {} => body[t].cells = cols[t])
=============================================================================
