----------------------------- MODULE Dashboard ------------------------------
(***************************************************************************)
(* The dashboard tab (dashboard.go, panels.go): how it lays its panels out *)
(* for a terminal, how wide it keeps its history graphs, and the frame it  *)
(* caches.  A frame is cached because View runs after every event; what it *)
(* is allowed to depend on, and which handlers throw it away, is the state *)
(* machine below.  Samples are abstracted to how many things they report,  *)
(* which is all the layout looks at; texts and colours are left out.  A    *)
(* sample's freq, swap and zram say whether it reports a plausible clock,  *)
(* swap space and compressed swap (0 or 1); extras counts which of the OS  *)
(* name, the users, a battery and fans it reports.                         *)
(***************************************************************************)
EXTENDS Integers, FiniteSets

CONSTANTS
  Sizes,     \* the sizes <<width, height>> the tab is given
  Shapes,    \* the samples, see DashAssumption
  Looks      \* configurations with their palette

ASSUME DashAssumption ==
  /\ Sizes \subseteq Int \X Int
  /\ Shapes \subseteq
       [cores : Nat, gpus : Nat, nets : Nat, mounts : Nat, sensors : Nat, busy : Nat, procs : Nat,
        freq : 0 .. 1, swap : 0 .. 1, zram : 0 .. 1, extras : 0 .. 4]

VARIABLES
  size,      \* width and height
  density,   \* 0 full, 1 compact, 2 minimal
  look,      \* the configuration and the theme in force
  sample,    \* the last sample, NoSample before the first
  graphW,    \* the widths of the CPU, memory and rate graphs
  coreW,     \* the width of every core's graph
  frame      \* the inputs the cached frame was built from, or NoFrame

dashVars == <<size, density, look, sample, graphW, coreW, frame>>

(* The zero snapshot; a real one reports at least its own process.         *)
NoSample ==
  [cores |-> 0, gpus |-> 0, nets |-> 0, mounts |-> 0, sensors |-> 0, busy |-> 0, procs |-> 0,
   freq |-> 0, swap |-> 0, zram |-> 0, extras |-> 0]
NoFrame == [built |-> FALSE]

HostCol == 36
NetCol == 32
Width == size[1]
Height == size[2]

Smaller(a, b) == IF a < b THEN a ELSE b
Larger(a, b) == IF a > b THEN a ELSE b
Clamp(v, lo, hi) == Smaller(Larger(v, lo), hi)

(* class: which of the three arrangements a size gets.                     *)
Class(w, h) ==
  IF w >= 112 /\ h >= 24 THEN "grid" ELSE IF w >= 80 THEN "stacked" ELSE "narrow"

-----------------------------------------------------------------------------
(* The connected grid.  A panel is the rectangle of its border; panels     *)
(* share their border column or row.                                       *)

Panel(n, x, y, w, h) == [name |-> n, X |-> x, Y |-> y, W |-> w, H |-> h]

BandA(h) == Clamp((h * 4) \div 10, 9, 12)
BandB(h) == Clamp((h * 3) \div 10, 7, 10)
BandC(h) == h - BandA(h) - BandB(h) + 2

GpuH(gpus) == IF gpus > 0 THEN Smaller(gpus + 3, 6) ELSE 1

BandAPanels(w, a) ==
  {Panel("host", 0, 0, HostCol + 1, a), Panel("cpu", HostCol, 0, w - HostCol, a)}
BandBPanels(w, a, b) ==
  {Panel("mem", 0, a - 1, HostCol + 1, b), Panel("net", HostCol, a - 1, NetCol + 1, b),
   Panel("disk", HostCol + NetCol, a - 1, w - HostCol - NetCol, b)}
BandCPanels_Unshared(w, y, c, g) ==
  {Panel("proc", 0, y + g, w, c - g)} \cup (IF g > 1 THEN {Panel("gpu", 0, y, w, g)} ELSE {})
BandCPanels(w, y, c, g) ==
  {Panel("proc", 0, y + g - 1, w, c - g + 1)} \cup
  (IF g > 1 THEN {Panel("gpu", 0, y, w, g)} ELSE {})

(* gridPanels.  The branch for a band C below six rows and the test for    *)
(* eight rows cannot be taken: the grid is only used from 24 rows on.      *)
GridPanels(w, h, dens, gpus) ==
  BandAPanels(w, BandA(h)) \cup
  (IF dens = 2 THEN {}
   ELSE BandBPanels(w, BandA(h), BandB(h)) \cup
        BandCPanels(w, BandA(h) + BandB(h) - 2, BandC(h), GpuH(gpus)))

-----------------------------------------------------------------------------
(* The widths of the graphs and what is drawn from them.                   *)

CoreGraphW(inner) == Clamp(inner \div 6 - 8, 8, 24)

(* SetSize, the widths it computes; they do not follow a later change of   *)
(* the density.                                                            *)
GraphWidths_FullAlways(w, h, dens) ==
  IF Class(w, h) = "narrow"
  THEN [cpu |-> Larger(16, w - 6), mem |-> Larger(12, w \div 2 - 8), net |-> Larger(12, w - 6)]
  ELSE [cpu |-> Larger(20, w - HostCol - 2), mem |-> HostCol - 2, net |-> NetCol - 2]
GraphWidths(w, h, dens) ==
  IF Class(w, h) = "narrow"
  THEN [cpu |-> Larger(16, w - 6), mem |-> Larger(12, w \div 2 - 8), net |-> Larger(12, w - 6)]
  ELSE [cpu |-> IF dens = 0 /\ Class(w, h) = "grid" THEN Larger(20, w - HostCol - 2)
                ELSE Larger(20, w - HostCol - 8),
        mem |-> HostCol - 2, net |-> NetCol - 2]

(* The room the panels give them: the grid's panels without their borders, *)
(* the boxes of stackedRows, and the boxes of one column.                  *)
Room(w, h) ==
  CASE Class(w, h) = "grid" -> [load |-> HostCol - 1, cpu |-> w - HostCol - 2, mem |-> HostCol - 1, net |-> NetCol - 1]
    [] Class(w, h) = "stacked" -> [load |-> HostCol - 2, cpu |-> w - HostCol - 4,
                                   mem |-> Larger(20, 2 * Larger(14, HostCol - 6) + 2), net |-> NetCol - 2]
    [] OTHER -> [load |-> w - 2, cpu |-> w - 2,
                 mem |-> Larger(20, 2 * Larger(12, w \div 2 - 8) + 2), net |-> w - 2]

(* coreGraphGrid: how many cores get a graph of their own.                 *)
CellsPerRow(inner) == Clamp(inner \div (CoreGraphW(inner) + 7), 1, 8)
CoresShown(w, h, cores) ==
  LET inner == w - HostCol - 2
      maxRows == BandA(h) - 2 - 4       \* the panel without the meter and the total graph
  IN IF maxRows < 3 THEN 0 ELSE Smaller(cores, CellsPerRow(inner) * (maxRows \div 3))

CoreGridLines(inner, cores, maxRows) ==
  LET blocks == maxRows \div 3
      shown == Smaller(cores, CellsPerRow(inner) * blocks)
      drawn == (shown + CellsPerRow(inner) - 1) \div CellsPerRow(inner)
  IN IF cores = 0 \/ maxRows < 3 THEN 0
     ELSE 3 * drawn + (IF shown < cores /\ drawn < maxRows THEN 1 ELSE 0)

(* perCoreView: the cores as bars, in the layouts without graphs.          *)
BarsPerRow(inner) == Clamp(inner \div 21, 2, 6)
CoreBarLines(inner, cores, maxRows) ==
  LET rows == (cores + BarsPerRow(inner) - 1) \div BarsPerRow(inner)
  IN IF cores = 0 \/ maxRows < 1 THEN 0 ELSE IF rows > maxRows THEN maxRows + 1 ELSE rows

(* cpuView: the lines of the CPU panel.  The context line and the sensors  *)
(* are left to the border when every core has its graph.                   *)
CpuLines(inner, maxLines, wide, dens, s) ==
  LET context == IF wide THEN 0
                 ELSE (IF s.cores > 0 \/ s.freq > 0 THEN 1 ELSE 0) + (IF s.sensors >= 2 THEN 1 ELSE 0)
      top == context + (IF inner > 20 THEN 1 ELSE 0) + 3
  IN top + IF wide THEN CoreGridLines(inner, s.cores, maxLines - top)
           ELSE IF dens = 0 THEN CoreBarLines(inner, s.cores, maxLines - top) ELSE 0

(* netView, diskView, gpuLines and procView.                               *)
NetLines(s, maxIface) == 5 + Smaller(s.nets, Larger(0, maxIface))
DiskLines(s, inner, maxRows) ==
  LET meter == IF inner >= 46 /\ s.busy > 0 THEN 1 ELSE 0     \* of the busiest disk
      rows == Larger(0, maxRows - meter)
  IN meter + Smaller(s.mounts, rows) + IF s.mounts > rows THEN 1 ELSE 0
GpuLines(s, maxLines) == IF maxLines < 1 THEN 0 ELSE Smaller(s.gpus, maxLines)
ProcLines(s, maxRows) ==
  IF maxRows < 1 \/ s.procs = 0 THEN 0 ELSE 1 + Smaller(s.procs, maxRows - 1)

(* hostView: a line per fact, whatever the room: name, system, kernel,     *)
(* load and processes, the extras, the hottest sensor and the others.      *)
(* Only the load graph looks at the budget.                                *)
HostFacts(s) == 5 + s.extras + Smaller(s.sensors, 2)
HostLines_GraphAnyway(s, maxRows) ==
  HostFacts(s) + (IF maxRows - HostFacts(s) >= 1 THEN 2 ELSE 0)
HostLines(s, maxRows) ==
  HostFacts(s) + (IF maxRows - HostFacts(s) >= 2 THEN 2 ELSE 0)

(* memView, as the grid calls it: the meters of RAM, swap and zram beside  *)
(* digits of five lines, then the graphs.  It is given no budget.          *)
MemMeters(s) == 3 + s.swap + 2 * s.zram
MemGraphs(s, dens) == IF dens = 0 THEN 2 + s.swap ELSE 0
MemLines(s, dens) == Larger(5, MemMeters(s)) + MemGraphs(s, dens)

(* The lines that each panel's view renders, with the budget that          *)
(* gridPanels hands it.                                                    *)
GridLines(p, w, dens, s) ==
  CASE p.name = "cpu" -> CpuLines(w - HostCol - 2, p.H - 2, dens = 0, dens, s)
    [] p.name = "net" -> NetLines(s, p.H - 7)
    [] p.name = "disk" -> DiskLines(s, p.W - 2, Larger(2, p.H - 2))
    [] p.name = "gpu" -> GpuLines(s, p.H - 2)
    [] p.name = "proc" -> ProcLines(s, Larger(2, p.H - 3))
    [] p.name = "mem" -> MemLines(s, dens)
    [] OTHER -> HostLines(s, p.H - 2)

-----------------------------------------------------------------------------
(* The tab.                                                                *)

Cores == sample.cores
Gpus == sample.gpus

(* Everything buildView reads.                                             *)
Inputs ==
  [built |-> TRUE, size |-> size, density |-> density, look |-> look,
   sample |-> sample, graphW |-> graphW, coreW |-> coreW]

DashInit ==
  /\ size = <<0, 0>>
  /\ density \in 0 .. 2 /\ look \in Looks
  /\ sample = NoSample
  /\ graphW = [cpu |-> 60, mem |-> 34, net |-> NetCol - 2]
  /\ coreW = [i \in {} |-> 0]
  /\ frame = NoFrame

(* SetSize: nothing is resized while the terminal has no room at all.      *)
SetSize_KeepsCores(s) ==
  /\ size' = s /\ frame' = NoFrame
  /\ IF s[1] < 1 \/ s[2] < 1 THEN UNCHANGED <<graphW, coreW>>
     ELSE graphW' = GraphWidths(s[1], s[2], density) /\ UNCHANGED coreW
  /\ UNCHANGED <<density, look, sample>>
SetSize(s) ==
  /\ size' = s /\ frame' = NoFrame
  /\ IF s[1] < 1 \/ s[2] < 1 THEN UNCHANGED <<graphW, coreW>>
     ELSE /\ graphW' = GraphWidths(s[1], s[2], density)
          /\ coreW' = [i \in DOMAIN coreW |-> CoreGraphW(s[1] - HostCol - 2)]
  /\ UNCHANGED <<density, look, sample>>

(* SetTheme, after a theme key or a reload swapped the configuration.      *)
SetTheme(l) ==
  /\ look' = l /\ frame' = NoFrame
  /\ UNCHANGED <<size, density, sample, graphW, coreW>>

(* recordCores: a graph for every core, the ones that vanished dropped.    *)
RecordCores_Keeps(cores) ==
  [i \in DOMAIN coreW \cup (0 .. cores - 1) |->
     IF i \in DOMAIN coreW THEN coreW[i] ELSE CoreGraphW(Width - HostCol - 2)]
RecordCores(cores) ==
  [i \in 0 .. cores - 1 |->
     IF i \in DOMAIN coreW THEN coreW[i] ELSE CoreGraphW(Width - HostCol - 2)]

DashSnapshot(s) ==
  /\ sample' = s /\ frame' = NoFrame
  /\ coreW' = RecordCores(s.cores)
  /\ UNCHANGED <<size, density, look, graphW>>

(* p: the next density.                                                    *)
CycleDensity_KeepsFrame ==
  /\ density' = (density + 1) % 3
  /\ UNCHANGED <<size, look, sample, graphW, coreW, frame>>
CycleDensity ==
  /\ density' = (density + 1) % 3 /\ frame' = NoFrame
  /\ UNCHANGED <<size, look, sample, graphW, coreW>>

(* View: the frame is built once and kept.                                 *)
DashView ==
  /\ Width >= 1 /\ sample # NoSample
  /\ frame' = IF frame = NoFrame THEN Inputs ELSE frame
  /\ UNCHANGED <<size, density, look, sample, graphW, coreW>>

DashNext ==
  \/ \E s \in Sizes : SetSize(s)
  \/ \E l \in Looks : SetTheme(l)
  \/ \E s \in Shapes : DashSnapshot(s)
  \/ CycleDensity
  \/ DashView

DashSpec == DashInit /\ [][DashNext]_dashVars
-----------------------------------------------------------------------------
Sized == Width >= 1 /\ Height >= 1
Grid == Class(Width, Height) = "grid"

(* Every variable in its domain; a graph exists for exactly the cores of   *)
(* the last sample (recordCores), and the rings have room for a column.    *)
DashTypeOK ==
  /\ size \in Sizes \cup {<<0, 0>>} /\ density \in 0 .. 2 /\ look \in Looks
  /\ sample \in Shapes \cup {NoSample}
  /\ \A g \in {"cpu", "mem", "net"} : graphW[g] >= 12
  /\ DOMAIN coreW = 0 .. Cores - 1
  /\ \A i \in DOMAIN coreW : coreW[i] \in 8 .. 24
  /\ frame = NoFrame \/ frame.built

InsideRows(p) == p.Y + 1 .. p.Y + p.H - 2
InsideCols(p) == p.X + 1 .. p.X + p.W - 2

(* gridPanels: whatever the size, the density and the adapters, the panels *)
(* tile the frame.  Each lies inside the terminal and has room for a line; *)
(* no two overlap inside; and two panels side by side, or one above the    *)
(* other, share exactly one border column or row, so that no divider is    *)
(* drawn twice (comment dashboard.go:278-281).                             *)
PanelsTile ==
  Grid =>
    LET P == GridPanels(Width, Height, density, Gpus) IN
    /\ \A p \in P :
         /\ p.X >= 0 /\ p.Y >= 0 /\ p.W >= 3 /\ p.H >= 3
         /\ p.X + p.W <= Width /\ p.Y + p.H <= Height
    /\ \A p \in P : \A q \in P \ {p} :
         /\ InsideRows(p) \cap InsideRows(q) = {} \/ InsideCols(p) \cap InsideCols(q) = {}
         /\ p.X + p.W = q.X => InsideRows(p) \cap InsideRows(q) = {}
         /\ p.Y + p.H = q.Y => InsideCols(p) \cap InsideCols(q) = {}
    /\ density # 2 =>
         /\ \E p \in P : p.X + p.W = Width /\ p.Y + p.H = Height
         /\ \A p \in P : p.X > 0 => \E q \in P : q.X + q.W - 1 = p.X /\ q.Y = p.Y
         /\ \A p \in P : p.Y > 0 => \E q \in P : q.Y + q.H - 1 = p.Y

(* Frame clips the lines a panel has no room for.  What that can cost, for *)
(* every panel of the grid (gridPanels and the views it calls):            *)
(*   NETWORK, GPUS and PROCESSES lose nothing;                             *)
(*   CPU and DISKS lose at most the note that counts what is not shown;    *)
(*   HOST has no budget for its facts and loses the last ones, at most     *)
(*     four, but never half of its load graph: that is only drawn when     *)
(*     every fact and the whole graph have room (comment panels.go:72);    *)
(*   MEMORY has no budget at all; the graphs go first (comment             *)
(*     panels.go:354), and of the meters only the last line, zram's bar    *)
(*     under a swap meter, in a panel of five lines.                       *)
ClippingBounded ==
  Grid =>
    \A p \in GridPanels(Width, Height, density, Gpus) :
      LET rows == p.H - 2
          over == GridLines(p, Width, density, sample) - rows
      IN /\ p.name \in {"net", "gpu", "proc"} => over <= 0
         /\ p.name = "cpu" =>
              /\ over <= 1
              /\ over = 1 => density = 0 /\ CoresShown(Width, Height, Cores) < Cores
         /\ p.name = "disk" =>
              /\ over <= 1
              /\ over = 1 => sample.mounts + sample.busy > rows
         /\ p.name = "host" =>
              /\ over <= 4
              /\ over > 0 => over = HostFacts(sample) - rows
         /\ p.name = "mem" =>
              \/ over <= MemGraphs(sample, density)
              \/ /\ rows = 5 /\ sample.swap = 1 /\ sample.zram = 1
                 /\ over = MemGraphs(sample, density) + 1

(* View: the frame on the screen is the one buildView would build now; a   *)
(* handler that changed something it shows has thrown it away.             *)
FrameIsCurrent == frame = NoFrame \/ frame = Inputs

(* The graphs are as wide as the last SetSize made them, the panels as     *)
(* wide as the current size and density make them: a graph never spills    *)
(* over its panel, from the 36 columns on that the host box needs, and     *)
(* every core that has a cell has a graph of that cell's width.            *)
GraphsFit ==
  (Sized /\ Width >= 36) =>
    LET room == Room(Width, Height) IN
    /\ \A g \in {"cpu", "mem", "net"} : graphW[g] <= room[g]
    /\ (Grid /\ density = 0) =>
         \A i \in 0 .. CoresShown(Width, Height, Cores) - 1 :
           i \in DOMAIN coreW /\ coreW[i] = CoreGraphW(Width - HostCol - 2)

(* What clipping may cost each panel of the grid, and that it never costs  *)
(* any panel the edge of a graph.                                          *)
PanelContents == ClippingBounded /\ GraphsFit
=============================================================================
