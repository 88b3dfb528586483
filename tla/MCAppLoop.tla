----------------------------- MODULE MCAppLoop ------------------------------
(***************************************************************************)
(* The root model and the dashboard for TLC.  The event loop, the screen,  *)
(* the settings, the dashboard's layout and a history graph share no       *)
(* state that one of their properties depends on, so a behaviour exercises *)
(* one of them while the others stay as they start.                        *)
(***************************************************************************)
EXTENDS AppLoop, MCScreen, Settings, Dashboard, HistoryRing

CONSTANTS cpu, mem
VARIABLE part

loopVars == vars

MCKeys == {cpu, mem}

(* Letters in both cases.                                                  *)
MCLower == [l \in Letters |-> CASE l = "K" -> "k" [] l = "X" -> "x" [] l = "T" -> "t" [] l = "R" -> "r" [] OTHER -> l]
MCUpper == [l \in Letters |-> CASE l = "k" -> "K" [] l = "x" -> "X" [] l = "t" -> "T" [] l = "r" -> "R" [] OTHER -> l]

(* Sizes on either side of each threshold of the layout, and samples that  *)
(* underfill, fill and overfill its panels: 6, 8 and 11 facts about the    *)
(* host meet 7 and 10 rows, and 3 to 6 meters of memory meet 5 and 8.      *)
MCSizes == {<<w, h>> : w \in {0, 60, 80, 112, 140}, h \in {20, 24, 40}}
MCShape(c, g, n, x, z) ==
  [cores |-> c, gpus |-> g, nets |-> n, mounts |-> n, sensors |-> g,
   busy |-> IF n > 1 THEN 1 ELSE 0, procs |-> 1 + 10 * n,
   freq |-> IF c > 2 THEN 1 ELSE 0, swap |-> IF n > 0 THEN 1 ELSE 0, zram |-> z, extras |-> x]
MCShapes == {MCShape(2, 0, 0, 1, 0), MCShape(16, 6, 20, 4, 1), MCShape(8, 1, 3, 2, 0)}

MCInit ==
  /\ Init /\ ScreenInit /\ SettingsInit /\ DashInit /\ RingInit
  /\ part \in {"loop", "screen", "settings", "dashboard", "graph"}
  /\ part # "loop" => ~stream /\ ~dockerOn /\ ~readOnly
  /\ part # "settings" => dir = [n \in {} |-> 1]
  /\ part # "dashboard" => density = 0 /\ look = 1
  /\ part # "graph" => graph.width = 1

MCNext ==
  /\ UNCHANGED part
  /\ \/ /\ part = "loop" /\ Next
        /\ UNCHANGED <<screenVars, settingsVars, dashVars, graph>>
     \/ /\ part = "screen" /\ ScreenNext
        /\ UNCHANGED <<loopVars, settingsVars, dashVars, graph>>
     \/ /\ part = "settings" /\ SettingsNext
        /\ UNCHANGED <<loopVars, screenVars, dashVars, graph>>
     \/ /\ part = "dashboard" /\ DashNext
        /\ UNCHANGED <<loopVars, screenVars, settingsVars, graph>>
     \/ /\ part = "graph" /\ RingNext
        /\ UNCHANGED <<loopVars, screenVars, settingsVars, dashVars>>

MCSpec ==
  /\ MCInit /\ [][MCNext]_<<part, loopVars, screenVars, settingsVars, dashVars, graph>>
  /\ Fairness

(* The type invariants.                                                    *)
Types == TypeOK /\ ScreenTypeOK /\ SettingsTypeOK /\ DashTypeOK /\ RingTypeOK
=============================================================================
