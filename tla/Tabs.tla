-------------------------------- MODULE Tabs --------------------------------
(***************************************************************************)
(* The tabs with a table side by side: the processes and, in TableTabs,    *)
(* the disks, the network and the connections.  They share nothing, so a   *)
(* step of the composition is a step of one of the two.                    *)
(***************************************************************************)
EXTENDS ProcTable, TableTabs

TabsInit == Init /\ TableInit

TabsNext ==
  \/ Next /\ UNCHANGED tabsVars
  \/ TableNext /\ UNCHANGED vars

TabsSpec == TabsInit /\ [][TabsNext]_<<vars, tabsVars>>

(* Whatever tab is in front shows the latest sample: the processes, and    *)
(* the other tables.                                                       *)
FrontIsFresh == ActiveTableIsFresh /\ FrontTableIsFresh
=============================================================================
