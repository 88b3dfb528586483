------------------------------ MODULE MCScreen ------------------------------
(* Screen for TLC: three tabs, and terminals in which the strip fits in    *)
(* full, compact, only without the chips, and not even alone.              *)
EXTENDS Screen
TabWidths == <<[full |-> 11, icon |-> 1], [full |-> 11, icon |-> 1], [full |-> 7, icon |-> 1]>>
ChipWidths == <<12, 8, 20>>
Terminals == {<<20, 2>>, <<36, 6>>, <<60, 2>>, <<100, 6>>}
=============================================================================
