--------------------------- MODULE HistoryWindow ----------------------------
(***************************************************************************)
(* What a graph of the dashboard promises: it is a window on the latest    *)
(* samples, two per cell of its width.  Narrowing it forgets the oldest    *)
(* ones; widening it brings none of them back.                             *)
(***************************************************************************)
EXTENDS Naturals, Sequences

CONSTANTS Samples, Widths
VARIABLES window, cells

Newest(s, n) == IF Len(s) <= n THEN s ELSE SubSeq(s, Len(s) - n + 1, Len(s))

WindowInit == window = << >> /\ cells \in Widths

WindowPush ==
  /\ \E v \in Samples : window' = Newest(Append(window, v), 2 * cells)
  /\ UNCHANGED cells

WindowResize ==
  /\ cells' \in Widths
  /\ window' = Newest(window, 2 * cells')

WindowNext == WindowPush \/ WindowResize
WindowSpec == WindowInit /\ [][WindowNext]_<<window, cells>>
=============================================================================
