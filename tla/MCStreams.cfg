SPECIFICATION MCSpec
CONSTANTS
  ChanCap = 2
  LogLines = 2
  MaxOpen = 2
  MaxLine = 4
  MaxWire = 2
  MaxSent = 3
INVARIANTS Types PaneShowsItsStream NothingLost PaneStaysArmed
PROPERTIES ClosedPaneEnds DialLeavesNothing DialEnds
CHECK_DEADLOCK FALSE
