SPECIFICATION ScreenSpec
CONSTANTS
  Tabs <- TabWidths
  Filterable = 2
  CapW = 0
  ChipW = 12
  LeftW = 17
  LiveChips <- ChipWidths
  TermSizes <- Terminals
  Contents = {0, 8}
  AlertCounts = {0, 1, 4}
  Columns = {0, 14, 30}
  Pressed = {0, 3, 10, 11, 12}
  MaxTyped = 1
INVARIANT DigitsReachFilter
