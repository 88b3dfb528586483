SPECIFICATION MCSpec
CONSTANTS
  cpu = cpu
  mem = mem
  Keys <- MCKeys
  AlertHistory = 3
  MaxSample = 4
  Tabs <- TabWidths
  Filterable = 2
  CapW = 1
  ChipW = 12
  LeftW = 17
  LiveChips <- ChipWidths
  TermSizes <- Terminals
  Contents = {0, 8}
  AlertCounts = {0, 1, 4}
  Columns = {0, 14, 30}
  Pressed = {0, 3, 10, 11, 12}
  MaxTyped = 1
  BuiltIns = 3
  DefaultTheme = 2
  UserNames = {2, 4, 5}
  Letters = {"k", "K", "x", "X", "t", "T", "r", "R"}
  NoKey = "12"
  Lower <- MCLower
  Upper <- MCUpper
  KillDefault = "k"
  Reserved = {"t", "T", "r", "R"}
  GlobalKeys = {"T", "R"}
  TabKeys = {"t"}
  Warns = {0, 50, 95, 1000}
  Crits = {0, 40, 99}
  WarnDefault = 70
  CritDefault = 90
  Huge = 1000
  MaxEdits = 2
  Sizes <- MCSizes
  Shapes <- MCShapes
  Looks = {1, 2}
  Samples = {1, 2}
  Widths = {1, 2, 3}
  Unset = 0
INVARIANTS Types ChainsStayOne RemoteViewSound ClickHitsShownTab ScreenFits SettingsApplied ThemeCycleReachesAll PanelsTile PanelContents FrameIsCurrent
PROPERTIES HistorySound LossIsReported RingIsWindow
