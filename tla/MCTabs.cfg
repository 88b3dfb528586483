SPECIFICATION MCSpec
CONSTANTS
  Pids = {p1, p2}
  NoPid = NoPid
  NSigs = 2
  Known = {1, 2, 3}
  Names = {n1, n2}
  Widths = {99, 112}
  Samples = 1
  HistNames = 1
  NoTab = "none"
  Containers = {c1, c2}
  FirstContainer = c1
  Polls = {k1, k2}
  FirstPoll = k1
  MaxEpoch = 3
  MaxTraffic = 2
SYMMETRY Symm
INVARIANTS Types FrontIsFresh CmdlineMatches TreeIsForest RowsFitColumns
PROPERTIES SelectionFollowsProcess PromptIsBinding ActsOnShownRow RateOfGoodSamples
