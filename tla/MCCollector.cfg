SPECIFICATION MCSpec
CONSTANTS
  w1 = w1
  w2 = w2
  Calls <- MCCalls
  SlowEvery = 2
  GpuEvery = 1
  GpuBackOff = 2
  MaxElapsed = 2
  Offset = 10
  Restarting = {"procs", "io"}
  MaxClock = 4
SYMMETRY Symm
CHECK_DEADLOCK FALSE
INVARIANTS Types WindowsDisjoint NoSpuriousSpike
PROPERTIES CachesPaced
