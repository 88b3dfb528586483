SPECIFICATION MCSpec
CONSTANTS
  w1 = w1
  w2 = w2
  Calls <- MCCalls
  SlowEvery = 2
  GpuEvery = 1
  GpuBackOff = 2
  MaxElapsed = 3
  Offset = 10
  Restarting = {}
  MaxClock = 4
CHECK_DEADLOCK FALSE
INVARIANT RateCoversInterval
