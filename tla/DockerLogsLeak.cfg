SPECIFICATION Spec
CONSTANTS
  ChanCap = 2
  LogLines = 2
  MaxOpen = 2
  MaxLine = 3
PROPERTIES CopierReturns
CHECK_DEADLOCK FALSE
