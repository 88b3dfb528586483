SPECIFICATION Spec
CONSTANTS
  MaxWire = 2
  MaxSent = 3
INVARIANTS LiveStreamStaysOpen
CHECK_DEADLOCK FALSE
