SPECIFICATION Spec
CONSTANTS
  Pids = {p1, p2}
  NoPid = NoPid
  NSigs = 3
PROPERTIES ReadOnlySendsNothing
