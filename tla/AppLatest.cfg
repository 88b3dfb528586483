SPECIFICATION Spec
CONSTANTS
  Keys = {cpu, mem}
  AlertHistory = 3
  MaxSample = 4
PROPERTIES LatestIsNewest
