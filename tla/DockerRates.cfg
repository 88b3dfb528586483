SPECIFICATION Spec
CONSTANTS
  Containers = {c1}
  Polls = {k1}
  MaxEpoch = 3
  MaxTraffic = 2
PROPERTIES RateIsTraffic
