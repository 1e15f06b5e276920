SPECIFICATION LiveSpec
CONSTANTS
  NumRequests = 1
  Devices = {d1, d2}
  MaxFaults = 1
  MaxReloads = 1
PROPERTY EveryCallEnds
CHECK_DEADLOCK FALSE
