SPECIFICATION Spec
CONSTANTS
  NumRequests = 2
  Devices = {d1}
  MaxFaults = 1
  MaxReloads = 1
INVARIANTS TypeOK OnlyApprovedRuns EndedRequestIsGone
CHECK_DEADLOCK FALSE
