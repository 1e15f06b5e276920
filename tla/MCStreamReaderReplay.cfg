SPECIFICATION Spec
CONSTANTS
  NumTurns = 1
  MaxIds = 3
  BatchSize = 2
  MaxFaults = 0
INVARIANT ReplayFetchesMissed
CHECK_DEADLOCK FALSE
