SPECIFICATION LiveSpec
CONSTANTS
  NumTurns = 2
  MaxIds = 4
  BatchSize = 2
  MaxFaults = 1
INVARIANTS TypeOK Ordered PrefixShown
PROPERTIES TerminalEndsReader StopEndsReader
CHECK_DEADLOCK FALSE
