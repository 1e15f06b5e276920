SPECIFICATION LiveSpec
CONSTANTS
  NumMessages = 1
  MaxEvents = 2
  MaxFaults = 1
  MaxCrashes = 1
INVARIANTS
  TurnStream
  TextOnlyWhenClosed
PROPERTIES
  TextKept
  RevocationStopsLoop
  NoticedCancelEnds
