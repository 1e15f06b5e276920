SPECIFICATION Spec
CONSTANTS
  NumMessages = 2
  MaxEvents = 1
  MaxFaults = 0
  MaxCrashes = 0
INVARIANTS
  TypeOK
  TurnStream
  VerdictSound
  ClosedWhenDone
  SoloTurnReachable
PROPERTIES
  LifecycleSpec
