SPECIFICATION Spec
CONSTANTS
  NumMessages = 1
  MaxEvents = 1
  MaxFaults = 0
  MaxCrashes = 0
INVARIANTS
  GracefulCancellation
