SPECIFICATION Spec
CONSTANTS
  Browsers = {b1, b2}
  NumTabs = 1
  NumFlights = 2
  MaxTokens = 3
  MaxLosses = 1
  MaxLogouts = 1
INVARIANTS TypeOK OneLivePerSession NoFalseAlarm
PROPERTY SessionEndIsFinal
CHECK_DEADLOCK FALSE
