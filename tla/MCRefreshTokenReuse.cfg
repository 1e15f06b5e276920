SPECIFICATION Spec
CONSTANTS
  Browsers = {b1}
  NumTabs = 2
  NumFlights = 2
  MaxTokens = 3
  MaxLosses = 0
  MaxLogouts = 0
PROPERTY ReuseRevokesAll
CHECK_DEADLOCK FALSE
