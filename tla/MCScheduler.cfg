SPECIFICATION LiveSpec
CONSTANTS
  DayLength = 2
  NumMonths = 7
  MonthStart <- MCMonthStart
  MonthOf <- MCMonthOf
  Recurrences <- MCRecurrences
  Tasks = {t1}
  NumChecks = 1
  NumRuns = 2
  Window = 0
  MaxDay = 1
  MaxEdits = 1
  MaxFaults = 1
INVARIANTS TypeOK NextIsFirst CountsAgree
PROPERTIES OccurrenceOnce DueIsDispatched
CHECK_DEADLOCK FALSE
