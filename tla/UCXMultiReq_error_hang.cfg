\* One read completes with an error status.
CONSTANTS
  SlotsCount = 2
  NumGets = 3
  MaxErrors = 1
  MaxEpollErrors = 0
SPECIFICATION Spec
PROPERTIES
  WaitReturns
CHECK_DEADLOCK FALSE
