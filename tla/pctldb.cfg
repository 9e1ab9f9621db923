SPECIFICATION Spec
CONSTANTS
  Products = {0, 1, 2, 3}
  Size <- MCSize
  HardLimits = {2}
  MfHardLimit = 2
  DbMayFail = TRUE
  Times <- MCTimes
  ClockMayStepBack = FALSE
  MaxSec = 2
  MaxNsec = 1
INVARIANTS TypeOK OwnMemfile CountersCover HardLimitHolds
PROPERTIES ImplementsQueue EventuallyReceived
