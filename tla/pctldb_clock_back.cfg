SPECIFICATION Spec
CONSTANTS
  Products = {0, 1, 2}
  Size <- MCSize
  HardLimits = {3}
  MfHardLimit = 0
  DbMayFail = FALSE
  Times <- MCTimes
  ClockMayStepBack = TRUE
  MaxSec = 2
  MaxNsec = 1
INVARIANT OwnMemfile
