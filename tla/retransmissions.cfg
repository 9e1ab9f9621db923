SPECIFICATION Spec
CONSTANTS
  Arrivals <- ChainArrivals
  Content <- ChainContent
  SlotsSet = {0}
  Queues <- MCFilterOnly
  HardLimit = 1
  RtxEnabled = TRUE
  DefaultProcess = FALSE
  DbMayFail = TRUE
  DeleteOutcomes = {TRUE}
  SaveOutcomes = {"saved", "failed"}
  MayCrash = TRUE
  MaxStops = 1
INVARIANTS IgnoredOnlyIfSpooled
PROPERTIES NotSpooledTwice
