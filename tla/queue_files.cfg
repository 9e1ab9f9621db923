SPECIFICATION Spec
CONSTANTS
  Arrivals <- PlainArrivals
  Content <- PlainContent
  SlotsSet = {2}
  Queues <- MCQueues
  HardLimit = 1
  RtxEnabled = FALSE
  DefaultProcess = FALSE
  DbMayFail = FALSE
  DeleteOutcomes = {TRUE}
  SaveOutcomes = {"saved", "failed"}
  MayCrash = FALSE
  MaxStops = 1
INVARIANTS QueuedFilesExist
