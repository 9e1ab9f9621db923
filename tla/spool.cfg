SPECIFICATION Spec
CONSTANTS
  Arrivals <- PlainArrivals
  Content <- PlainContent
  SlotsSet = {1, 2}
  Queues <- MCFilterOnly
  HardLimit = 1
  RtxEnabled = FALSE
  DefaultProcess = FALSE
  DbMayFail = FALSE
  DeleteOutcomes = {TRUE, FALSE}
  SaveOutcomes = {"saved", "partial"}
  MayCrash = TRUE
  MaxStops = 2
INVARIANTS TypeOK SpoolBounded RecentFilesKept
