SPECIFICATION Spec
CONSTANTS
  Ndb = 3
  Maxsize = 3
  Word = 16
  Slots = 1
  k1 = k1
  k2 = k2
  Keys <- MCKeys
  Arrivals <- MCArrivals
  Clients = {c1, c2}
  FilterThread = f
  MaxWork = 5
  MaxTrouble = 1
  Faults = {"put", "truncate", "ENOMEM", "read", "cancel"}
INVARIANTS TypeOK SlotOwned SlotsReturned NoIdleWaiter NewestFirst FitsCache Retained
PROPERTY WaitersServed
CHECK_DEADLOCK FALSE
