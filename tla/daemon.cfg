SPECIFICATION MCSpec
CONSTANTS
  SysFilters <- MCSysFilters
  DevNames = {"a"}
  NULL = NULL
  Readers = {"reader"}
  Slaves = {"slave"}
  MaxHups = 2
INVARIANTS TypeOK ListExact HandlesListed NoStalePipes ResourcesOutliveThreads NothingLeft
PROPERTIES HupReloads Stops
