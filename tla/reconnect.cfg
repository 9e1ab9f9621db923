SPECIFICATION Spec
CONSTANTS
  MaxConns = 2
  MaxProducts = 2
  Retry = 2
  HardLimit = 1
  Faults = {"memory", "queue", "db", "file", "socket"}
  MaxIps = 1
  MaxClients = 1
  Messages = {"served", "unserved"}
INVARIANTS TypeOK NothingLost
PROPERTIES StreamIntact
