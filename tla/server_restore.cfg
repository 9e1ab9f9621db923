SPECIFICATION Spec
CONSTANTS
  MaxConns = 2
  MaxProducts = 2
  Retry = 1
  HardLimit = 1
  Faults = {}
  MaxIps = 1
  MaxClients = 1
  Messages = {"served"}
INVARIANTS NoDescriptorLost
