SPECIFICATION Spec
CONSTANTS
  MaxConns = 2
  MaxProducts = 1
  Retry = 1
  HardLimit = 1
  Faults = {"socket"}
  MaxIps = 2
  MaxClients = 2
  Messages = {"served"}
INVARIANTS NotFreedInUse WritesOwnConnection OneElementEach
PROPERTIES LostOnlyByRestore DeadClientsRemoved QuitCompletes
