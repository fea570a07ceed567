SPECIFICATION Spec
CONSTANTS
  MaxFds = 3
  MaxClients = 3
  MaxOthers = 1
  MaxThreads = 2
  ThreadNums = {0, 2}
  ShutdownConns = {2}
CHECK_DEADLOCK FALSE
INVARIANTS
  TypeOK
  RegisteredIsAlive
  EndIsReported
  SpreadEvenly
PROPERTIES
  ClosedConnectionFreed
  ClientsAnswered
  ServerEnds
