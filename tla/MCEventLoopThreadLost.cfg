SPECIFICATION ThreadSpec
CONSTANTS
  Threads = {owner, client}
  Functors = {f1, f2}
  LoopThread = worker
  Owner = owner
  EarlyCalls = FALSE
  ClientsQuit = FALSE
PROPERTIES
  DestructorReturns
