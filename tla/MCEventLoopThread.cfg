SPECIFICATION ThreadSpec
CONSTANTS
  Threads = {owner, client}
  Functors = {f1, f2, f3}
  LoopThread = worker
  Owner = owner
  EarlyCalls = FALSE
  ClientsQuit = TRUE
INVARIANTS
  ThreadTypeOK
  DestructorFindsLoop
  NoThreadLeftBehind
  NoLostWakeup
  QuitWakesLoop
PROPERTIES
  StartLoopReturns
  DestroyRunningLoop
  ImplementsTaskQueue
