SPECIFICATION Spec
CONSTANTS
  MaxTimers = 2
  MaxTime = 2
  Delays = {0, 2}
  Intervals = {0, 1}
CHECK_DEADLOCK FALSE
INVARIANTS
  TypeOK
  NoMissedTimer
  OnePlacePerNode
PROPERTIES
  DueTimersLeave
  ImplementsTimerService
