SPECIFICATION SafeSpec
CONSTANTS
  MaxTimers = 1
  MaxTime = 3
  Delays = {1}
  Intervals = {0, 1}
CHECK_DEADLOCK FALSE
INVARIANTS
  CancelledNotRequeued
