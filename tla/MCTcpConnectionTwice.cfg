SPECIFICATION SafeSpec
CONSTANTS
  Workers = {w1}
  Io = io
  MaxMessages = 2
  Lengths = {2}
  HighWaterMark = 2
  MaxIncoming = 1
  PeerResets = TRUE
  WorkersShutDown = TRUE
  ServerDies = FALSE
CHECK_DEADLOCK FALSE
INVARIANTS
  OneUpOneDown
