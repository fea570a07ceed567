SPECIFICATION SafeSpec
CONSTANTS
  Workers = {w1}
  Io = io
  MaxMessages = 3
  Lengths = {1, 2}
  HighWaterMark = 2
  MaxIncoming = 1
  PeerResets = TRUE
  WorkersShutDown = FALSE
  ServerDies = TRUE
CHECK_DEADLOCK FALSE
INVARIANTS
  TypeOK
  NoByteLost
  SenderOrder
  WaitingOutputIsWatched
  OneUpOneDown
  RegisteredIsOwned
PROPERTIES
  ImplementsByteStream
