SPECIFICATION MCSpec
CONSTANTS
  IDs = {1, 2}
  MaxStreams = 1
  BufCap = 2
  AcceptCap = 1
  MaxWrites = 0
  MaxFrames = 3
  PeerIDs = {1, 2}
CHECK_DEADLOCK FALSE
INVARIANTS NoLostWakeup StreamInOrder NoStreamOutlivesClose
