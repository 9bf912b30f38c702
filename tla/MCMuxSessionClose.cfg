SPECIFICATION MCSpec
CONSTANTS
  IDs = {1, 2}
  MaxStreams = 1
  BufCap = 1
  AcceptCap = 1
  MaxWrites = 1
  MaxFrames = 1
  PeerIDs = {1, 2}
CHECK_DEADLOCK FALSE
PROPERTY CloseEndsWaits
