SPECIFICATION MCSpec
CONSTANTS
  MaxRetries = 2
  MaxPackets = 2
  RTTs = {40, 80}
  MaxWindow = 30
  MaxSent = 2
  MaxAcked = 4
  MaxLost = 8
  Rates = {0, 1, 2}
  BDPs = {5, 1000}
  FilterLen = 2
  Wrap = 256
  MaxBBRLost = 1
  Streams = {1, 2}
  MaxFrames = 2
  MaxCalls = 2
  AcceptCap = 1
CHECK_DEADLOCK FALSE
INVARIANTS OpenAfterExchange NeverStalled RTOFits NoLostWakeup
PROPERTIES HandshakeReturns XHTTPCloseReturns
