SPECIFICATION MCSpec
CONSTANTS
  IPv4 = {a4}
  IPv6 = {a6}
  DialTags = {l1}
  FirstLines = {l1}
  None = None
  Callers = {c1, c2}
  Tags = {l1, l2}
  MaxCalls = 3
  MaxRounds = 3
  NoStats = NoStats
  Writers = {w1, w2}
  Unlocked = Unlocked
  MaxWrite = 3
  MaxRead = 2
  \* gRPC: frames of up to two bytes, the socket holds one
  MaxData = 2
  GrpcBytes = 3
  WireCap = 1
  \* Shadowsocks: lengths count up to LenMod - 1, which a Write can exceed, sealed or not
  Sizes = {1, 2, 4}
  Overhead = 1
  LenMod = 4
  SealedBytes = 5
  SocketBytes = 4
  MaxEmpty = 1
  MaxSegment = 2
  MSS = 2
  KcpBytes = 2
  q1 = q1
  q2 = q2
  s1 = s1
  s2 = s2
  s3 = s3
  Conns = {q1, q2}
  StreamsOf <- TwoAndOne
  QueueSize = 1
  AllBuffers = {b1, b2}
  Cap = 2
  MaxArrays = 2
  BufferBytes = 2
CHECK_DEADLOCK FALSE
INVARIANTS ConnOrError DeadAfterThree LinesDialled NoneForgotten ContentKept
PROPERTIES IsByteStream DialReturns ClosesReturn
