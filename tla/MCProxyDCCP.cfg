SPECIFICATION MCSpec
CONSTANTS
  Configs <- DefaultConfigs
  MaxInbounds = 2
  Conns = {k1, k2, k3}
  Ports = {1, 2}
  MaxConns = 1
  Free = Free
  Other = Other
  Nowhere = Nowhere
CHECK_DEADLOCK FALSE
INVARIANT KeepsRunning
