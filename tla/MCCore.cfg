SPECIFICATION MCSpec
CONSTANTS
  c1 = c1
  c2 = c2
  t1 = t1
  t2 = t2
  t3 = t3
  t4 = t4
  Callers = {c1, c2}
  Tasks = {t1, t2, t3, t4}
  Batch <- MCBatch
  MaxConcurrency = 2
  Flushers = {f1, f2}
  Priorities = {0, 1, 2}
  Unscheduled = Unscheduled
  PoolWorkers = {w1, w2, w3}
  NoTask = NoTask
  NoRouting = NoRouting
  ScheduledTasks = {t1, t2, t3}
  CoreTasks = {t1, t2}
  CallingTasks = {t1}
  Configs <- AllConfigs
  FirstConfig <- Routed
  ProbesLines = TRUE
  Ports = {1, 2}
  MaxStarts = 2
  Names = {n1, n2}
  MaxKeys = 2
  MaxAge = 2
  AutoRenew = TRUE
  HasOutputDir = TRUE
  NoName = NoName
  Unlocked = Unlocked
CHECK_DEADLOCK FALSE
INVARIANTS Bounded BatchComplete NoneLostOrDoubled RunningServes NoOldManager NamesMatch
PROPERTIES CallsReturn ShutdownReturns StopReturns
