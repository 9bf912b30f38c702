SPECIFICATION Spec
CONSTANTS
  Tasks = {t1, t2}
  Resizers = {r1}
  Closers = {c1}
  NumWorkers = 3
  QueueSize = 1
  MaxWorkers = 4
  ResizeTargets = {1, 4}
  Workers = {w1, w2, w3, w4}
  NoTask = NoTask
SYMMETRY Symmetry
INVARIANTS AcceptedOnce CountersAgree WorkersCounted WithinLimit
