CONSTANTS
  f1 = f1
  f2 = f2
  w = w
  Flushers = {f1, f2}
  Worker = w
  QueueSize = 3
  BatchSize = 2
  MaxEvents = 4
  MaxRefused = 1
  MaxLate = 1
SPECIFICATION Spec
SYMMETRY FlusherSymmetry
INVARIANTS TypeOK OutstandingExact OneFateInOrder NoLostWakeup
PROPERTIES FlushSettles QueuePromise
CHECK_DEADLOCK FALSE
