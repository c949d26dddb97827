CONSTANTS
  f1 = f1
  f2 = f2
  w = w
  Flushers = {f1, f2}
  Worker = w
  QueueSize = 3
  BatchSize = 2
  MaxEvents = 3
  MaxRefused = 0
  MaxLate = 0
SPECIFICATION Spec
INVARIANT SizeTriggersSend
CHECK_DEADLOCK FALSE
