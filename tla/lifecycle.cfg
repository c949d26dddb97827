CONSTANTS
  c1 = c1
  c2 = c2
  k1 = k1
  k2 = k2
  NoOne = NoOne
  Calls = {c1, c2}
  Closers = {k1, k2}
SPECIFICATION Spec
INVARIANTS UseIsSafe NothingOutlivesClose
PROPERTIES CloseReturns
CHECK_DEADLOCK FALSE
