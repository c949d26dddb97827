CONSTANTS
  c1 = c1
  c2 = c2
  p1 = p1
  p2 = p2
  none = none
  Callers = {c1, c2}
  Fetches = {p1, p2}
  NoFetch = none
  Verdicts = {"none", "clean", "live"}
  MaxVersion = 1
  Answers = {"ALLOW"}
SPECIFICATION FairSpec
PROPERTIES GuardReturns
