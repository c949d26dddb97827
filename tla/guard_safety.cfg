CONSTANTS
  c1 = c1
  c2 = c2
  p1 = p1
  p2 = p2
  none = none
  Callers = {c1, c2}
  Fetches = {p1, p2}
  NoFetch = none
  Verdicts = {"none", "clean", "dry", "live"}
  MaxVersion = 2
  Answers = {"ALLOW", "DENY"}
SPECIFICATION Spec
SYMMETRY GuardSymmetry
INVARIANTS TypeOK SanitizedAfterDetection RetryIsCoherent
PROPERTIES LocalDenialStands
