CONSTANTS
  c1 = c1
  c2 = c2
  c3 = c3
  p1 = p1
  p2 = p2
  none = none
  Callers = {c1, c2, c3}
  Fetches = {p1, p2}
  NoFetch = none
  Verdicts = {"none", "clean"}
  MaxVersion = 2
SPECIFICATION FairSpec
INVARIANTS TypeOK SharedFetch GetIsRecent
PROPERTIES CacheNeverRegresses GetReturns FetchOutlivesCallers
