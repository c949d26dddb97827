CONSTANTS
  g1 = g1
  g2 = g2
  routeA = routeA
  routeB = routeB
  a1 = a1
  u1 = u1
  noprint = noprint
  fresh = fresh
  Calls = {g1, g2}
  Clients = {routeA, routeB}
  Declared <- Routes
  Addresses = {a1}
  Users = {u1, noprint}
  NoPrint = noprint
  Details = {}
  Fresh = fresh
  Options = {}
  Closing = {routeB}
  Ttls = {2}
  LocalLife = 1
  MaxClock = 1
SPECIFICATION Spec
SYMMETRY ProtectSymmetry
INVARIANTS TypeOK CacheIsBacked DenialIsDue HitHasLifetime
PROPERTIES DenialsOutliveLookups
