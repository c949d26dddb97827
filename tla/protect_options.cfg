CONSTANTS
  g1 = g1
  routeA = routeA
  routeB = routeB
  a1 = a1
  u1 = u1
  noprint = noprint
  fresh = fresh
  d1 = d1
  requested = requested
  Calls = {g1}
  Clients = {routeA, routeB}
  Declared <- Routes
  Addresses = {a1}
  Users = {u1, noprint}
  NoPrint = noprint
  Details = {d1}
  Fresh = fresh
  Options = {requested}
  Closing = {routeB}
  Ttls = {2}
  LocalLife = 1
  MaxClock = 1
SPECIFICATION Spec
INVARIANTS OptionsAreForOneCall
