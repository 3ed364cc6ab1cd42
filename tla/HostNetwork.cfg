CONSTANTS
  s1 = s1
  s2 = s2
  d1 = d1
  d2 = d2
  x = x
  y = y
  g1 = g1
  g2 = g2
  net = net
  Default = Default
  Fails = Fails
  NoRow = NoRow
  None = None
  NoSet = NoSet
  NoRoute = NoRoute
  Domains = {d1, d2}
  Addresses = {x, y}
  Ttls = {0, 2}
  MinInterval = 1
  TtlFloor = 1
  BackoffFactor = 2
  BackoffMax = 3
  Services = {s1, s2}
  ServiceRows <- MCRows
  Nexthops = {g1, g2}
  Subnets = {net, Default}
  InitialAnswers <- MCInitialAnswers
  InitialRows <- MCInitialRows
  Pauses = {1, 2}
  MaxChanges = 2
  MaxFailures = 1
SPECIFICATION Spec
INVARIANTS
  TypeOK
  ServesLastAnswer
PROPERTIES
  SetsAreAtomic
  WithdrawnOnlyByAnswer
  RoutesUninterrupted
  SetsFollowDns
  StaleSetsGo
  RoutesFollow
