SPECIFICATION Spec
CONSTANTS
  p = p
  q = q
  t = t
  s = s
  r1 = r1
  r2 = r2
  u1 = u1
  u2 = u2
  u3 = u3
  Procs = {p, q, t, s}
  Regions = {r1, r2}
  Uris = {u1, u2, u3}
  NoUri = NoUri
  NoRegion = NoRegion
  Torn = Torn
  Mixed = Mixed
  Pids = {1, 2, 3}
  NoPid = 0
  Pid <- MCPid
  RegionOf <- MCRegionOf
  Hash <- MCHash
  TooLong = {u3}
  MaxTopics = 2
  MaxEntries = 2
  CountMod = 7
  StaleTimeout = 0
  StartTime = 1
  MaxTime = 2
  Scripts <- AllScripts
  Mortal = {p}
INVARIANTS
  TypeOK
  HandleResolves
  RegisterOnce
  CountAgrees
  DiscoverFindsAll
  DiscoveredRegistered
  DropDelists
CHECK_DEADLOCK FALSE
