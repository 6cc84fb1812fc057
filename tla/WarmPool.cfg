SPECIFICATION WarmSpec
CONSTANTS
  Keys = {k1, k2, k3}
  Takers = {c1, c2}
  Shards = {{k1, k2}, {k3}}
  Workers = 2
  MaxPerProxy = 2
  MaxProxies = 2
  MaxAge = 1
  Refresh = Refresh
  NoKey = NoKey
  NoTask = NoTask
INVARIANTS
  Bounded
  WaitersTracked
PROPERTIES
  TakeReturns
