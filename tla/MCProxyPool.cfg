SPECIFICATION Spec
CONSTANTS
  k1 = k1
  k2 = k2
  k3 = k3
  OpenAt = 1
  LongerAt = 1
  LongestAt = 1
  FailAt = 2
  MaxFails = 2
  CoolShort = 1
  CoolLong = 1
  CoolLongest = 1
  Keys <- OneKey
  Position <- InOrder
  MaxProxies = 1
  Limit = 1
  Answers <- OkOrDead
  CountryOf <- Nowhere
  Countries = {}
  Handlers = {h1}
  Clocks = {"hour", "day"}
INVARIANTS
  PoolConsistent
PROPERTIES
  ImplementsContract
  ImplementsView
  NeverLost
