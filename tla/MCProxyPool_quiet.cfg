SPECIFICATION QuietSpec
CONSTANTS
  k1 = k1
  k2 = k2
  k3 = k3
  OpenAt = 2
  LongerAt = 2
  LongestAt = 2
  FailAt = 3
  MaxFails = 3
  CoolShort = 1
  CoolLong = 1
  CoolLongest = 1
  Keys <- ThreeKeys
  Position <- InOrder
  MaxProxies = 2
  Limit = 1
  Answers <- MixedAnswers
  CountryOf <- OneInRU
  Countries = {"RU"}
  Handlers = {}
  Clocks = {"minute"}
INVARIANTS
  TypeOK
  WithinLimit
PROPERTIES
  NewAreProbed
