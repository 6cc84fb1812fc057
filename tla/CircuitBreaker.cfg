SPECIFICATION BreakerFairSpec
CONSTANTS
  OpenAt = 5
  LongerAt = 10
  LongestAt = 20
  FailAt = 50
  CoolShort = 1
  CoolLong = 3
  CoolLongest = 6
  Countries = {}
  MaxFails = 51
INVARIANTS
  BreakerTypeOK
  BreakerInv
PROPERTIES
  CooldownNeverShortened
  FailedIsRetested
