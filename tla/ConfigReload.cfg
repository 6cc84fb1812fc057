SPECIFICATION FairSpec
CONSTANTS
  Peers = {p}
  Tasks = {t1, t2}
  Ttls = {1, 2}
  PerBonus = 1
  MaxCount = 6
  MaxAge = 7
  Channel = 1
  MaxKernel = 2
  DefaultTtl = 1
  Partial = Partial
  Absent = Absent
INVARIANTS
  TypeOK
  AppliedTogether
PROPERTIES
  EditsArrive
  RemovedWhenIdle
  IdleSessionsGo
