SPECIFICATION Spec
CONSTANTS
  NoKey = NoKey
  Keys = {k1, k2}
  Countries = {"RU"}
  Conns = {c1}
  Peers = {p1}
  MaxConnections = 1
  MaxRetries = 3
  Events = {"probe", "gain"}
  MaxAside = 0
PROPERTIES
  NeverMissesReady
