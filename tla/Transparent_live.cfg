SPECIFICATION FairSpec
CONSTANTS
  NoKey = NoKey
  Keys = {k1}
  Countries = {"RU"}
  Conns = {c1, c2}
  Peers = {p1}
  MaxConnections = 1
  MaxRetries = 2
  Events = {"probe", "ban", "locate", "reload"}
  MaxAside = 1
INVARIANTS
  Accounting
PROPERTIES
  ConnectionsEnd
