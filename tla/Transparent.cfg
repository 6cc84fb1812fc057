SPECIFICATION Spec
CONSTANTS
  NoKey = NoKey
  Keys = {k1, k2}
  Countries = {}
  Conns = {c1, c2}
  Peers = {p1}
  MaxConnections = 2
  MaxRetries = 3
  Events = {"expire", "gain", "forget"}
  MaxAside = 0
SYMMETRY Alike
INVARIANTS
  TypeOK
  BackupDiffers
