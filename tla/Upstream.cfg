SPECIFICATION Spec
CONSTANTS
  MaxResponse = 8
  MaxData = 2
  DomainLens = {0, 255}
INVARIANTS
  TypeOK
  OkMeansGranted
  TunnelAligned
PROPERTIES
  HandshakeEnds
CHECK_DEADLOCK FALSE
