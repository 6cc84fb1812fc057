SPECIFICATION FairSpec
CONSTANTS
  MaxVersion = 3
  Long = {1, 3}
INVARIANTS
  TypeOK
  FileComplete
  ShutdownSaved
PROPERTIES
  ShutdownEnds
