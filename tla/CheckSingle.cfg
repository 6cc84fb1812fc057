SPECIFICATION Spec
CONSTANTS
  MaxUnread = 3
  NameLen = 3
INVARIANTS
  TypeOK
  VerdictEarned
  NoFalseBlame
PROPERTIES
  CheckEnds
