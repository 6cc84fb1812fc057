SPECIFICATION FairSpec
CONSTANTS
  Tasks = {t1, t2}
  Clients = {a, b}
  Ports = {p1, p2}
  MaxNet = 2
  Cleaner = Cleaner
  NoPort = NoPort
INVARIANTS
  TypeOK
  SocketStaysOpen
  AnswersToAsker
PROPERTIES
  TasksEnd
  SessionsExpire
