SPECIFICATION AssignmentSpec
CONSTANTS
  c1 = c1
  c2 = c2
  ch1 = ch1
  ch2 = ch2
  o1 = o1
  o2 = o2
  o3 = o3
  Task = {t1, t2}
  Client = {c1}
  Chat = {ch1}
  Operator = {o1, o2}
  Priority = {0}
  OperatorType = {"support", "lawyer"}
  ClientOf <- MCClientOf
  MaxChats <- MCMaxChats
  Role <- MCLawyers
  OwnOperator <- MCNobody
  Lock = {"queue", "assignment", "chat", "admin"}
  DbOutcome = {"ok"}
  KafkaEnabled = FALSE
  Entries = {"connect", "goOnline", "goOffline", "accept", "operatorTransfer", "operatorLawyer", "adminLawyer"}
  NoTask = NoTask
  NotWaiting = NotWaiting
  NoOperator = NoOperator
  Unregistered = Unregistered
INVARIANTS
  StoredAgrees
SYMMETRY TaskSymmetry
\* The system stops once each task waits for a lock nobody will release.
CHECK_DEADLOCK FALSE
