SPECIFICATION EventsFairSpec
CONSTANTS
  c1 = c1
  ch1 = ch1
  o1 = o1
  o2 = o2
  Task = {t1, "chat_events", "operator_events", "chat_assignments", "admin_actions"}
  Caller = {t1}
  Client = {c1}
  Chat = {ch1}
  Operator = {o2}
  Priority = {0}
  OperatorType = {"support", "lawyer"}
  ClientOf <- MCClientOf
  MaxChats <- MCMaxChats
  Role <- MCLawyers
  OwnOperator <- MCNobody
  Lock = {"queue", "assignment", "chat", "admin", "events"}
  DbOutcome = {"ok", "error"}
  MaxLost = 1
  KafkaEnabled = TRUE
  MaxCalls = 4
  Entries = {"openChat", "goOnline", "goOffline", "accept", "operatorClose", "adminTransfer", "operatorLawyer", "adminLawyer"}
  NoTask = NoTask
  NotWaiting = NotWaiting
  NoOperator = NoOperator
  Unregistered = Unregistered
INVARIANTS
  EventsTypeOK
  AnnouncedIsStored
  
  LawyersStored

  
\* The callers need not call.
CHECK_DEADLOCK FALSE
