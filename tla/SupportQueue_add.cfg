SPECIFICATION FairSpec
CONSTANTS
  c1 = c1
  c2 = c2
  c3 = c3
  ch1 = ch1
  ch2 = ch2
  ch3 = ch3
  o1 = o1
  o2 = o2
  Task = {t1}
  Client = {c1}
  Chat = {ch1}
  Operator = {o1}
  Priority = {0}
  OperatorType = {"support"}
  ClientOf <- MCOneChatEach
  MaxChats <- MCMaxChats
  Lock = {"queue", "assignment"}
  NoTask = NoTask
  NotWaiting = NotWaiting
  NoOperator = NoOperator
  Unregistered = Unregistered
PROPERTIES
  AddClientReturns
\* Once each task waits for a lock that nobody will release, the system stops:
\* that is what the runs on the locks are about.
CHECK_DEADLOCK FALSE
