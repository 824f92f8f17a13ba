SPECIFICATION SocketsSpec
CONSTANTS
  Conn = {c1, c2}
  Notifier = {n1}
  Task = {c1, c2, n1}
  Lock = {"sockets"}
  NoTask = NoTask
  User = {ann, bob}
  Chat = {ch1, ch2}
  Message = {m1}
  Clients = {ann}
  Reply = Reply
  NoConn = NoConn
  NoChat = NoChat
  NoUser = NoUser
INVARIANTS
  SocketsTypeOK
  
  NoConnectionLeftBehind
  AloneStaysConnected
  BroadcastDelivered
  
  LockNotReentered
\* Nobody has to connect, to say anything or to leave.
CHECK_DEADLOCK FALSE
