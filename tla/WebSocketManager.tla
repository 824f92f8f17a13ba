--------------------------- MODULE WebSocketManager ---------------------------
(***************************************************************************)
(* WebSocketManager (utils/websocket_manager.py) and the life of a         *)
(* connection in ws_chat_endpoint (endpoints/chats/chat_kafka.py).         *)
(*                                                                         *)
(* Each connection is served by a task of its own; other tasks notify.     *)
(* The books of the manager go by user, not by connection: a user who      *)
(* connects again is served by two tasks at once, until the old one has    *)
(* noticed that its connection is closed.  The manager's lock protects     *)
(* the books; messages are sent without it.                                *)
(*                                                                         *)
(* get_operator_type answers "support" for everybody, clients included, so *)
(* that is the only role anyone is registered under.  KAFKA_ENABLED is off *)
(* as shipped, and the calls of the queue manager never raise.             *)
(***************************************************************************)
EXTENDS AsyncTasks, Naturals, FiniteSets

CONSTANTS Conn,        \* the connections that are ever opened
          Notifier,    \* the tasks that notify users of events
          User, Chat, Message,
          Clients,     \* the users with is_client set
          Reply,       \* a message for one user, or for the operators
          NoConn, NoChat, NoUser

ASSUME SocketsAssumption ==
  /\ Task = Conn \cup Notifier /\ Conn \cap Notifier = {}
  /\ Lock = {"sockets"}
  /\ Clients \subseteq User
  /\ NoConn \notin Conn /\ NoChat \notin Chat /\ NoUser \notin User /\ Reply \notin Message

VARIABLES user_connections,      \* user -> his connection
          operator_connections,  \* the same, for operators
          role_connections,      \* the users under "support"
          chat_connections,      \* chat -> the users in its room
          user_id, chat_id,      \* the local variables of ws_chat_endpoint
          socket,                \* what has become of a connection
          owner,                 \* stored: whose active chat it is
          inbox,                 \* the messages a connection has delivered
          addressed,             \* history: the connections a broadcast is for
          alone                  \* history: the session met no other of its user

books == <<user_connections, operator_connections, role_connections>>
rooms == <<books, chat_connections>>
session == <<user_id, chat_id, owner, alone>>
world == <<session, socket, inbox, addressed>>
socketVars == <<asyncVars, rooms, world>>

SocketsInit ==
  /\ AsyncInit
  /\ user_connections = [u \in User |-> NoConn]
  /\ operator_connections = [u \in User |-> NoConn]
  /\ role_connections = {}
  /\ chat_connections = [ch \in Chat |-> {}]
  /\ user_id = [c \in Conn |-> NoUser]
  /\ chat_id = [c \in Conn |-> NoChat]
  /\ socket = [c \in Conn |-> "new"]
  /\ owner = [ch \in Chat |-> NoUser]
  /\ inbox = [c \in Conn |-> {}]
  /\ addressed = [m \in Message |-> {NoConn}]
  /\ alone = [c \in Conn |-> TRUE]

Registered(u) == user_connections[u] # NoConn
Runs(t, do) == Scheduled(t) /\ Top(t).do = do

\* The frame on top awaits something; the frames follow once it is there.
Pause(t, frames) ==
  /\ stack' = [stack EXCEPT ![t] = frames \o Tail(@)]
  /\ running' = NoTask
  /\ UNCHANGED holder

\* Session c is thrown out of its "try": after frames only its "finally" is
\* left to run.
Throw(c, frames) ==
  /\ stack' = [stack EXCEPT ![c] = frames \o <<[do |-> "finally"]>>]
  /\ running' = NoTask
  /\ UNCHANGED holder

\* A step of t that only makes the calls frames.
Passes(t, frames) ==
  /\ Continue(t, frames)
  /\ UNCHANGED <<holder, rooms, world>>

SendFrame(u) == [do |-> "send", user |-> u, msg |-> Reply]
BroadcastFrame(ch, except, m) ==
  [do |-> "broadcast", chat |-> ch, except |-> except, msg |-> m]
RoleFrame(except) == [do |-> "role", except |-> except]
RoomFrame(do, u, ch) == [do |-> do, user |-> u, chat |-> ch]
DisconnectFrame(u) == [do |-> "disconnect", user |-> u]

-----------------------------------------------------------------------------
(* The books.                                                              *)

\* connect_user enters its lock and awaits the handshake ...
ConnectUser(c) ==
  /\ Runs(c, "connect")
  /\ Acquire(c, "sockets")
  /\ stack' = [stack EXCEPT ![c] = <<[do |-> "accept"], LeaveFrame("sockets")>> \o Tail(@)]
  /\ running' = NoTask
  /\ UNCHANGED <<rooms, world>>

FaultyAccept(c) ==
  /\ Runs(c, "accept")
  /\ \/ /\ socket' = [socket EXCEPT ![c] = "open"]
        /\ Continue(c, <<[do |-> "register"]>>)
     \/ /\ socket' = [socket EXCEPT ![c] = "closed"]
        /\ Throw(c, <<DisconnectFrame(user_id[c]), LeaveFrame("sockets")>>)
  /\ UNCHANGED <<holder, rooms, session, inbox, addressed>>

\* ... which fails if the peer is gone already ...
Accept(c) ==
  /\ Runs(c, "accept")
  /\ \/ /\ socket' = [socket EXCEPT ![c] = "open"]
        /\ Continue(c, IF Registered(user_id[c])
                       THEN <<[do |-> "closePrevious"], [do |-> "register"]>>
                       ELSE <<[do |-> "register"]>>)
     \/ /\ socket' = [socket EXCEPT ![c] = "closed"]
        /\ Throw(c, <<LeaveFrame("sockets")>>)
  /\ UNCHANGED <<holder, rooms, session, inbox, addressed>>

\* ... closes the connection the user had ...
ClosePrevious(c) ==
  /\ Runs(c, "closePrevious")
  /\ socket' = [socket EXCEPT ![user_connections[user_id[c]]] = "closed"]
  /\ Pause(c, <<>>)
  /\ UNCHANGED <<rooms, session, inbox, addressed>>

FaultyRegister(c) ==
  LET u == user_id[c] IN
  /\ Runs(c, "register")
  /\ user_connections' = [user_connections EXCEPT ![u] = c]
  /\ operator_connections' = IF u \in role_connections THEN operator_connections
                             ELSE [operator_connections EXCEPT ![u] = c]
  /\ role_connections' = role_connections \cup {u}
  /\ Continue(c, <<>>)
  /\ UNCHANGED <<holder, chat_connections, world>>

\* ... and writes the new one down.
Register(c) ==
  LET u == user_id[c] IN
  /\ Runs(c, "register")
  /\ user_connections' = [user_connections EXCEPT ![u] = c]
  /\ operator_connections' = [operator_connections EXCEPT ![u] = c]
  /\ role_connections' = role_connections \cup {u}
  /\ Continue(c, <<>>)
  /\ UNCHANGED <<holder, chat_connections, world>>

\* disconnect_user removes whatever connection the user has by now.
DisconnectUser(t) ==
  LET u == Top(t).user IN
  /\ Runs(t, "disconnect")
  /\ holder["sockets"] = NoTask
  /\ user_connections' = [user_connections EXCEPT ![u] = NoConn]
  /\ operator_connections' = [operator_connections EXCEPT ![u] = NoConn]
  /\ role_connections' = role_connections \ {u}
  /\ chat_connections' = [ch \in Chat |-> chat_connections[ch] \ {u}]
  /\ Continue(t, <<>>)
  /\ UNCHANGED <<holder, world>>

\* join_chat and leave_chat.  Whoever is named joins, connected or not.
ChangeRoom(t) ==
  LET f == Top(t) IN
  /\ Scheduled(t) /\ f.do \in {"joinChat", "leaveChat"}
  /\ holder["sockets"] = NoTask
  /\ chat_connections' = [chat_connections EXCEPT ![f.chat] =
                            IF f.do = "joinChat" THEN @ \cup {f.user} ELSE @ \ {f.user}]
  /\ Continue(t, <<>>)
  /\ UNCHANGED <<holder, books, world>>

AsksForLock(t) == Top(t).do \in {"connect", "disconnect", "joinChat", "leaveChat"}

WaitForLock(t) ==
  /\ Busy(t) /\ AsksForLock(t)
  /\ Wait(t, "sockets")
  /\ UNCHANGED <<rooms, world>>

ReleaseLock(t) == Leave(t) /\ UNCHANGED <<rooms, world>>

-----------------------------------------------------------------------------
(* Sending.                                                                *)

SendToUser(t) ==
  LET f == Top(t) IN
  /\ Runs(t, "send")
  /\ \/ /\ Registered(f.user)
        /\ Pause(t, <<[do |-> "sendJson", user |-> f.user, msg |-> f.msg,
                       conn |-> user_connections[f.user]]>>)
     \/ /\ ~Registered(f.user)
        /\ Continue(t, <<>>)
  /\ UNCHANGED <<holder, rooms, world>>

\* On a closed connection the message is lost, or the error makes the manager
\* disconnect the user, who may have another connection by now.
SendJson(t) ==
  LET f == Top(t) IN
  /\ Runs(t, "sendJson")
  /\ \/ /\ socket[f.conn] = "open"
        /\ inbox' = [inbox EXCEPT ![f.conn] = @ \cup ({f.msg} \cap Message)]
        /\ Continue(t, <<>>)
     \/ /\ socket[f.conn] = "closed"
        /\ Continue(t, <<>>) \/ Continue(t, <<DisconnectFrame(f.user)>>)
        /\ UNCHANGED inbox
  /\ UNCHANGED <<holder, rooms, session, socket, addressed>>

\* The participants are copied, then served one after the other.
BroadcastToChat(t) ==
  LET f    == Top(t)
      room == chat_connections[f.chat] \ {f.except}
  IN
  /\ Runs(t, "broadcast")
  /\ addressed' = [addressed EXCEPT ![f.msg] = {user_connections[u] : u \in room} \ {NoConn}]
  /\ Continue(t, <<[do |-> "each", users |-> room, msg |-> f.msg]>>)
  /\ UNCHANGED <<holder, rooms, session, socket, inbox>>

\* Nobody is registered under "admin", the other role that is written to.
BroadcastToRole(t) ==
  /\ Runs(t, "role")
  /\ Passes(t, <<[do |-> "each", users |-> role_connections \ {Top(t).except}, msg |-> Reply]>>)

Serve(t, u, others) ==
  Passes(t, <<[SendFrame(u) EXCEPT !.msg = Top(t).msg],
              [do |-> "each", users |-> others, msg |-> Top(t).msg]>>)

\* The first user who is connected ends the broadcast.
FaultyEach(t) ==
  LET users == Top(t).users IN
  /\ Runs(t, "each")
  /\ \/ users = {} /\ Passes(t, <<>>)
     \/ \E u \in users : Serve(t, u, IF Registered(u) THEN {} ELSE users \ {u})

Each(t) ==
  LET users == Top(t).users IN
  /\ Runs(t, "each")
  /\ \/ users = {} /\ Passes(t, <<>>)
     \/ \E u \in users : Serve(t, u, users \ {u})

-----------------------------------------------------------------------------
(* A session.                                                              *)

Sessions(u) == {c \in Conn : user_id[c] = u /\ Busy(c)}

\* Some task is about to send to user u, or to disconnect him.
Pending(u) ==
  \E t \in Task : \E i \in DOMAIN stack[t] :
    stack[t][i].do \in {"sendJson", "disconnect"} /\ stack[t][i].user = u

Created == {ch \in Chat : owner[ch] # NoUser}

\* A request for a connection that passes get_current_user, with a chat that
\* exists in its query, or none.
Open(c) ==
  /\ running = NoTask
  /\ socket[c] = "new" /\ ~Busy(c)
  /\ socket' = [socket EXCEPT ![c] = "opening"]
  /\ stack' = [stack EXCEPT ![c] = <<[do |-> "findChat"], [do |-> "finally"]>>]
  /\ \E u \in User, ch \in Created \cup {NoChat} :
       /\ user_id' = [user_id EXCEPT ![c] = u]
       /\ chat_id' = [chat_id EXCEPT ![c] = ch]
       /\ alone' = [d \in Conn |-> IF d = c THEN Sessions(u) = {} /\ ~Pending(u)
                                   ELSE alone[d] /\ d \notin Sessions(u)]
  /\ UNCHANGED <<running, holder, rooms, owner, inbox, addressed>>

\* Before the greeting everybody goes on line as an operator, after it a client
\* joins the queue: calls of the queue manager, which SupportQueue models.
QueueFrame == [do |-> "queue"]

ServeFrames(u, ch) ==
     <<[do |-> "connect"]>>
  \o (IF ch = NoChat THEN <<>> ELSE <<RoomFrame("joinChat", u, ch)>>)
  \o <<QueueFrame, SendFrame(u)>>
  \o (IF u \in Clients /\ ch # NoChat THEN <<QueueFrame>> ELSE <<>>)
  \o <<[do |-> "receive"]>>

FaultyFindChat(c) ==
  /\ Runs(c, "findChat")
  /\ Pause(c, IF chat_id[c] # NoChat \/ user_id[c] \notin Clients
              THEN ServeFrames(user_id[c], chat_id[c]) ELSE <<[do |-> "createChat"]>>)
  /\ UNCHANGED <<rooms, world>>

\* A client without a chat_id is given his active chat, or a new one; an
\* operator is connected without.
FindChat(c) ==
  LET u    == user_id[c]
      mine == {ch \in Chat : owner[ch] = u}
      asks == chat_id[c] = NoChat /\ u \in Clients
  IN
  /\ Runs(c, "findChat")
  /\ \/ /\ ~asks
        /\ Continue(c, ServeFrames(u, chat_id[c]))
        /\ UNCHANGED <<holder, chat_id>>
     \/ \E ch \in mine :
          /\ asks
          /\ chat_id' = [chat_id EXCEPT ![c] = ch]
          /\ Pause(c, ServeFrames(u, ch))
     \/ /\ asks /\ mine = {}
        /\ Pause(c, <<[do |-> "createChat"]>>)
        /\ UNCHANGED chat_id
     \/ /\ asks
        /\ Throw(c, <<>>)
        /\ UNCHANGED chat_id
  /\ UNCHANGED <<rooms, user_id, owner, alone, socket, inbox, addressed>>

\* There are as many chats as Chat has members: that bounds the model.
CreateChat(c) ==
  /\ Runs(c, "createChat")
  /\ \/ \E ch \in Chat :
          /\ owner[ch] = NoUser
          /\ owner' = [owner EXCEPT ![ch] = user_id[c]]
          /\ chat_id' = [chat_id EXCEPT ![c] = ch]
          /\ Pause(c, ServeFrames(user_id[c], ch))
     \/ /\ Throw(c, <<>>)
        /\ UNCHANGED <<owner, chat_id>>
  /\ UNCHANGED <<rooms, user_id, alone, socket, inbox, addressed>>

\* The session waits for its peer, or for the queue manager ...
AwaitOutside(c) ==
  /\ running = c /\ Busy(c)
  /\ Top(c).do \in {"receive", "queue"}
  /\ Pause(c, <<Top(c)>>)
  /\ UNCHANGED <<rooms, world>>

\* ... which may keep it for ever.
QueueReturns(c) ==
  /\ running = NoTask
  /\ Runs(c, "queue")
  /\ Pause(c, <<>>)
  /\ UNCHANGED <<rooms, world>>

\* Each message from outside, and each notice, takes a member of Message: that
\* bounds the model.
Uses(m) ==
  /\ addressed[m] = {NoConn}
  /\ addressed' = [addressed EXCEPT ![m] = {}]
  /\ UNCHANGED <<holder, rooms, session, socket, inbox>>

\* What a message of the peer makes its handler call: typing and read marks go
\* to the room, a change of status to administrators and support, everything
\* else is answered, if at all, to the sender (ChatAssignment models the rest).
HandlerFrames(c, m) ==
  LET u == user_id[c] IN
       {<<SendFrame(u)>>, <<QueueFrame, RoleFrame(u)>>}
  \cup (IF chat_id[c] = NoChat THEN {} ELSE {<<BroadcastFrame(chat_id[c], u, m)>>})

Receive(c) ==
  /\ running = NoTask
  /\ Runs(c, "receive")
  /\ socket[c] = "open"
  /\ \E m \in Message :
       /\ Uses(m)
       /\ \E frames \in HandlerFrames(c, m) : Continue(c, frames \o <<Top(c)>>)

\* receive_text raises WebSocketDisconnect.
PeerGone(c) ==
  /\ running = NoTask
  /\ Runs(c, "receive")
  /\ socket[c] = "closed"
  /\ Throw(c, <<>>)
  /\ UNCHANGED <<rooms, world>>

FaultyFinally(c) ==
  /\ Runs(c, "finally")
  /\ Passes(c, <<RoomFrame("leaveChat", user_id[c], chat_id[c]), QueueFrame>>)

\* The clean-up runs however the session ended, by user.
Finally(c) ==
  LET u == user_id[c] IN
  /\ Runs(c, "finally")
  /\ Passes(c, (IF chat_id[c] = NoChat THEN <<>> ELSE <<RoomFrame("leaveChat", u, chat_id[c])>>)
               \o <<QueueFrame, DisconnectFrame(u)>>)

\* The peer closes the connection, or it breaks.
Break(c) ==
  /\ running = NoTask
  /\ socket[c] = "open"
  /\ socket' = [socket EXCEPT ![c] = "closed"]
  /\ UNCHANGED <<asyncVars, rooms, session, inbox, addressed>>

-----------------------------------------------------------------------------
(* Notifications, as the event handlers send them.                         *)

\* notify_chat_assigned and notify_lawyer_assigned.
AssignedFrames(ch, u, v) ==
  <<SendFrame(u), SendFrame(v), RoomFrame("joinChat", u, ch), RoomFrame("joinChat", v, ch)>>

FaultyTransferredFrames(ch, new, prev, m) ==
  <<SendFrame(new), SendFrame(prev), BroadcastFrame(ch, NoUser, m),
    DisconnectFrame(prev), RoomFrame("joinChat", new, ch)>>

TransferredFrames(ch, new, prev, m) ==
  <<SendFrame(new), SendFrame(prev), BroadcastFrame(ch, NoUser, m),
    RoomFrame("leaveChat", prev, ch), RoomFrame("joinChat", new, ch)>>

\* new_chat_available, queue_update and client_taken; a message, operator_joined
\* or chat_closed; the assignments of operators and lawyers, and transfers.  They
\* are about chats that have been created.
Notices(m) ==
       {<<RoleFrame(o)>> : o \in User \cup {NoUser}}
  \cup {<<BroadcastFrame(ch, NoUser, m)>> : ch \in Created}
  \cup {AssignedFrames(ch, o, owner[ch]) : ch \in Created, o \in User}
  \cup {AssignedFrames(ch, owner[ch], o) : ch \in Created, o \in User}
  \cup {TransferredFrames(ch, new, prev, m) : ch \in Created, new, prev \in User}

Notify(t) ==
  /\ running = NoTask
  /\ ~Busy(t)
  /\ \E m \in Message :
       /\ Uses(m)
       /\ \E frames \in Notices(m) : stack' = [stack EXCEPT ![t] = frames]
  /\ running' = t

-----------------------------------------------------------------------------
(* The system.                                                             *)

SessionStep(c) ==
  \/ FindChat(c) \/ CreateChat(c) \/ ConnectUser(c) \/ Accept(c) \/ ClosePrevious(c)
  \/ Register(c) \/ AwaitOutside(c) \/ PeerGone(c) \/ Finally(c)

ManagerStep(t) ==
  \/ ChangeRoom(t) \/ DisconnectUser(t) \/ ReleaseLock(t) \/ WaitForLock(t)
  \/ SendToUser(t) \/ SendJson(t) \/ BroadcastToChat(t) \/ BroadcastToRole(t) \/ Each(t)

Outside ==
  \/ \E c \in Conn : Open(c) \/ Break(c) \/ Receive(c) \/ QueueReturns(c)
  \/ \E t \in Notifier : Notify(t)

SocketsNext ==
  \/ Outside
  \/ \E c \in Conn : SessionStep(c)
  \/ \E t \in Task : ManagerStep(t)

SocketsSpec == SocketsInit /\ [][SocketsNext]_socketVars

-----------------------------------------------------------------------------
(* Properties.                                                             *)

SocketFrame ==
     [do : {"findChat", "createChat", "connect", "accept", "closePrevious",
            "register", "receive", "queue", "finally"}]
  \cup [do : {"leave"}, lock : Lock]
  \cup [do : {"send"}, user : User, msg : Message \cup {Reply}]
  \cup [do : {"sendJson"}, user : User, msg : Message \cup {Reply}, conn : Conn]
  \cup [do : {"broadcast"}, chat : Chat, except : User \cup {NoUser}, msg : Message]
  \cup [do : {"role"}, except : User \cup {NoUser}]
  \cup [do : {"each"}, users : SUBSET User, msg : Message \cup {Reply}]
  \cup [do : {"joinChat", "leaveChat"}, user : User, chat : Chat]
  \cup [do : {"disconnect"}, user : User]

\* Every variable holds what the attribute, the table or the local variable it
\* stands for can hold.
SocketsTypeOK ==
  /\ stack \in [Task -> Seq(SocketFrame)]
  /\ running \in Task \cup {NoTask}
  /\ holder \in [Lock -> Task \cup {NoTask}]
  /\ user_connections \in [User -> Conn \cup {NoConn}]
  /\ operator_connections \in [User -> Conn \cup {NoConn}]
  /\ role_connections \in SUBSET User
  /\ chat_connections \in [Chat -> SUBSET User]
  /\ user_id \in [Conn -> User \cup {NoUser}]
  /\ chat_id \in [Conn -> Chat \cup {NoChat}]
  /\ socket \in [Conn -> {"new", "opening", "open", "closed"}]
  /\ owner \in [Chat -> User \cup {NoUser}]
  /\ inbox \in [Conn -> SUBSET Message]
  /\ addressed \in [Message -> SUBSET (Conn \cup {NoConn})]
  /\ alone \in [Conn -> BOOLEAN]

\* The three books of connections name the same ones: connect_user and
\* disconnect_user change them together, whatever is awaited in between.
BooksAgree ==
  /\ operator_connections = user_connections
  /\ role_connections = {u \in User : Registered(u)}

\* A connection in the books is the user's own and its session is not over: in
\* whatever order the sessions of a user register and clean up, and whichever
\* send fails, none is left behind when its task has ended.
NoConnectionLeftBehind ==
  \A u \in User : Registered(u) => user_connections[u] \in Sessions(u)

\* A user who is served by one session, and was not still being served or sent
\* to when it began, stays in the books until his connection is closed: the
\* clean-up of other sessions, broken connections of others and notices do not
\* touch him.
AloneStaysConnected ==
  \A c \in Conn :
    alone[c] /\ socket[c] = "open" /\ Busy(c) /\ Top(c).do = "receive"
      => user_connections[user_id[c]] = c

\* When a broadcast is over it has reached every participant it was for whose
\* connection is still the one in the books and open, although participants
\* come, go, reconnect and break while it runs.
BroadcastDelivered ==
  \A m \in Message :
    (\A t \in Task : \A i \in DOMAIN stack[t] :
       "msg" \in DOMAIN stack[t][i] => stack[t][i].msg # m)
    => \A c \in addressed[m] \ {NoConn} :
         user_connections[user_id[c]] = c /\ socket[c] = "open" => m \in inbox[c]

\* A client whose sessions never overlapped has at most one active chat: looking
\* for it and creating it are two transactions.
OneChatEach ==
  \A u \in User :
    (\A c \in Conn : user_id[c] = u => alone[c])
    => Cardinality({ch \in Chat : owner[ch] = u}) <= 1

\* No method asks for the manager's lock while its own task holds it.
LockNotReentered ==
  \A t \in Task : Busy(t) /\ AsksForLock(t) => holder["sockets"] # t
=============================================================================
