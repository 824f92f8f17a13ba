------------------------- MODULE WebSocketManager_proofs -------------------------
(***************************************************************************)
(* What is proved of WebSocketManager, for any users, chats, connections   *)
(* and notifiers.                                                          *)
(***************************************************************************)
EXTENDS WebSocketManager, SequenceTheorems, FiniteSetTheorems, TLAPS

\* A session knows its user: the token is looked at first.
UserKnown == \A c \in Conn : Busy(c) => user_id[c] \in User

Frames == Seq(SocketFrame)

-----------------------------------------------------------------------------
(* Types.                                                                  *)

\* A connection and a notifier are tasks, and not the same one.
LEMMA TasksApart ==
  /\ Conn \subseteq Task /\ Notifier \subseteq Task
  /\ \A c \in Conn : c \notin Notifier
  /\ "sockets" \in Lock
BY SocketsAssumption

LEMMA SocketsInitType == SocketsInit => SocketsTypeOK /\ UserKnown
<1> SUFFICES ASSUME SocketsInit PROVE SocketsTypeOK /\ UserKnown
  OBVIOUS
<1>1. /\ stack \in [Task -> Seq(SocketFrame)] /\ running \in Task \cup {NoTask}
      /\ holder \in [Lock -> Task \cup {NoTask}]
  BY DEF SocketsInit, AsyncInit
<1>2. UserKnown
  BY TasksApart DEF SocketsInit, AsyncInit, UserKnown, Busy
<1>3. QED
  BY <1>1, <1>2 DEF SocketsInit, SocketsTypeOK

\* The top of a busy task, what is under it, and the arguments it carries.
LEMMA TopType ==
  ASSUME SocketsTypeOK, NEW t \in Task, Busy(t)
  PROVE  /\ Top(t) \in SocketFrame /\ Tail(stack[t]) \in Frames
         /\ stack[t] \in Frames /\ stack[t] # <<>>
BY HeadTailProperties DEF SocketsTypeOK, Busy, Top, Frames

LEMMA FrameArguments ==
  ASSUME NEW f \in SocketFrame
  PROVE  /\ f.do \in {"send", "sendJson", "joinChat", "leaveChat", "disconnect"} => f.user \in User
         /\ f.do \in {"joinChat", "leaveChat", "broadcast"} => f.chat \in Chat
         /\ f.do \in {"send", "sendJson", "each"} => f.msg \in Message \cup {Reply}
         /\ f.do = "sendJson" => f.conn \in Conn
         /\ f.do = "broadcast" => f.msg \in Message
         /\ f.do = "each" => f.users \subseteq User
BY DEF SocketFrame

\* The frames that are made.
LEMMA FramesMade ==
  /\ \A do \in {"findChat", "createChat", "connect", "accept", "closePrevious",
                "register", "receive", "queue", "finally"} : [do |-> do] \in SocketFrame
  /\ LeaveFrame("sockets") \in SocketFrame
  /\ \A u \in User : /\ SendFrame(u) \in SocketFrame
                     /\ DisconnectFrame(u) \in SocketFrame
  /\ \A u \in User, m \in Message \cup {Reply} :
       [SendFrame(u) EXCEPT !.msg = m] \in SocketFrame
  /\ \A u \in User, m \in Message \cup {Reply}, c \in Conn :
       [do |-> "sendJson", user |-> u, msg |-> m, conn |-> c] \in SocketFrame
  /\ \A ch \in Chat, u \in User \cup {NoUser}, m \in Message :
       BroadcastFrame(ch, u, m) \in SocketFrame
  /\ \A u \in User \cup {NoUser} : RoleFrame(u) \in SocketFrame
  /\ \A us \in SUBSET User, m \in Message \cup {Reply} :
       [do |-> "each", users |-> us, msg |-> m] \in SocketFrame
  /\ \A do \in {"joinChat", "leaveChat"}, u \in User, ch \in Chat :
       RoomFrame(do, u, ch) \in SocketFrame
BY TasksApart DEF SocketFrame, LeaveFrame, SendFrame, DisconnectFrame, BroadcastFrame, RoleFrame,
   RoomFrame

\* Continue, Pause and Throw put frames on a stack: stacks stay stacks of frames.
LEMMA ContinueType ==
  ASSUME SocketsTypeOK, NEW t \in Task, Busy(t), NEW s \in Frames, Continue(t, s)
  PROVE  stack' \in [Task -> Frames] /\ running' \in Task \cup {NoTask}
<1>1. s \o Tail(stack[t]) \in Frames
  BY TopType, ConcatProperties DEF Frames
<1>2. QED
  BY <1>1 DEF SocketsTypeOK, Continue, Frames

LEMMA PauseType ==
  ASSUME SocketsTypeOK, NEW t \in Task, Busy(t), NEW s \in Frames, Pause(t, s)
  PROVE  /\ stack' \in [Task -> Frames] /\ running' \in Task \cup {NoTask}
         /\ holder' = holder
<1>1. s \o Tail(stack[t]) \in Frames
  BY TopType, ConcatProperties DEF Frames
<1>2. QED
  BY <1>1 DEF SocketsTypeOK, Pause, Frames

LEMMA ThrowType ==
  ASSUME SocketsTypeOK, NEW c \in Conn, NEW s \in Frames, Throw(c, s)
  PROVE  /\ stack' \in [Task -> Frames] /\ running' \in Task \cup {NoTask}
         /\ holder' = holder
<1>1. <<[do |-> "finally"]>> \in Frames
  BY FramesMade DEF Frames
<1>2. s \o <<[do |-> "finally"]>> \in Frames
  BY <1>1, ConcatProperties DEF Frames
<1>3. QED
  BY <1>2, TasksApart DEF SocketsTypeOK, Throw, Frames

LEMMA ServeFramesType ==
  ASSUME NEW u \in User, NEW ch \in Chat \cup {NoChat}
  PROVE  ServeFrames(u, ch) \in Frames
<1>1. <<[do |-> "connect"]>> \in Frames /\ <<QueueFrame, SendFrame(u)>> \in Frames
  BY FramesMade DEF QueueFrame, Frames
<1>2. (IF ch = NoChat THEN <<>> ELSE <<RoomFrame("joinChat", u, ch)>>) \in Frames
  BY FramesMade DEF Frames
<1>3. (IF u \in Clients /\ ch # NoChat THEN <<QueueFrame>> ELSE <<>>) \in Frames
  BY FramesMade DEF QueueFrame, Frames
<1>4. <<[do |-> "receive"]>> \in Frames
  BY FramesMade DEF Frames
<1>5. QED
  BY <1>1, <1>2, <1>3, <1>4, ConcatProperties DEF ServeFrames, Frames

\* The variables one kind of step leaves alone.
SendingType ==
  /\ socket \in [Conn -> {"new", "opening", "open", "closed"}]
  /\ inbox \in [Conn -> SUBSET Message]
  /\ addressed \in [Message -> SUBSET (Conn \cup {NoConn})]

BooksType ==
  /\ user_connections \in [User -> Conn \cup {NoConn}]
  /\ operator_connections \in [User -> Conn \cup {NoConn}]
  /\ role_connections \in SUBSET User
  /\ chat_connections \in [Chat -> SUBSET User]

SessionType ==
  /\ user_id \in [Conn -> User \cup {NoUser}]
  /\ chat_id \in [Conn -> Chat \cup {NoChat}]
  /\ owner \in [Chat -> User \cup {NoUser}]
  /\ alone \in [Conn -> BOOLEAN]

StacksType ==
  /\ stack \in [Task -> Frames]
  /\ running \in Task \cup {NoTask}
  /\ holder \in [Lock -> Task \cup {NoTask}]

LEMMA TypeParts == SocketsTypeOK <=> StacksType /\ BooksType /\ SessionType /\ SendingType
BY DEF SocketsTypeOK, StacksType, BooksType, SessionType, SendingType, Frames

LEMMA TypePartsNext ==
  SocketsTypeOK' <=> StacksType' /\ BooksType' /\ SessionType' /\ SendingType'
BY DEF SocketsTypeOK, StacksType, BooksType, SessionType, SendingType, Frames

LEMMA UnchangedParts ==
  ASSUME SocketsTypeOK
  PROVE  /\ UNCHANGED rooms => BooksType'
         /\ UNCHANGED session => SessionType'
         /\ UNCHANGED <<socket, inbox, addressed>> => SendingType'
         /\ UNCHANGED world => SessionType' /\ SendingType'
         /\ UNCHANGED asyncVars => StacksType'
BY DEF SocketsTypeOK, BooksType, SessionType, SendingType, StacksType, rooms, books, session, world,
       asyncVars, Frames

\* A session only makes calls for its own user, which it knows.
LEMMA SessionStepType ==
  ASSUME SocketsTypeOK, UserKnown, NEW c \in Conn, SessionStep(c)
  PROVE  SocketsTypeOK'
<1>0. /\ c \in Task /\ Busy(c) /\ user_id[c] \in User
  <2>1. Busy(c)
    BY DEF SessionStep, FindChat, CreateChat, ConnectUser, Accept, ClosePrevious, Register,
           AwaitOutside, PeerGone, Finally, Runs, Scheduled, Pause, Busy
  <2>2. QED
    BY <2>1, TasksApart DEF UserKnown
<1>1. CASE FindChat(c)
  <2>1. BooksType' /\ SendingType'
    BY <1>1, UnchangedParts DEF FindChat
  <2>2. chat_id[c] \in Chat \cup {NoChat} /\ \A ch \in Chat : ch \in Chat \cup {NoChat}
    BY <1>0 DEF SocketsTypeOK
  <2>3. <<[do |-> "createChat"]>> \in Frames /\ <<>> \in Frames
    BY FramesMade DEF Frames
  <2>4. StacksType' /\ SessionType'
    <3>1. CASE Continue(c, ServeFrames(user_id[c], chat_id[c])) /\ UNCHANGED <<holder, chat_id>>
      BY <1>0, <1>1, <2>2, <3>1, ServeFramesType, ContinueType
        DEF StacksType, SessionType, SocketsTypeOK, FindChat
    <3>2. ASSUME NEW ch \in Chat, chat_id' = [chat_id EXCEPT ![c] = ch],
                 Pause(c, ServeFrames(user_id[c], ch))
          PROVE  StacksType' /\ SessionType'
      <4>1. ServeFrames(user_id[c], ch) \in Frames
        BY <1>0, ServeFramesType
      <4>2. StacksType'
        BY <1>0, <3>2, <4>1, PauseType DEF StacksType, SocketsTypeOK
      <4>3. QED
        BY <1>1, <3>2, <4>2 DEF SessionType, SocketsTypeOK, FindChat
    <3>3. CASE Pause(c, <<[do |-> "createChat"]>>) /\ UNCHANGED chat_id
      BY <1>0, <1>1, <2>3, <3>3, PauseType DEF StacksType, SessionType, SocketsTypeOK, FindChat
    <3>4. CASE Throw(c, <<>>) /\ UNCHANGED chat_id
      BY <1>1, <2>3, <3>4, ThrowType DEF StacksType, SessionType, SocketsTypeOK, FindChat
    <3>5. QED
      BY <1>1, <3>1, <3>2, <3>3, <3>4 DEF FindChat
  <2>5. QED
    BY <2>1, <2>4, TypePartsNext
<1>2. CASE CreateChat(c)
  <2>1. BooksType' /\ SendingType'
    BY <1>2, UnchangedParts DEF CreateChat
  <2>2. ASSUME NEW ch \in Chat, owner' = [owner EXCEPT ![ch] = user_id[c]],
               chat_id' = [chat_id EXCEPT ![c] = ch], Pause(c, ServeFrames(user_id[c], ch))
        PROVE  StacksType' /\ SessionType'
    <3>1. ServeFrames(user_id[c], ch) \in Frames
      BY <1>0, ServeFramesType
    <3>2. StacksType'
      BY <1>0, <2>2, <3>1, PauseType DEF StacksType, SocketsTypeOK
    <3>3. QED
      BY <1>0, <1>2, <2>2, <3>2 DEF SessionType, SocketsTypeOK, CreateChat
  <2>3. ASSUME Throw(c, <<>>), UNCHANGED <<owner, chat_id>>
        PROVE  StacksType' /\ SessionType'
    <3>1. <<>> \in Frames
      BY DEF Frames
    <3>2. StacksType'
      BY <2>3, <3>1, ThrowType DEF StacksType, SocketsTypeOK
    <3>3. user_id' = user_id /\ chat_id' = chat_id /\ owner' = owner /\ alone' = alone
      BY <1>2, <2>3 DEF CreateChat
    <3>4. QED
      BY <3>2, <3>3 DEF SessionType, SocketsTypeOK
  <2>4. QED
    BY <1>2, <2>1, <2>2, <2>3, TypePartsNext DEF CreateChat
<1>3. CASE ConnectUser(c)
  <2>1. <<[do |-> "accept"], LeaveFrame("sockets")>> \in Frames
    BY FramesMade DEF Frames
  <2>2. <<[do |-> "accept"], LeaveFrame("sockets")>> \o Tail(stack[c]) \in Frames
    BY <1>0, <2>1, TopType, ConcatProperties DEF Frames
  <2>3. StacksType'
    BY <1>0, <1>3, <2>2 DEF ConnectUser, Acquire, StacksType, SocketsTypeOK, Frames
  <2>4. QED
    BY <1>3, <2>3, UnchangedParts, TypePartsNext DEF ConnectUser
<1>4. CASE Accept(c)
  <2>1. /\ <<[do |-> "closePrevious"], [do |-> "register"]>> \in Frames
        /\ <<[do |-> "register"]>> \in Frames
        /\ <<LeaveFrame("sockets")>> \in Frames
    BY FramesMade DEF Frames
  <2>2. stack' \in [Task -> Frames] /\ running' \in Task \cup {NoTask}
    BY <1>0, <1>4, <2>1, ContinueType, ThrowType DEF Accept
  <2>3. StacksType' /\ SendingType'
    BY <1>4, <2>2 DEF Accept, StacksType, SendingType, SocketsTypeOK
  <2>4. QED
    BY <1>4, <2>3, UnchangedParts, TypePartsNext DEF Accept
<1>5. CASE ClosePrevious(c)
  <2>1. <<>> \in Frames
    BY DEF Frames
  <2>2. StacksType'
    BY <1>0, <1>5, <2>1, PauseType DEF ClosePrevious, StacksType, SocketsTypeOK
  <2>3. SendingType'
    BY <1>5 DEF ClosePrevious, SendingType, SocketsTypeOK
  <2>4. QED
    BY <1>5, <2>2, <2>3, UnchangedParts, TypePartsNext DEF ClosePrevious
<1>6. CASE Register(c)
  <2>1. <<>> \in Frames
    BY DEF Frames
  <2>2. StacksType'
    BY <1>0, <1>6, <2>1, ContinueType DEF Register, StacksType, SocketsTypeOK
  <2>3. BooksType'
    BY <1>0, <1>6 DEF Register, BooksType, SocketsTypeOK
  <2>4. QED
    BY <1>6, <2>2, <2>3, UnchangedParts, TypePartsNext DEF Register
<1>7. CASE AwaitOutside(c) \/ PeerGone(c)
  <2>1. <<Top(c)>> \in Frames /\ <<>> \in Frames
    BY <1>0, TopType DEF Frames
  <2>2. StacksType'
    BY <1>0, <1>7, <2>1, PauseType, ThrowType DEF AwaitOutside, PeerGone, StacksType, SocketsTypeOK
  <2>3. QED
    BY <1>7, <2>2, UnchangedParts, TypePartsNext DEF AwaitOutside, PeerGone
<1>8. CASE Finally(c)
  <2>1. chat_id[c] \in Chat \cup {NoChat}
    BY DEF SocketsTypeOK
  <2>2. (IF chat_id[c] = NoChat THEN <<>>
         ELSE <<RoomFrame("leaveChat", user_id[c], chat_id[c])>>) \in Frames
    BY <1>0, <2>1, FramesMade DEF Frames
  <2>3. <<QueueFrame, DisconnectFrame(user_id[c])>> \in Frames
    BY <1>0, FramesMade DEF Frames, QueueFrame
  <2>4. PICK s \in Frames : Passes(c, s)
    BY <1>8, <2>2, <2>3, ConcatProperties DEF Finally, Frames
  <2>5. StacksType'
    BY <1>0, <2>4, ContinueType DEF Passes, StacksType, SocketsTypeOK
  <2>6. QED
    BY <2>4, <2>5, UnchangedParts, TypePartsNext DEF Passes
<1>9. QED
  BY <1>1, <1>2, <1>3, <1>4, <1>5, <1>6, <1>7, <1>8 DEF SessionStep

LEMMA ManagerStepType ==
  ASSUME SocketsTypeOK, NEW t \in Task, ManagerStep(t)
  PROVE  SocketsTypeOK'
<1>0. Busy(t)
  BY DEF ManagerStep, ChangeRoom, DisconnectUser, ReleaseLock, Leave, WaitForLock, SendToUser,
         SendJson, BroadcastToChat, BroadcastToRole, Each, Runs, Scheduled
<1>1. Top(t) \in SocketFrame /\ <<>> \in Frames
  BY <1>0, TopType DEF Frames
<1>2. CASE ChangeRoom(t)
  <2>1. StacksType'
    BY <1>0, <1>1, <1>2, ContinueType DEF ChangeRoom, StacksType, SocketsTypeOK
  <2>2. BooksType'
    BY <1>1, <1>2, FrameArguments DEF ChangeRoom, BooksType, SocketsTypeOK, books
  <2>3. QED
    BY <1>2, <2>1, <2>2, UnchangedParts, TypePartsNext DEF ChangeRoom
<1>3. CASE DisconnectUser(t)
  <2>1. StacksType'
    BY <1>0, <1>1, <1>3, ContinueType DEF DisconnectUser, StacksType, SocketsTypeOK
  <2>2. BooksType'
    BY <1>3 DEF DisconnectUser, BooksType, SocketsTypeOK
  <2>3. QED
    BY <1>3, <2>1, <2>2, UnchangedParts, TypePartsNext DEF DisconnectUser
<1>4. CASE ReleaseLock(t)
  <2>1. StacksType'
    BY <1>0, <1>1, <1>4, ContinueType DEF ReleaseLock, Leave, StacksType, SocketsTypeOK
  <2>2. QED
    BY <1>4, <2>1, UnchangedParts, TypePartsNext DEF ReleaseLock
<1>5. CASE WaitForLock(t)
  <2>1. StacksType'
    BY <1>5 DEF WaitForLock, Wait, StacksType, SocketsTypeOK, Frames
  <2>2. QED
    BY <1>5, <2>1, UnchangedParts, TypePartsNext DEF WaitForLock
<1>6. CASE SendToUser(t)
  <2>1. Top(t).user \in User /\ Top(t).msg \in Message \cup {Reply}
    BY <1>1, <1>6, FrameArguments DEF SendToUser, Runs
  <2>2. Registered(Top(t).user) => user_connections[Top(t).user] \in Conn
    BY <2>1 DEF Registered, SocketsTypeOK
  <2>3. Registered(Top(t).user) =>
          <<[do |-> "sendJson", user |-> Top(t).user, msg |-> Top(t).msg,
             conn |-> user_connections[Top(t).user]]>> \in Frames
    BY <2>1, <2>2, FramesMade DEF Frames
  <2>4. stack' \in [Task -> Frames] /\ running' \in Task \cup {NoTask}
    BY <1>0, <1>1, <1>6, <2>3, ContinueType, PauseType DEF SendToUser
  <2>5. StacksType'
    BY <1>6, <2>4 DEF SendToUser, StacksType, SocketsTypeOK
  <2>6. QED
    BY <1>6, <2>5, UnchangedParts, TypePartsNext DEF SendToUser
<1>7. CASE SendJson(t)
  <2>1. Top(t).user \in User
    BY <1>1, <1>7, FrameArguments DEF SendJson, Runs
  <2>2. <<DisconnectFrame(Top(t).user)>> \in Frames
    BY <2>1, FramesMade DEF Frames
  <2>3. stack' \in [Task -> Frames] /\ running' \in Task \cup {NoTask}
    BY <1>0, <1>1, <1>7, <2>2, ContinueType DEF SendJson
  <2>4. StacksType'
    BY <1>7, <2>3 DEF SendJson, StacksType, SocketsTypeOK
  <2>5. SendingType'
    <3>1. /\ UNCHANGED <<socket, addressed>>
          /\ \/ UNCHANGED inbox
             \/ inbox' = [inbox EXCEPT ![Top(t).conn] = @ \cup ({Top(t).msg} \cap Message)]
      BY <1>7 DEF SendJson
    <3>2. inbox' \in [Conn -> SUBSET Message]
      BY <3>1 DEF SocketsTypeOK
    <3>3. QED
      BY <3>1, <3>2 DEF SendingType, SocketsTypeOK
  <2>6. QED
    BY <1>7, <2>4, <2>5, UnchangedParts, TypePartsNext DEF SendJson
<1>8. CASE BroadcastToChat(t)
  <2>1. Top(t).chat \in Chat /\ Top(t).msg \in Message
    BY <1>1, <1>8, FrameArguments DEF BroadcastToChat, Runs
  <2>2. chat_connections[Top(t).chat] \ {Top(t).except} \in SUBSET User
    BY <2>1 DEF SocketsTypeOK
  <2>3. <<[do |-> "each", users |-> chat_connections[Top(t).chat] \ {Top(t).except},
           msg |-> Top(t).msg]>> \in Frames
    BY <2>1, <2>2, FramesMade DEF Frames
  <2>4. StacksType'
    BY <1>0, <1>8, <2>3, ContinueType DEF BroadcastToChat, StacksType, SocketsTypeOK
  <2>5. {user_connections[u] : u \in chat_connections[Top(t).chat] \ {Top(t).except}}
          \subseteq Conn \cup {NoConn}
    BY <2>2 DEF SocketsTypeOK
  <2>6. SendingType'
    BY <1>8, <2>5 DEF BroadcastToChat, SendingType, SocketsTypeOK
  <2>7. QED
    BY <1>8, <2>4, <2>6, UnchangedParts, TypePartsNext DEF BroadcastToChat
<1>9. CASE BroadcastToRole(t) \/ Each(t)
  <2>1. CASE BroadcastToRole(t)
    <3>1. role_connections \ {Top(t).except} \in SUBSET User /\ Reply \in Message \cup {Reply}
      BY DEF SocketsTypeOK
    <3>2. [do |-> "each", users |-> role_connections \ {Top(t).except}, msg |-> Reply]
            \in SocketFrame
      BY <3>1, FramesMade
    <3>3. <<[do |-> "each", users |-> role_connections \ {Top(t).except}, msg |-> Reply]>>
            \in Frames
      BY <3>2 DEF Frames
    <3>4. QED
      BY <1>0, <2>1, <3>3, ContinueType, UnchangedParts, TypePartsNext
        DEF BroadcastToRole, Passes, StacksType, SocketsTypeOK
  <2>2. CASE Each(t) /\ Passes(t, <<>>)
    BY <1>0, <1>1, <2>2, ContinueType, UnchangedParts, TypePartsNext
      DEF Passes, StacksType, SocketsTypeOK
  <2>3. ASSUME NEW u \in Top(t).users, Runs(t, "each"), Serve(t, u, Top(t).users \ {u})
        PROVE  SocketsTypeOK'
    <3>1. Top(t).users \subseteq User /\ Top(t).msg \in Message \cup {Reply}
      BY <1>1, <2>3, FrameArguments DEF Runs
    <3>2. /\ [SendFrame(u) EXCEPT !.msg = Top(t).msg] \in SocketFrame
          /\ [do |-> "each", users |-> Top(t).users \ {u}, msg |-> Top(t).msg] \in SocketFrame
      BY <3>1, FramesMade
    <3>3. <<[SendFrame(u) EXCEPT !.msg = Top(t).msg],
            [do |-> "each", users |-> Top(t).users \ {u}, msg |-> Top(t).msg]>> \in Frames
      BY <3>2 DEF Frames
    <3>4. QED
      BY <1>0, <2>3, <3>3, ContinueType, UnchangedParts, TypePartsNext
        DEF Serve, Passes, StacksType, SocketsTypeOK
  <2>4. QED
    BY <1>9, <2>1, <2>2, <2>3 DEF Each
<1>10. QED
  BY <1>2, <1>3, <1>4, <1>5, <1>6, <1>7, <1>8, <1>9 DEF ManagerStep

\* The calls of a message or a notice are about known users and chats.
LEMMA HandlerFramesType ==
  ASSUME SocketsTypeOK, NEW c \in Conn, user_id[c] \in User, NEW m \in Message,
         NEW s \in HandlerFrames(c, m)
  PROVE  s \in Frames
<1>1. <<SendFrame(user_id[c])>> \in Frames
  BY FramesMade DEF Frames
<1>2. <<QueueFrame, RoleFrame(user_id[c])>> \in Frames
  BY FramesMade DEF Frames, QueueFrame
<1>3. chat_id[c] # NoChat => <<BroadcastFrame(chat_id[c], user_id[c], m)>> \in Frames
  <2>1. chat_id[c] # NoChat => BroadcastFrame(chat_id[c], user_id[c], m) \in SocketFrame
    BY FramesMade DEF SocketsTypeOK
  <2>2. QED
    BY <2>1 DEF Frames
<1>4. QED
  BY <1>1, <1>2, <1>3 DEF HandlerFrames

LEMMA NoticesType ==
  ASSUME SocketsTypeOK, NEW m \in Message, NEW s \in Notices(m)
  PROVE  s \in Frames
<1>1. \A ch \in Created : ch \in Chat /\ owner[ch] \in User
  BY DEF Created, SocketsTypeOK
<1>2. \A u \in User \cup {NoUser} : <<RoleFrame(u)>> \in Frames
  BY FramesMade DEF Frames
<1>3. \A ch \in Chat : <<BroadcastFrame(ch, NoUser, m)>> \in Frames
  <2>1. \A ch \in Chat : BroadcastFrame(ch, NoUser, m) \in SocketFrame
    BY FramesMade
  <2>2. QED
    BY <2>1 DEF Frames
<1>4. \A ch \in Chat, u, v \in User : AssignedFrames(ch, u, v) \in Frames
  <2>1. ASSUME NEW ch \in Chat, NEW u \in User, NEW v \in User
        PROVE  /\ SendFrame(u) \in SocketFrame /\ SendFrame(v) \in SocketFrame
               /\ RoomFrame("joinChat", u, ch) \in SocketFrame
               /\ RoomFrame("joinChat", v, ch) \in SocketFrame
    BY FramesMade
  <2>2. QED
    BY <2>1 DEF Frames, AssignedFrames
<1>5. \A ch \in Chat, u, v \in User : TransferredFrames(ch, u, v, m) \in Frames
  <2>1. ASSUME NEW ch \in Chat, NEW u \in User, NEW v \in User
        PROVE  /\ SendFrame(u) \in SocketFrame /\ SendFrame(v) \in SocketFrame
               /\ BroadcastFrame(ch, NoUser, m) \in SocketFrame
               /\ RoomFrame("leaveChat", v, ch) \in SocketFrame
               /\ RoomFrame("joinChat", u, ch) \in SocketFrame
    BY FramesMade
  <2>2. QED
    BY <2>1 DEF Frames, TransferredFrames
<1>6. QED
  BY <1>1, <1>2, <1>3, <1>4, <1>5 DEF Notices

LEMMA OutsideType ==
  ASSUME SocketsTypeOK, UserKnown, Outside
  PROVE  SocketsTypeOK'
<1>1. ASSUME NEW c \in Conn, Open(c)
      PROVE  SocketsTypeOK'
  <2>1. <<[do |-> "findChat"], [do |-> "finally"]>> \in Frames
    BY FramesMade DEF Frames
  <2>2. StacksType'
    BY <1>1, <2>1, TasksApart DEF Open, StacksType, SocketsTypeOK, Frames
  <2>3. \A ch \in Created : ch \in Chat
    BY DEF Created
  <2>4. PICK u \in User, ch \in Created \cup {NoChat} :
          /\ user_id' = [user_id EXCEPT ![c] = u]
          /\ chat_id' = [chat_id EXCEPT ![c] = ch]
          /\ alone' = [d \in Conn |-> IF d = c THEN Sessions(u) = {} /\ ~Pending(u)
                                      ELSE alone[d] /\ d \notin Sessions(u)]
    BY <1>1 DEF Open
  <2>5. user_id' \in [Conn -> User \cup {NoUser}] /\ chat_id' \in [Conn -> Chat \cup {NoChat}]
    BY <2>3, <2>4 DEF SocketsTypeOK
  <2>6. alone' \in [Conn -> BOOLEAN]
    BY <2>4, Zenon
  <2>7. SessionType' /\ SendingType'
    BY <1>1, <2>5, <2>6 DEF Open, SessionType, SendingType, SocketsTypeOK
  <2>8. QED
    BY <1>1, <2>2, <2>7, UnchangedParts, TypePartsNext DEF Open
<1>2. ASSUME NEW c \in Conn, Break(c)
      PROVE  SocketsTypeOK'
  <2>1. SendingType'
    BY <1>2 DEF Break, SendingType, SocketsTypeOK
  <2>2. QED
    BY <1>2, <2>1, UnchangedParts, TypePartsNext DEF Break
<1>3. ASSUME NEW c \in Conn, Receive(c)
      PROVE  SocketsTypeOK'
  <2>1. c \in Task /\ Busy(c) /\ user_id[c] \in User
    BY <1>3, TasksApart DEF Receive, Runs, Scheduled, UserKnown
  <2>2. PICK m \in Message :
          Uses(m) /\ \E s \in HandlerFrames(c, m) : Continue(c, s \o <<Top(c)>>)
    BY <1>3 DEF Receive
  <2> PICK s \in HandlerFrames(c, m) : Continue(c, s \o <<Top(c)>>)
    BY <2>2
  <2>3. s \in Frames /\ <<Top(c)>> \in Frames
    BY <2>1, HandlerFramesType, TopType DEF Frames
  <2>4. s \o <<Top(c)>> \in Frames
    BY <2>3, ConcatProperties DEF Frames
  <2>5. StacksType'
    BY <2>1, <2>2, <2>4, ContinueType DEF Uses, StacksType, SocketsTypeOK
  <2>6. SendingType'
    BY <2>2 DEF Uses, SendingType, SocketsTypeOK
  <2>7. QED
    BY <2>2, <2>5, <2>6, UnchangedParts, TypePartsNext DEF Uses
<1>4. ASSUME NEW c \in Conn, QueueReturns(c)
      PROVE  SocketsTypeOK'
  <2>1. c \in Task /\ Busy(c) /\ <<>> \in Frames
    BY <1>4, TasksApart DEF QueueReturns, Runs, Scheduled, Frames
  <2>2. StacksType'
    BY <1>4, <2>1, PauseType DEF QueueReturns, StacksType, SocketsTypeOK
  <2>3. QED
    BY <1>4, <2>2, UnchangedParts, TypePartsNext DEF QueueReturns
<1>5. ASSUME NEW t \in Notifier, Notify(t)
      PROVE  SocketsTypeOK'
  <2>1. t \in Task
    BY TasksApart
  <2>2. PICK m \in Message :
          Uses(m) /\ \E s \in Notices(m) : stack' = [stack EXCEPT ![t] = s]
    BY <1>5 DEF Notify
  <2> PICK s \in Notices(m) : stack' = [stack EXCEPT ![t] = s]
    BY <2>2
  <2>3. s \in Frames
    BY NoticesType
  <2>4. StacksType'
    BY <1>5, <2>1, <2>2, <2>3 DEF Notify, Uses, StacksType, SocketsTypeOK, Frames
  <2>5. SendingType'
    BY <2>2 DEF Uses, SendingType, SocketsTypeOK
  <2>6. QED
    BY <2>2, <2>4, <2>5, UnchangedParts, TypePartsNext DEF Uses
<1>6. QED
  BY <1>1, <1>2, <1>3, <1>4, <1>5 DEF Outside

\* Tasks of connections start with Open, where the user is known.
LEMMA UserKnownNext ==
  ASSUME SocketsTypeOK, UserKnown, [SocketsNext]_socketVars
  PROVE  UserKnown'
<1> SUFFICES ASSUME NEW c \in Conn, Busy(c)' PROVE user_id'[c] \in User
  BY DEF UserKnown
<1>1. CASE UNCHANGED socketVars
  BY <1>1 DEF UserKnown, Busy, socketVars, asyncVars, world, session
<1>2. ASSUME NEW d \in Conn, Open(d)
      PROVE  user_id'[c] \in User
  <2>1. d # c => Busy(c) /\ user_id'[c] = user_id[c]
    BY <1>2, TasksApart DEF Open, Busy, SocketsTypeOK
  <2>2. QED
    BY <1>2, <2>1 DEF Open, UserKnown, SocketsTypeOK
<1>3. ASSUME NEW t \in Task, t # c \/ Busy(c), \A d \in Task : d # t => stack'[d] = stack[d],
             user_id' = user_id
      PROVE  user_id'[c] \in User
  BY <1>3, TasksApart DEF UserKnown, Busy
<1>4. ASSUME NEW t \in Notifier, Notify(t)
      PROVE  user_id'[c] \in User
  BY <1>3, <1>4, TasksApart DEF Notify, Uses, session, SocketsTypeOK
<1>5. ASSUME NEW d \in Conn, Break(d) \/ Receive(d) \/ QueueReturns(d)
      PROVE  user_id'[c] \in User
  <2>1. user_id' = user_id /\ (d # c \/ Busy(c)) /\ d \in Task
    BY <1>5, TasksApart
      DEF Break, Receive, QueueReturns, Runs, Scheduled, Busy, Uses, session, asyncVars, world
  <2>2. \A e \in Task : e # d => stack'[e] = stack[e]
    BY <1>5 DEF Break, Receive, QueueReturns, Continue, Pause, asyncVars, SocketsTypeOK
  <2>3. QED
    BY <1>3, <2>1, <2>2
<1>6. ASSUME NEW d \in Conn, SessionStep(d)
      PROVE  user_id'[c] \in User
  <2>1. user_id' = user_id /\ Busy(d) /\ d \in Task
    BY <1>6, TasksApart
      DEF SessionStep, FindChat, CreateChat, ConnectUser, Accept, ClosePrevious, Register,
          AwaitOutside, PeerGone, Finally, Passes, Runs, Scheduled, world, session
  <2>2. \A e \in Task : e # d => stack'[e] = stack[e]
    BY <1>6
      DEF SessionStep, FindChat, CreateChat, ConnectUser, Accept, ClosePrevious, Register,
          AwaitOutside, PeerGone, Finally, Passes, Continue, Pause, Throw, SocketsTypeOK
  <2>3. QED
    BY <1>3, <2>1, <2>2
<1>7. ASSUME NEW t \in Task, ManagerStep(t)
      PROVE  user_id'[c] \in User
  <2>1. user_id' = user_id /\ Busy(t)
    BY <1>7
      DEF ManagerStep, ChangeRoom, DisconnectUser, ReleaseLock, Leave, WaitForLock, SendToUser,
          SendJson, BroadcastToChat, BroadcastToRole, Each, Serve, Passes, Runs, Scheduled,
          world, session
  <2>2. \A e \in Task : e # t => stack'[e] = stack[e]
    BY <1>7
      DEF ManagerStep, ChangeRoom, DisconnectUser, ReleaseLock, Leave, WaitForLock, Wait,
          SendToUser, SendJson, BroadcastToChat, BroadcastToRole, Each, Serve, Passes,
          Continue, Pause, SocketsTypeOK
  <2>3. QED
    BY <1>3, <2>1, <2>2
<1>8. QED
  BY <1>1, <1>2, <1>4, <1>5, <1>6, <1>7 DEF SocketsNext, Outside

LEMMA SocketsNextType ==
  SocketsTypeOK /\ UserKnown /\ [SocketsNext]_socketVars => SocketsTypeOK' /\ UserKnown'
<1> SUFFICES ASSUME SocketsTypeOK, UserKnown, [SocketsNext]_socketVars
             PROVE  SocketsTypeOK' /\ UserKnown'
  OBVIOUS
<1>1. CASE UNCHANGED socketVars
  <2>1. SocketsTypeOK'
    BY <1>1, UnchangedParts, TypePartsNext DEF socketVars, world
  <2>2. QED
    BY <2>1, UserKnownNext
<1>2. CASE SocketsNext
  BY <1>2, OutsideType, SessionStepType, ManagerStepType, UserKnownNext DEF SocketsNext
<1>3. QED
  BY <1>1, <1>2

\* The books, the sessions and the stacks hold what they can hold, whoever
\* connects, writes, breaks off and is notified.
THEOREM SocketsTypeCorrect == SocketsSpec => []SocketsTypeOK
<1>1. QED
  BY SocketsInitType, SocketsNextType, PTL DEF SocketsSpec

-----------------------------------------------------------------------------
(* The books.                                                              *)

\* Only connect_user and disconnect_user write the books of connections.
LEMMA WritersOfBooks ==
  ASSUME [SocketsNext]_socketVars
  PROVE  \/ UNCHANGED books
         \/ \E c \in Conn : Register(c)
         \/ \E t \in Task : DisconnectUser(t)
<1>1. CASE UNCHANGED socketVars
  BY <1>1 DEF socketVars, rooms
<1>2. CASE Outside
  BY <1>2 DEF Outside, Open, Break, Receive, Uses, QueueReturns, Notify, rooms
<1>3. ASSUME NEW c \in Conn, SessionStep(c), ~Register(c)
      PROVE  UNCHANGED books
  BY <1>3 DEF SessionStep, FindChat, CreateChat, ConnectUser, Accept, ClosePrevious, AwaitOutside,
       PeerGone, Finally, Passes, rooms
<1>4. ASSUME NEW t \in Task, ManagerStep(t), ~DisconnectUser(t)
      PROVE  UNCHANGED books
  BY <1>4 DEF ManagerStep, ChangeRoom, ReleaseLock, WaitForLock, SendToUser, SendJson,
       BroadcastToChat, BroadcastToRole, Each, Serve, Passes, rooms
<1>5. QED
  BY <1>1, <1>2, <1>3, <1>4 DEF SocketsNext

LEMMA BooksAgreeNext ==
  SocketsTypeOK /\ UserKnown /\ BooksAgree /\ [SocketsNext]_socketVars => BooksAgree'
<1> SUFFICES ASSUME SocketsTypeOK, UserKnown, BooksAgree, [SocketsNext]_socketVars
             PROVE  BooksAgree'
  OBVIOUS
<1>1. CASE UNCHANGED books
  BY <1>1 DEF BooksAgree, Registered, books
<1>2. ASSUME NEW c \in Conn, Register(c)
      PROVE  BooksAgree'
  <2>1. user_id[c] \in User /\ c # NoConn
    BY <1>2, SocketsAssumption DEF Register, Runs, Scheduled, UserKnown
  <2>2. \A u \in User : Registered(u)' <=> Registered(u) \/ u = user_id[c]
    BY <1>2, <2>1 DEF Register, Registered, SocketsTypeOK
  <2>3. QED
    BY <1>2, <2>1, <2>2 DEF Register, BooksAgree
<1>3. ASSUME NEW t \in Task, DisconnectUser(t)
      PROVE  BooksAgree'
  <2>1. \A u \in User : Registered(u)' <=> Registered(u) /\ u # Top(t).user
    BY <1>3 DEF DisconnectUser, Registered, SocketsTypeOK
  <2>2. QED
    BY <1>3, <2>1 DEF DisconnectUser, BooksAgree
<1>4. QED
  BY <1>1, <1>2, <1>3, WritersOfBooks

\* The three books of connections name the same ones at every step, although
\* connect_user awaits a handshake and a close between looking and writing.
THEOREM BooksAlwaysAgree == SocketsSpec => []BooksAgree
<1>1. SocketsInit => BooksAgree
  BY DEF SocketsInit, BooksAgree, Registered
<1>2. QED
  BY <1>1, SocketsInitType, SocketsNextType, BooksAgreeNext, PTL DEF SocketsSpec

-----------------------------------------------------------------------------
(* Sessions clean up.                                                      *)

LastFrame(s) == s[Len(s)]

CleanUp(c) == {[do |-> "finally"], DisconnectFrame(user_id[c])}

\* What a session does last is to disconnect its own user.
SessionsEnd == \A c \in Conn : Busy(c) => LastFrame(stack[c]) \in CleanUp(c)

\* New frames on top of others leave the last one where it is.
LEMMA TailKeepsLast ==
  ASSUME NEW s \in Frames, s # <<>>, NEW new \in Frames
  PROVE  /\ Tail(s) # <<>> => /\ new \o Tail(s) # <<>>
                              /\ LastFrame(new \o Tail(s)) = LastFrame(s)
         /\ Tail(s) = <<>> => /\ LastFrame(s) = Head(s)
                              /\ new # <<>> => /\ new \o Tail(s) # <<>>
                                               /\ LastFrame(new \o Tail(s)) = LastFrame(new)
<1> DEFINE both == new \o Tail(s)
<1>1. Tail(s) \in Frames /\ both \in Frames
  BY HeadTailProperties, ConcatProperties DEF Frames
<1>2. PICK n \in Nat, l \in Nat : n = Len(Tail(s)) /\ l = Len(new)
  BY <1>1, LenProperties DEF Frames
<1>3. n = Len(s) - 1 /\ \A i \in 1..n : Tail(s)[i] = s[i + 1]
  BY <1>2, HeadTailProperties DEF Frames
<1>4. Len(s) \in Nat
  BY LenProperties DEF Frames
<1>5. Len(s) = n + 1
  <2>1. n = Len(s) - 1
    BY <1>3
  <2>2. QED
    BY <1>2, <1>4, <2>1
<1>6. /\ Len(both) = l + n
      /\ \A i \in 1..(l + n) : both[i] = IF i <= l THEN new[i] ELSE Tail(s)[i - l]
  BY <1>1, <1>2, ConcatProperties DEF Frames
<1>7. CASE Tail(s) # <<>>
  <2>1. n \in Nat \ {0}
    BY <1>1, <1>2, <1>7, EmptySeq DEF Frames
  <2>2. Tail(s)[n] = s[n + 1]
    BY <1>3, <2>1
  <2> PICK k \in Nat : k = l + n
    BY <1>2
  <2>3. k \in 1..k /\ ~(k <= l) /\ k - l = n
    BY <1>2, <2>1
  <2>4. both[k] = Tail(s)[n]
    <3> HIDE DEF both
    <3>1. \A i \in 1..k : both[i] = IF i <= l THEN new[i] ELSE Tail(s)[i - l]
      BY <1>6
    <3>2. both[k] = Tail(s)[k - l]
      BY <2>3, <3>1
    <3>3. QED
      BY <2>3, <3>2
  <2>5. both # <<>>
    <3>1. Len(both) # 0
      BY <1>6, <2>3
    <3>2. QED
      BY <3>1, EmptySeq
  <2>6. LastFrame(both) = both[k]
    <3>1. Len(both) = k
      BY <1>6
    <3>2. QED
      BY <3>1 DEF LastFrame
  <2>7. LastFrame(s) = s[n + 1]
    BY <1>5 DEF LastFrame
  <2> HIDE DEF both
  <2>8. LastFrame(both) = LastFrame(s)
    BY <2>2, <2>4, <2>6, <2>7
  <2>9. QED
    BY <1>7, <2>5, <2>8 DEF both
<1>8. CASE Tail(s) = <<>>
  <2>1. n = 0
    BY <1>2, <1>8, EmptySeq
  <2>2. Len(s) = 1
    BY <1>5, <2>1
  <2>3. LastFrame(s) = Head(s)
    BY <2>2 DEF LastFrame, Frames
  <2>4. both = new
    BY <1>8, ConcatEmptySeq DEF Frames
  <2>5. QED
    BY <1>8, <2>3, <2>4
<1>9. QED
  BY <1>7, <1>8

\* What a step does to the stack of its task: nothing, new frames in the place of
\* the one on top, or an exception.  Only Finally and DisconnectUser replace a
\* frame a session may end with.
LEMMA SessionStepShape ==
  ASSUME SocketsTypeOK, UserKnown, NEW c \in Conn, SessionStep(c), ~Finally(c)
  PROVE  /\ Top(c).do \notin {"finally", "disconnect"}
         /\ \E new \in Frames :
              \/ stack' = [stack EXCEPT ![c] = new \o Tail(stack[c])]
              \/ stack' = [stack EXCEPT ![c] = new \o <<[do |-> "finally"]>>]
<1>0. /\ c \in Task /\ Busy(c) /\ user_id[c] \in User
  BY TasksApart
    DEF UserKnown, SessionStep, FindChat, CreateChat, ConnectUser, Accept, ClosePrevious,
        Register, AwaitOutside, PeerGone, Finally, Runs, Scheduled
<1>1. Top(c).do \notin {"finally", "disconnect"}
  BY DEF SessionStep, FindChat, CreateChat, ConnectUser, Accept, ClosePrevious,
         Register, AwaitOutside, PeerGone, Finally, Runs
<1>2. /\ <<>> \in Frames /\ <<Top(c)>> \in Frames
      /\ <<[do |-> "createChat"]>> \in Frames
      /\ <<[do |-> "accept"], LeaveFrame("sockets")>> \in Frames
      /\ <<[do |-> "closePrevious"], [do |-> "register"]>> \in Frames
      /\ <<[do |-> "register"]>> \in Frames
      /\ <<LeaveFrame("sockets")>> \in Frames
  BY <1>0, FramesMade, TopType DEF Frames
<1>3. chat_id[c] \in Chat \cup {NoChat}
  BY DEF SocketsTypeOK
<1>4. /\ ServeFrames(user_id[c], chat_id[c]) \in Frames
      /\ \A ch \in Chat : ServeFrames(user_id[c], ch) \in Frames
  BY <1>0, <1>3, ServeFramesType
<1>5. CASE FindChat(c)
  <2>1. CASE \/ Continue(c, ServeFrames(user_id[c], chat_id[c]))
             \/ \E ch \in Chat : Pause(c, ServeFrames(user_id[c], ch))
             \/ Pause(c, <<[do |-> "createChat"]>>)
    <3>1. \E new \in Frames : stack' = [stack EXCEPT ![c] = new \o Tail(stack[c])]
      BY <1>2, <1>4, <2>1 DEF Continue, Pause
    <3>2. QED
      BY <1>1, <3>1
  <2>2. CASE Throw(c, <<>>)
    BY <1>1, <1>2, <2>2 DEF Throw
  <2>3. QED
    BY <1>5, <2>1, <2>2 DEF FindChat
<1>6. CASE CreateChat(c)
  BY <1>1, <1>2, <1>4, <1>6 DEF CreateChat, Pause, Throw
<1>7. CASE ConnectUser(c)
  BY <1>1, <1>2, <1>7 DEF ConnectUser
<1>8. CASE Accept(c)
  BY <1>1, <1>2, <1>8 DEF Accept, Continue, Throw
<1>9. CASE ClosePrevious(c) \/ Register(c)
  BY <1>1, <1>2, <1>9 DEF ClosePrevious, Register, Continue, Pause
<1>10. CASE AwaitOutside(c) \/ PeerGone(c)
  BY <1>1, <1>2, <1>10 DEF AwaitOutside, PeerGone, Pause, Throw
<1>11. QED
  BY <1>5, <1>6, <1>7, <1>8, <1>9, <1>10 DEF SessionStep

LEMMA ManagerStepShape ==
  ASSUME SocketsTypeOK, NEW t \in Task, ManagerStep(t), ~DisconnectUser(t)
  PROVE  \/ stack' = stack
         \/ /\ Busy(t) /\ Top(t).do \notin {"finally", "disconnect"}
            /\ \E new \in Frames : stack' = [stack EXCEPT ![t] = new \o Tail(stack[t])]
<1>0. Busy(t)
  BY DEF ManagerStep, ChangeRoom, DisconnectUser, ReleaseLock, Leave, WaitForLock, SendToUser,
         SendJson, BroadcastToChat, BroadcastToRole, Each, Runs, Scheduled
<1>1. Top(t) \in SocketFrame /\ <<>> \in Frames
  BY <1>0, TopType DEF Frames
<1>2. CASE ChangeRoom(t)
  <2>1. Top(t).do \in {"joinChat", "leaveChat"} /\ Continue(t, <<>>)
    BY <1>2 DEF ChangeRoom
  <2>2. stack' = [stack EXCEPT ![t] = <<>> \o Tail(stack[t])]
    BY <2>1 DEF Continue
  <2>3. QED
    BY <1>0, <1>1, <2>1, <2>2
<1>3. CASE ReleaseLock(t)
  <2>1. PICK l \in Lock : Top(t) = LeaveFrame(l) /\ Continue(t, <<>>)
    BY <1>3 DEF ReleaseLock, Leave
  <2>2. Top(t).do = "leave"
    BY <2>1 DEF LeaveFrame
  <2>3. stack' = [stack EXCEPT ![t] = <<>> \o Tail(stack[t])]
    BY <2>1 DEF Continue
  <2>4. QED
    BY <1>0, <1>1, <2>2, <2>3
<1>4. CASE WaitForLock(t)
  BY <1>4 DEF WaitForLock, Wait
<1>5. CASE SendToUser(t)
  <2>1. Top(t).user \in User /\ Top(t).msg \in Message \cup {Reply}
    BY <1>1, <1>5, FrameArguments DEF SendToUser, Runs
  <2>2. Registered(Top(t).user) => user_connections[Top(t).user] \in Conn
    BY <2>1 DEF Registered, SocketsTypeOK
  <2>3. Registered(Top(t).user) =>
          <<[do |-> "sendJson", user |-> Top(t).user, msg |-> Top(t).msg,
             conn |-> user_connections[Top(t).user]]>> \in Frames
    BY <2>1, <2>2, FramesMade DEF Frames
  <2>4. QED
    BY <1>0, <1>1, <1>5, <2>3 DEF SendToUser, Continue, Pause, Runs
<1>6. CASE SendJson(t)
  <2>1. Top(t).user \in User
    BY <1>1, <1>6, FrameArguments DEF SendJson, Runs
  <2>2. <<DisconnectFrame(Top(t).user)>> \in Frames
    BY <2>1, FramesMade DEF Frames
  <2>3. QED
    BY <1>0, <1>1, <1>6, <2>2 DEF SendJson, Continue, Runs
<1>7. CASE BroadcastToChat(t)
  <2>1. Top(t).chat \in Chat /\ Top(t).msg \in Message
    BY <1>1, <1>7, FrameArguments DEF BroadcastToChat, Runs
  <2>2. chat_connections[Top(t).chat] \ {Top(t).except} \in SUBSET User
    BY <2>1 DEF SocketsTypeOK
  <2>3. <<[do |-> "each", users |-> chat_connections[Top(t).chat] \ {Top(t).except},
           msg |-> Top(t).msg]>> \in Frames
    BY <2>1, <2>2, FramesMade DEF Frames
  <2>4. QED
    BY <1>0, <1>7, <2>3 DEF BroadcastToChat, Continue, Runs
<1>8. CASE BroadcastToRole(t)
  <2>1. role_connections \ {Top(t).except} \in SUBSET User /\ Reply \in Message \cup {Reply}
    BY DEF SocketsTypeOK
  <2>2. [do |-> "each", users |-> role_connections \ {Top(t).except}, msg |-> Reply]
          \in SocketFrame
    BY <2>1, FramesMade
  <2>3. <<[do |-> "each", users |-> role_connections \ {Top(t).except}, msg |-> Reply]>>
          \in Frames
    BY <2>2 DEF Frames
  <2>4. QED
    BY <1>0, <1>8, <2>3 DEF BroadcastToRole, Passes, Continue, Runs
<1>9. CASE Each(t)
  <2>1. CASE Passes(t, <<>>)
    BY <1>0, <1>1, <1>9, <2>1 DEF Each, Passes, Continue, Runs
  <2>2. ASSUME NEW u \in Top(t).users, Serve(t, u, Top(t).users \ {u})
        PROVE  \E new \in Frames : stack' = [stack EXCEPT ![t] = new \o Tail(stack[t])]
    <3>1. Top(t).users \subseteq User /\ Top(t).msg \in Message \cup {Reply}
      BY <1>1, <1>9, FrameArguments DEF Each, Runs
    <3>2. /\ [SendFrame(u) EXCEPT !.msg = Top(t).msg] \in SocketFrame
          /\ [do |-> "each", users |-> Top(t).users \ {u}, msg |-> Top(t).msg] \in SocketFrame
      BY <3>1, FramesMade
    <3>3. <<[SendFrame(u) EXCEPT !.msg = Top(t).msg],
            [do |-> "each", users |-> Top(t).users \ {u}, msg |-> Top(t).msg]>> \in Frames
      BY <3>2 DEF Frames
    <3>4. QED
      BY <2>2, <3>3 DEF Serve, Passes, Continue
  <2>3. QED
    BY <1>0, <1>9, <2>1, <2>2 DEF Each, Runs
<1>10. QED
  BY <1>2, <1>3, <1>4, <1>5, <1>6, <1>7, <1>8, <1>9 DEF ManagerStep

LEMMA OutsideShape ==
  ASSUME SocketsTypeOK, UserKnown, NEW c \in Conn, Receive(c) \/ QueueReturns(c)
  PROVE  /\ Busy(c) /\ Top(c).do \notin {"finally", "disconnect"}
         /\ user_id' = user_id
         /\ \E new \in Frames : stack' = [stack EXCEPT ![c] = new \o Tail(stack[c])]
<1>1. c \in Task /\ Busy(c) /\ user_id[c] \in User /\ <<>> \in Frames
  BY TasksApart DEF Receive, QueueReturns, Runs, Scheduled, UserKnown, Frames
<1>2. CASE Receive(c)
  <2>1. PICK m \in Message :
          Uses(m) /\ \E s \in HandlerFrames(c, m) : Continue(c, s \o <<Top(c)>>)
    BY <1>2 DEF Receive
  <2> PICK s \in HandlerFrames(c, m) : Continue(c, s \o <<Top(c)>>)
    BY <2>1
  <2>2. s \in Frames /\ <<Top(c)>> \in Frames
    BY <1>1, HandlerFramesType, TopType DEF Frames
  <2>3. s \o <<Top(c)>> \in Frames
    BY <2>2, ConcatProperties DEF Frames
  <2>4. user_id' = user_id
    BY <2>1 DEF Uses, session
  <2>5. QED
    BY <1>1, <1>2, <2>3, <2>4 DEF Receive, Runs, Continue
<1>3. CASE QueueReturns(c)
  BY <1>1, <1>3 DEF QueueReturns, Runs, Pause, world, session
<1>4. QED
  BY <1>2, <1>3

\* A task of a session, after new frames have come in the place of its top one.
LEMMA StepKeepsEnd ==
  ASSUME SocketsTypeOK, SessionsEnd, NEW c \in Conn, Busy(c),
         Top(c).do \notin {"finally", "disconnect"}, user_id'[c] = user_id[c],
         NEW new \in Frames,
         \/ stack'[c] = new \o Tail(stack[c])
         \/ stack'[c] = new \o <<[do |-> "finally"]>>
  PROVE  stack'[c] # <<>> /\ LastFrame(stack'[c]) \in CleanUp(c)'
<1>1. stack[c] \in Frames /\ stack[c] # <<>> /\ c \in Task
  BY TasksApart, TopType DEF Busy
<1>2. LastFrame(stack[c]) \in CleanUp(c) /\ CleanUp(c)' = CleanUp(c)
  BY DEF SessionsEnd, CleanUp, DisconnectFrame
<1>3. CASE stack'[c] = new \o Tail(stack[c])
  <2>1. Tail(stack[c]) # <<>>
    <3>1. Tail(stack[c]) = <<>> => LastFrame(stack[c]) = Top(c)
      BY <1>1, TailKeepsLast DEF Top
    <3>2. QED
      BY <1>2, <3>1 DEF CleanUp, DisconnectFrame
  <2>2. QED
    BY <1>1, <1>2, <1>3, <2>1, TailKeepsLast
<1>4. CASE stack'[c] = new \o <<[do |-> "finally"]>>
  <2> DEFINE end == <<[do |-> "finally"], [do |-> "finally"]>>
  <2>1. end \in Frames /\ end # <<>> /\ Tail(end) = <<[do |-> "finally"]>> /\ Tail(end) # <<>>
    BY FramesMade DEF Frames
  <2>2. LastFrame(end) = [do |-> "finally"]
    BY DEF LastFrame
  <2> HIDE DEF end
  <2>3. new \o Tail(end) # <<>> /\ LastFrame(new \o Tail(end)) = LastFrame(end)
    BY <2>1, TailKeepsLast
  <2>4. QED
    BY <1>4, <2>1, <2>2, <2>3 DEF CleanUp
<1>5. QED
  BY <1>3, <1>4

LEMMA FinallyKeepsEnd ==
  ASSUME SocketsTypeOK, UserKnown, SessionsEnd, NEW c \in Conn, Finally(c)
  PROVE  stack'[c] # <<>> /\ LastFrame(stack'[c]) \in CleanUp(c)'
<1>1. c \in Task /\ Busy(c) /\ user_id[c] \in User
  BY TasksApart DEF Finally, Runs, Scheduled, UserKnown
<1>2. stack[c] \in Frames /\ stack[c] # <<>>
  BY <1>1, TopType
<1>3. /\ user_id' = user_id
      /\ stack'[c] = ((IF chat_id[c] = NoChat THEN <<>>
                       ELSE <<RoomFrame("leaveChat", user_id[c], chat_id[c])>>)
                      \o <<QueueFrame, DisconnectFrame(user_id[c])>>) \o Tail(stack[c])
  BY <1>1 DEF Finally, Passes, Continue, world, session, SocketsTypeOK
<1>4. chat_id[c] \in Chat \cup {NoChat}
  BY DEF SocketsTypeOK
<1>5. PICK pre \in Frames :
        stack'[c] = (pre \o <<QueueFrame, DisconnectFrame(user_id[c])>>) \o Tail(stack[c])
  <2>1. (IF chat_id[c] = NoChat THEN <<>>
         ELSE <<RoomFrame("leaveChat", user_id[c], chat_id[c])>>) \in Frames
    BY <1>1, <1>4, FramesMade DEF Frames
  <2>2. QED
    BY <1>3, <2>1
<1>6. <<QueueFrame, QueueFrame, DisconnectFrame(user_id[c])>> \in Frames
  BY <1>1, FramesMade DEF Frames, QueueFrame
<1>7. PICK end \in Frames :
        /\ end = <<QueueFrame, QueueFrame, DisconnectFrame(user_id[c])>>
        /\ end # <<>> /\ Tail(end) # <<>>
        /\ Tail(end) = <<QueueFrame, DisconnectFrame(user_id[c])>>
  <2>1. \A q, d : Tail(<<q, q, d>>) = <<q, d>> /\ <<q, d>> # <<>> /\ <<q, q, d>> # <<>>
    OBVIOUS
  <2>2. QED
    BY <1>6, <2>1
<1>8. LastFrame(end) = DisconnectFrame(user_id[c])
  BY <1>7 DEF LastFrame
<1>9. PICK new \in Frames :
        /\ new = pre \o Tail(end) /\ new # <<>> /\ LastFrame(new) = DisconnectFrame(user_id[c])
  <2>1. pre \o Tail(end) # <<>> /\ LastFrame(pre \o Tail(end)) = LastFrame(end)
    BY <1>7, TailKeepsLast
  <2>2. pre \o Tail(end) \in Frames
    BY <1>7, HeadTailProperties, ConcatProperties DEF Frames
  <2>3. QED
    BY <1>8, <2>1, <2>2
<1>10. stack'[c] = new \o Tail(stack[c])
  BY <1>5, <1>7, <1>9
<1>11. \/ /\ new \o Tail(stack[c]) # <<>>
          /\ LastFrame(new \o Tail(stack[c])) = LastFrame(stack[c])
       \/ /\ new \o Tail(stack[c]) # <<>>
          /\ LastFrame(new \o Tail(stack[c])) = LastFrame(new)
  BY <1>2, <1>9, TailKeepsLast
<1>12. LastFrame(stack[c]) \in CleanUp(c) /\ CleanUp(c)' = CleanUp(c)
  BY <1>1, <1>3 DEF SessionsEnd, CleanUp, DisconnectFrame
<1>13. QED
  BY <1>9, <1>10, <1>11, <1>12 DEF CleanUp

\* A session that disconnects a user goes on, or it is over and the user was its own.
LEMMA DisconnectKeepsEnd ==
  ASSUME SocketsTypeOK, SessionsEnd, NEW c \in Conn, DisconnectUser(c)
  PROVE  \/ stack'[c] # <<>> /\ LastFrame(stack'[c]) \in CleanUp(c)'
         \/ stack'[c] = <<>> /\ Top(c).user = user_id[c]
<1>1. /\ c \in Task /\ Busy(c) /\ user_id' = user_id
      /\ Top(c).do = "disconnect" /\ stack'[c] = <<>> \o Tail(stack[c])
  BY TasksApart DEF DisconnectUser, Runs, Scheduled, Continue, world, session, SocketsTypeOK
<1>2. stack[c] \in Frames /\ stack[c] # <<>> /\ <<>> \in Frames
  BY <1>1, TopType DEF Frames
<1>3. LastFrame(stack[c]) \in CleanUp(c) /\ CleanUp(c)' = CleanUp(c)
  BY <1>1 DEF SessionsEnd, CleanUp, DisconnectFrame
<1>4. CASE Tail(stack[c]) # <<>>
  BY <1>1, <1>2, <1>3, <1>4, TailKeepsLast
<1>5. CASE Tail(stack[c]) = <<>>
  <2>1. LastFrame(stack[c]) = Top(c)
    BY <1>2, <1>5, TailKeepsLast DEF Top
  <2>2. Top(c) = DisconnectFrame(user_id[c])
    BY <1>1, <1>3, <2>1 DEF CleanUp
  <2>3. stack'[c] = <<>>
    BY <1>1, <1>5
  <2>4. QED
    BY <2>2, <2>3 DEF DisconnectFrame
<1>6. QED
  BY <1>4, <1>5

\* Of a session in a step: it may begin; one that is on goes on with its clean-up
\* at the end, or this is the step that disconnects its own user, and it is over.
SessionGoesOn(c) ==
  \/ Open(c) /\ ~Busy(c)
  \/ Busy(c) => /\ user_id'[c] = user_id[c]
                /\ \/ stack'[c] # <<>> /\ LastFrame(stack'[c]) \in CleanUp(c)'
                   \/ DisconnectUser(c) /\ stack'[c] = <<>> /\ Top(c).user = user_id[c]

\* No other session begins in the step.
NotBegun(c) == Open(c) \/ (~Busy(c) => stack'[c] = <<>>)

LEMMA OthersGoOn ==
  ASSUME SocketsTypeOK, SessionsEnd, NEW c \in Conn, stack'[c] = stack[c],
         user_id'[c] = user_id[c]
  PROVE  SessionGoesOn(c) /\ NotBegun(c)
<1>1. Busy(c) => LastFrame(stack[c]) \in CleanUp(c) /\ stack[c] # <<>>
  BY DEF SessionsEnd, Busy
<1>2. CleanUp(c)' = CleanUp(c)
  BY DEF CleanUp, DisconnectFrame
<1>3. QED
  BY <1>1, <1>2 DEF SessionGoesOn, NotBegun, Busy

LEMMA SessionsGoOn ==
  ASSUME SocketsTypeOK, UserKnown, SessionsEnd, [SocketsNext]_socketVars, NEW c \in Conn
  PROVE  SessionGoesOn(c) /\ NotBegun(c)
<1>0. c \in Task /\ c \notin Notifier
  BY TasksApart
<1>1. CASE UNCHANGED socketVars
  BY <1>1, OthersGoOn DEF socketVars, asyncVars, world, session
<1>2. ASSUME NEW d \in Conn, Open(d)
      PROVE  SessionGoesOn(c) /\ NotBegun(c)
  <2>1. CASE d = c
    BY <1>2, <2>1 DEF Open, SessionGoesOn, NotBegun
  <2>2. CASE d # c
    <3>1. stack'[c] = stack[c] /\ user_id'[c] = user_id[c]
      BY <1>0, <1>2, <2>2 DEF Open, SocketsTypeOK
    <3>2. QED
      BY <3>1, OthersGoOn
  <2>3. QED
    BY <2>1, <2>2
<1>3. ASSUME NEW d \in Conn, Break(d)
      PROVE  SessionGoesOn(c) /\ NotBegun(c)
  BY <1>3, OthersGoOn DEF Break, asyncVars, session
<1>4. ASSUME NEW d \in Conn, Receive(d) \/ QueueReturns(d)
      PROVE  SessionGoesOn(c) /\ NotBegun(c)
  <2>1. /\ Busy(d) /\ Top(d).do \notin {"finally", "disconnect"} /\ user_id' = user_id
        /\ \E new \in Frames : stack' = [stack EXCEPT ![d] = new \o Tail(stack[d])]
    BY <1>4, OutsideShape
  <2>2. PICK new \in Frames : stack' = [stack EXCEPT ![d] = new \o Tail(stack[d])]
    BY <2>1
  <2>3. CASE d = c
    <3>1. stack'[c] = new \o Tail(stack[c])
      BY <1>0, <2>2, <2>3 DEF SocketsTypeOK
    <3>2. stack'[c] # <<>> /\ LastFrame(stack'[c]) \in CleanUp(c)'
      BY <2>1, <2>3, <3>1, StepKeepsEnd
    <3>3. QED
      BY <2>1, <2>3, <3>2 DEF SessionGoesOn, NotBegun
  <2>4. CASE d # c
    <3>1. stack'[c] = stack[c]
      BY <1>0, <2>2, <2>4 DEF SocketsTypeOK
    <3>2. QED
      BY <2>1, <3>1, OthersGoOn
  <2>5. QED
    BY <2>3, <2>4
<1>5. ASSUME NEW t \in Notifier, Notify(t)
      PROVE  SessionGoesOn(c) /\ NotBegun(c)
  <2>1. stack'[c] = stack[c] /\ user_id' = user_id
    BY <1>0, <1>5 DEF Notify, Uses, session, SocketsTypeOK
  <2>2. QED
    BY <2>1, OthersGoOn
<1>6. ASSUME NEW d \in Conn, SessionStep(d)
      PROVE  SessionGoesOn(c) /\ NotBegun(c)
  <2>1. Busy(d) /\ user_id' = user_id
    BY <1>6
      DEF SessionStep, FindChat, CreateChat, ConnectUser, Accept, ClosePrevious, Register,
          AwaitOutside, PeerGone, Finally, Passes, Runs, Scheduled, world, session
  <2>2. CASE d # c
    <3>1. stack'[c] = stack[c]
      BY <1>0, <1>6, <2>2
        DEF SessionStep, FindChat, CreateChat, ConnectUser, Accept, ClosePrevious, Register,
            AwaitOutside, PeerGone, Finally, Passes, Continue, Pause, Throw, SocketsTypeOK
    <3>2. QED
      BY <2>1, <3>1, OthersGoOn
  <2>3. CASE d = c
    <3>1. stack'[c] # <<>> /\ LastFrame(stack'[c]) \in CleanUp(c)'
      <4>1. CASE Finally(c)
        BY <4>1, FinallyKeepsEnd
      <4>2. CASE ~Finally(c)
        <5>1. PICK new \in Frames :
                \/ stack' = [stack EXCEPT ![c] = new \o Tail(stack[c])]
                \/ stack' = [stack EXCEPT ![c] = new \o <<[do |-> "finally"]>>]
          BY <1>6, <2>3, <4>2, SessionStepShape
        <5>2. \/ stack'[c] = new \o Tail(stack[c])
              \/ stack'[c] = new \o <<[do |-> "finally"]>>
          BY <1>0, <5>1 DEF SocketsTypeOK
        <5>3. Top(c).do \notin {"finally", "disconnect"}
          BY <1>6, <2>3, <4>2, SessionStepShape
        <5>4. QED
          BY <2>1, <2>3, <5>2, <5>3, StepKeepsEnd
      <4>3. QED
        BY <4>1, <4>2
    <3>2. QED
      BY <2>1, <2>3, <3>1 DEF SessionGoesOn, NotBegun
  <2>4. QED
    BY <2>2, <2>3
<1>7. ASSUME NEW t \in Task, ManagerStep(t)
      PROVE  SessionGoesOn(c) /\ NotBegun(c)
  <2>1. user_id' = user_id /\ Busy(t)
    BY <1>7
      DEF ManagerStep, ChangeRoom, DisconnectUser, ReleaseLock, Leave, WaitForLock, SendToUser,
          SendJson, BroadcastToChat, BroadcastToRole, Each, Serve, Passes, Runs, Scheduled,
          world, session
  <2>2. CASE t # c
    <3>1. stack'[c] = stack[c]
      BY <1>0, <1>7, <2>2
        DEF ManagerStep, ChangeRoom, DisconnectUser, ReleaseLock, Leave, WaitForLock, Wait,
            SendToUser, SendJson, BroadcastToChat, BroadcastToRole, Each, Serve, Passes,
            Continue, Pause, SocketsTypeOK
    <3>2. QED
      BY <2>1, <3>1, OthersGoOn
  <2>3. CASE t = c /\ DisconnectUser(c)
    <3>1. \/ stack'[c] # <<>> /\ LastFrame(stack'[c]) \in CleanUp(c)'
          \/ stack'[c] = <<>> /\ Top(c).user = user_id[c]
      BY <2>3, DisconnectKeepsEnd
    <3>2. QED
      BY <2>1, <2>3, <3>1 DEF SessionGoesOn, NotBegun
  <2>4. CASE t = c /\ ~DisconnectUser(c)
    <3>1. CASE stack' = stack
      BY <2>1, <3>1, OthersGoOn
    <3>2. ASSUME Top(c).do \notin {"finally", "disconnect"}, NEW new \in Frames,
                 stack' = [stack EXCEPT ![c] = new \o Tail(stack[c])]
          PROVE  SessionGoesOn(c) /\ NotBegun(c)
      <4>1. stack'[c] = new \o Tail(stack[c])
        BY <1>0, <3>2 DEF SocketsTypeOK
      <4>2. stack'[c] # <<>> /\ LastFrame(stack'[c]) \in CleanUp(c)'
        BY <2>1, <2>4, <3>2, <4>1, StepKeepsEnd
      <4>3. QED
        BY <2>1, <2>4, <4>2 DEF SessionGoesOn, NotBegun
    <3>3. QED
      BY <1>7, <2>4, <3>1, <3>2, ManagerStepShape
  <2>5. QED
    BY <2>2, <2>3, <2>4
<1>8. QED
  BY <1>1, <1>2, <1>3, <1>4, <1>5, <1>6, <1>7 DEF SocketsNext, Outside

LEMMA SessionsEndNext ==
  ASSUME SocketsTypeOK, UserKnown, SessionsEnd, [SocketsNext]_socketVars
  PROVE  SessionsEnd'
<1> SUFFICES ASSUME NEW c \in Conn, Busy(c)'
             PROVE  LastFrame(stack'[c]) \in CleanUp(c)'
  BY DEF SessionsEnd
<1>1. SessionGoesOn(c) /\ NotBegun(c)
  BY SessionsGoOn
<1>2. CASE Open(c)
  <2>1. stack'[c] = <<[do |-> "findChat"], [do |-> "finally"]>>
    BY <1>2, TasksApart DEF Open, SocketsTypeOK
  <2>2. LastFrame(stack'[c]) = [do |-> "finally"]
    BY <2>1 DEF LastFrame
  <2>3. QED
    BY <2>2 DEF CleanUp
<1>3. CASE ~Open(c)
  BY <1>1, <1>3 DEF SessionGoesOn, NotBegun, Busy
<1>4. QED
  BY <1>2, <1>3

LEMMA NoConnectionLeftBehindNext ==
  ASSUME SocketsTypeOK, UserKnown, SessionsEnd, NoConnectionLeftBehind,
         [SocketsNext]_socketVars
  PROVE  NoConnectionLeftBehind'
<1> SUFFICES ASSUME NEW u \in User, user_connections'[u] # NoConn
             PROVE  user_connections'[u] \in Sessions(u)'
  BY DEF NoConnectionLeftBehind, Registered
<1>1. ASSUME user_connections'[u] = user_connections[u],
             \A c \in Conn : DisconnectUser(c) => Top(c).user # u
      PROVE  user_connections'[u] \in Sessions(u)'
  <2>1. PICK c \in Conn : c = user_connections[u] /\ user_id[c] = u /\ Busy(c)
    BY <1>1 DEF NoConnectionLeftBehind, Registered, Sessions
  <2>2. SessionGoesOn(c)
    BY SessionsGoOn
  <2>3. user_id'[c] = u /\ stack'[c] # <<>>
    BY <1>1, <2>1, <2>2 DEF SessionGoesOn
  <2>4. QED
    BY <1>1, <2>1, <2>3 DEF Sessions, Busy
<1>2. CASE UNCHANGED books /\ \A t \in Task : ~DisconnectUser(t)
  BY <1>1, <1>2, TasksApart DEF books
<1>3. ASSUME NEW t \in Task, DisconnectUser(t)
      PROVE  user_connections'[u] \in Sessions(u)'
  <2>1. Top(t).user # u /\ user_connections'[u] = user_connections[u]
    BY <1>3 DEF DisconnectUser, SocketsTypeOK
  <2>2. \A c \in Conn : DisconnectUser(c) => Top(c).user # u
    BY <1>3, <2>1 DEF DisconnectUser, SocketsTypeOK
  <2>3. QED
    BY <1>1, <2>1, <2>2
<1>4. ASSUME NEW d \in Conn, Register(d), \A t \in Task : ~DisconnectUser(t)
      PROVE  user_connections'[u] \in Sessions(u)'
  <2>1. CASE user_id[d] = u
    <3>1. user_connections'[u] = d /\ Busy(d) /\ user_id' = user_id
      BY <1>4, <2>1 DEF Register, Runs, Scheduled, world, session, SocketsTypeOK
    <3>2. SessionGoesOn(d) /\ ~DisconnectUser(d)
      BY <1>4, TasksApart, SessionsGoOn
    <3>3. stack'[d] # <<>>
      BY <3>1, <3>2 DEF SessionGoesOn
    <3>4. QED
      BY <2>1, <3>1, <3>3 DEF Sessions, Busy
  <2>2. CASE user_id[d] # u
    <3>1. user_connections'[u] = user_connections[u]
      BY <1>4, <2>2 DEF Register, SocketsTypeOK
    <3>2. QED
      BY <1>1, <1>4, <3>1, TasksApart
  <2>3. QED
    BY <2>1, <2>2
<1>5. QED
  BY <1>2, <1>3, <1>4, WritersOfBooks

\* Whatever the order in which the sessions of a user register, break and clean up,
\* a connection in the books is one whose session is not over.
THEOREM NoConnectionIsLeftBehind == SocketsSpec => []NoConnectionLeftBehind
<1>1. SocketsInit => SessionsEnd /\ NoConnectionLeftBehind
  <2> SUFFICES ASSUME SocketsInit PROVE SessionsEnd /\ NoConnectionLeftBehind
    OBVIOUS
  <2>1. SessionsEnd
    BY TasksApart DEF SocketsInit, AsyncInit, SessionsEnd, Busy
  <2>2. NoConnectionLeftBehind
    BY DEF SocketsInit, NoConnectionLeftBehind, Registered
  <2>3. QED
    BY <2>1, <2>2
<1>2. QED
  BY <1>1, SocketsInitType, SocketsNextType, SessionsEndNext, NoConnectionLeftBehindNext, PTL
    DEF SocketsSpec

-----------------------------------------------------------------------------
(* What is where on the stacks.                                            *)

\* The frames of a session that has not been written down yet; those of a call of
\* connect_user that has the lock.
Starting == {"findChat", "createChat", "connect", "accept", "closePrevious", "register"}
Connecting == {"accept", "closePrevious", "register"}

\* A frame with a message that is somebody's, and not just a reply.
Carrying(f) == f.do \in {"broadcast", "each", "send", "sendJson"} /\ f.msg \in Message

\* What frame f, which is to run first, may stand above.
Above(f, g) ==
  /\ g.do \in Starting => f.do = "closePrevious" /\ g.do = "register"
  /\ f.do \in Starting \cup {"receive"} => ~Carrying(g)
  /\ g.do = "leave" => f.do \in Connecting
  /\ f.do # "finally"

Ordered(s) == \A i, j \in DOMAIN s : i < j => Above(s[i], s[j])

Has(t, kinds) == \E i \in DOMAIN stack[t] : stack[t][i].do \in kinds

StacksOrdered == \A t \in Task : Ordered(stack[t])

\* The lock is held by the task that has still to leave it, as has any that is in
\* connect_user.
LockOK ==
  \A t \in Task : /\ holder["sockets"] = t <=> Has(t, {"leave"})
                  /\ Has(t, Connecting) => Has(t, {"leave"})

\* The states of a connection, and its session.
ConnOK ==
  \A c \in Conn :
    /\ socket[c] = "new" => ~Busy(c) /\ user_id[c] = NoUser
    /\ Has(c, {"findChat", "createChat", "connect", "accept"}) => socket[c] = "opening"
    /\ Has(c, {"closePrevious", "register"}) => socket[c] \in {"open", "closed"}
    /\ Has(c, {"closePrevious"}) => Has(c, {"register"})

\* A connection that has been in the books does not enter them again.
Settled(c) == socket[c] \in {"open", "closed"} /\ ~Has(c, Starting)

SettledOK ==
  /\ \A u \in User : Registered(u) => Settled(user_connections[u])
  /\ \A m \in Message : \A c \in addressed[m] \ {NoConn} : Settled(c) /\ user_id[c] \in User

\* Frame f will send m on c.
Carries(f, m, c) ==
  \/ f.do = "each" /\ f.msg = m /\ user_id[c] \in f.users
  \/ f.do = "send" /\ f.msg = m /\ f.user = user_id[c]
  \/ f.do = "sendJson" /\ f.msg = m /\ f.conn = c

OnItsWay(m, c) == \E t \in Task : \E i \in DOMAIN stack[t] : Carries(stack[t][i], m, c)

DeliveryOK ==
  \A m \in Message : \A c \in addressed[m] \ {NoConn} :
    user_connections[user_id[c]] = c /\ socket[c] = "open" => m \in inbox[c] \/ OnItsWay(m, c)

\* A session that is alone is the only one of its user.
AloneOK ==
  \A c, d \in Conn : Busy(c) /\ Busy(d) /\ c # d /\ user_id[c] = user_id[d] => ~alone[c]

ChatsOK ==
  /\ \A c \in Conn : alone[c] /\ Has(c, {"createChat"}) => \A ch \in Chat : owner[ch] # user_id[c]
  /\ \A u \in User : (\A c \in Conn : user_id[c] = u => alone[c])
       => \A ch1, ch2 \in Chat : owner[ch1] = u /\ owner[ch2] = u => ch1 = ch2

\* Who sends to the user of a session that is alone sends on its connection, and
\* who disconnects him does so because it is closed, or the session is over.
SentOK ==
  \A c \in Conn, t \in Task : \A i \in DOMAIN stack[t] :
    LET f == stack[t][i] IN
    Busy(c) /\ alone[c] /\ f.do \in {"sendJson", "disconnect"} /\ f.user = user_id[c] =>
      /\ f.do = "sendJson" => f.conn = c
      /\ f.do = "disconnect" =>
           socket[c] = "closed" \/ (t = c /\ ~Has(c, Starting \cup {"receive"}))

ConnectedOK ==
  \A c \in Conn :
    alone[c] /\ socket[c] = "open" /\ Has(c, {"receive"}) /\ ~Has(c, Starting)
      => user_connections[user_id[c]] = c

In(f, s) == \E i \in DOMAIN s : s[i] = f

\* The positions of frames put on top of others, and of what is under the top.
LEMMA ConcatPositions ==
  ASSUME NEW a \in Frames, NEW b \in Frames
  PROVE  \E k, n \in Nat :
           /\ DOMAIN a = 1..k /\ DOMAIN b = 1..n /\ DOMAIN (a \o b) = 1..(k + n)
           /\ \A i \in 1..k : (a \o b)[i] = a[i]
           /\ \A i \in 1..n : (a \o b)[k + i] = b[i]
<1>1. PICK k \in Nat, n \in Nat : k = Len(a) /\ n = Len(b)
  BY LenProperties DEF Frames
<1>2. DOMAIN a = 1..k /\ DOMAIN b = 1..n
  BY <1>1, LenProperties DEF Frames
<1>3. PICK e \in Frames : e = a \o b
  BY ConcatProperties DEF Frames
<1>4. /\ Len(e) = k + n
      /\ \A i \in 1..(k + n) : e[i] = IF i <= k THEN a[i] ELSE b[i - k]
  BY <1>1, <1>3, ConcatProperties DEF Frames
<1>5. DOMAIN e = 1..(k + n)
  BY <1>4, LenProperties DEF Frames
<1>6. \A i \in 1..k : e[i] = a[i]
  BY <1>1, <1>4
<1>7. \A i \in 1..n : e[k + i] = b[i]
  <2> TAKE i \in 1..n
  <2>1. k + i \in 1..(k + n) /\ ~(k + i <= k) /\ (k + i) - k = i
    BY <1>1
  <2>2. QED
    BY <1>4, <2>1
<1>8. QED
  BY <1>1, <1>2, <1>3, <1>5, <1>6, <1>7

LEMMA TailPositions ==
  ASSUME NEW s \in Frames, s # <<>>
  PROVE  /\ Head(s) = s[1] /\ Head(s) \in SocketFrame /\ Tail(s) \in Frames
         /\ \E n \in Nat : /\ DOMAIN s = 1..(n + 1) /\ DOMAIN Tail(s) = 1..n
                           /\ \A i \in 1..n : Tail(s)[i] = s[i + 1]
<1>1. Head(s) = s[1] /\ Head(s) \in SocketFrame /\ Tail(s) \in Frames
  BY HeadTailProperties DEF Frames
<1>2. PICK n \in Nat : n = Len(Tail(s))
  BY <1>1, LenProperties DEF Frames
<1>3. PICK m \in Nat : m = Len(s)
  BY LenProperties DEF Frames
<1>4. n = m - 1
  BY <1>2, <1>3, HeadTailProperties DEF Frames
<1>5. DOMAIN s = 1..m /\ DOMAIN Tail(s) = 1..n
  BY <1>1, <1>2, <1>3, LenProperties DEF Frames
<1>6. \A i \in 1..n : Tail(s)[i] = s[i + 1]
  BY <1>2, HeadTailProperties DEF Frames
<1>7. m = n + 1
  BY <1>2, <1>3, <1>4
<1>8. QED
  BY <1>1, <1>2, <1>5, <1>6, <1>7

\* What is in them.
LEMMA InConcat ==
  ASSUME NEW a \in Frames, NEW b \in Frames
  PROVE  \A f : In(f, a \o b) <=> In(f, a) \/ In(f, b)
<1> DEFINE e == a \o b
<1>1. PICK k \in Nat, n \in Nat :
        /\ DOMAIN a = 1..k /\ DOMAIN b = 1..n /\ DOMAIN e = 1..(k + n)
        /\ \A i \in 1..k : e[i] = a[i]
        /\ \A i \in 1..n : e[k + i] = b[i]
  BY ConcatPositions
<1> HIDE DEF e
<1>2. \A i \in 1..(k + n) : i \in 1..k \/ (i - k \in 1..n /\ k + (i - k) = i)
  BY <1>1
<1>3. \A i \in 1..k : i \in 1..(k + n)
  BY <1>1
<1>4. \A i \in 1..n : k + i \in 1..(k + n)
  BY <1>1
<1>5. ASSUME NEW f PROVE In(f, e) <=> In(f, a) \/ In(f, b)
  <2>1. In(f, e) => In(f, a) \/ In(f, b)
    BY <1>1, <1>2 DEF In
  <2>2. In(f, a) => In(f, e)
    BY <1>1, <1>3 DEF In
  <2>3. In(f, b) => In(f, e)
    BY <1>1, <1>4 DEF In
  <2>4. QED
    BY <2>1, <2>2, <2>3
<1>6. QED
  BY <1>5 DEF e

LEMMA InTail ==
  ASSUME NEW s \in Frames, s # <<>>
  PROVE  \A f : In(f, s) <=> f = Head(s) \/ In(f, Tail(s))
<1> DEFINE r == Tail(s)
<1>1. Head(s) = s[1]
  BY TailPositions
<1>2. PICK n \in Nat : /\ DOMAIN s = 1..(n + 1) /\ DOMAIN r = 1..n
                       /\ \A i \in 1..n : r[i] = s[i + 1]
  BY TailPositions
<1> HIDE DEF r
<1>3. \A i \in 1..(n + 1) : i = 1 \/ (i - 1 \in 1..n /\ (i - 1) + 1 = i)
  BY <1>2
<1>4. \A i \in 1..n : i + 1 \in 1..(n + 1)
  BY <1>2
<1>5. 1 \in 1..(n + 1)
  BY <1>2
<1>6. ASSUME NEW f PROVE In(f, s) <=> f = s[1] \/ In(f, r)
  <2>1. ASSUME In(f, s) PROVE f = s[1] \/ In(f, r)
    <3>1. PICK i \in 1..(n + 1) : f = s[i]
      BY <1>2, <2>1 DEF In
    <3>2. i # 1 => f = r[i - 1] /\ i - 1 \in DOMAIN r
      BY <1>2, <1>3, <3>1
    <3> QED BY <3>1, <3>2 DEF In
  <2>2. In(f, r) => In(f, s)
    BY <1>2, <1>4 DEF In
  <2>3. f = s[1] => In(f, s)
    BY <1>2, <1>5 DEF In
  <2>4. QED
    BY <2>1, <2>2, <2>3
<1>7. QED
  BY <1>1, <1>6 DEF r

LEMMA InShort ==
  /\ \A f : ~In(f, <<>>)
  /\ \A f, x : In(f, <<x>>) <=> f = x
  /\ \A f, x, y : In(f, <<x, y>>) <=> f \in {x, y}
  BY DEF In

LEMMA InFrames ==
  ASSUME NEW D, NEW s \in Seq(D), NEW f, In(f, s)
  PROVE  f \in D
  BY DEF In

LEMMA HasIn ==
  ASSUME NEW t, NEW kinds
  PROVE  Has(t, kinds) <=> \E f : In(f, stack[t]) /\ f.do \in kinds
  BY DEF Has, In

\* Frames that are in order, put on top of others they may stand above.
LEMMA ConcatOrdered ==
  ASSUME NEW a \in Frames, NEW b \in Frames, Ordered(a), Ordered(b),
         \A f, g : In(f, a) /\ In(g, b) => Above(f, g)
  PROVE  Ordered(a \o b)
<1> DEFINE e == a \o b
<1>1. PICK k \in Nat, n \in Nat :
        /\ DOMAIN a = 1..k /\ DOMAIN b = 1..n /\ DOMAIN e = 1..(k + n)
        /\ \A i \in 1..k : e[i] = a[i]
        /\ \A i \in 1..n : e[k + i] = b[i]
  BY ConcatPositions
<1> HIDE DEF e
<1>2. ASSUME NEW i \in 1..(k + n), NEW j \in 1..(k + n), i < j
      PROVE  Above(e[i], e[j])
  <2>1. CASE j <= k
    <3>1. i \in 1..k /\ j \in 1..k
      BY <1>1, <1>2, <2>1
    <3>2. QED
      BY <1>1, <1>2, <3>1 DEF Ordered
  <2>2. CASE ~(j <= k)
    <3>1. PICK q \in 1..n : j = k + q
      <4>1. j - k \in 1..n /\ j = k + (j - k)
        BY <1>1, <2>2
      <4>2. QED
        BY <4>1
    <3>2. e[j] = b[q]
      BY <1>1, <3>1
    <3>3. CASE i <= k
      <4>1. i \in 1..k
        BY <1>1, <3>3
      <4>2. In(e[i], a) /\ In(b[q], b)
        BY <1>1, <4>1 DEF In
      <4>3. QED
        BY <3>2, <4>2
    <3>4. CASE ~(i <= k)
      <4>1. PICK p \in 1..n : i = k + p
        <5>1. i - k \in 1..n /\ i = k + (i - k)
          BY <1>1, <3>4
        <5>2. QED
          BY <5>1
      <4>2. e[i] = b[p] /\ p < q
        BY <1>1, <1>2, <3>1, <4>1
      <4>3. QED
        BY <1>1, <3>2, <4>2 DEF Ordered
    <3>5. QED
      BY <3>3, <3>4
  <2>3. QED
    BY <2>1, <2>2
<1>3. Ordered(e)
  BY <1>1, <1>2 DEF Ordered
<1>4. QED
  BY <1>3 DEF e

LEMMA TailOrdered ==
  ASSUME NEW s \in Frames, s # <<>>, Ordered(s)
  PROVE  Ordered(Tail(s)) /\ \A g : In(g, Tail(s)) => Above(Head(s), g)
<1> DEFINE r == Tail(s)
<1>1. Head(s) = s[1]
  BY TailPositions
<1>2. PICK n \in Nat : /\ DOMAIN s = 1..(n + 1) /\ DOMAIN r = 1..n
                       /\ \A i \in 1..n : r[i] = s[i + 1]
  BY TailPositions
<1> HIDE DEF r
<1>3. \A i \in 1..n : i + 1 \in 1..(n + 1) /\ 1 < i + 1 /\ 1 \in 1..(n + 1)
  BY <1>2
<1>4. \A i, j \in 1..n : i < j => i + 1 < j + 1
  BY <1>2
<1>5. Ordered(r)
  BY <1>2, <1>3, <1>4 DEF Ordered
<1>6. \A g : In(g, r) => Above(s[1], g)
  BY <1>2, <1>3 DEF Ordered, In
<1>7. QED
  BY <1>1, <1>5, <1>6 DEF r

-----------------------------------------------------------------------------
(* What each action does to the stack of its task.                         *)

Doing(kinds) == {f \in SocketFrame : f.do \in kinds}

\* The top of t makes way for frames of these kinds; or an exception, or a call,
\* leaves nothing but them.
Pushes(t, kinds) ==
  /\ Busy(t)
  /\ \E new \in Seq(Doing(kinds)) : Ordered(new) /\ stack'[t] = new \o Tail(stack[t])

Drops(t, kinds) == \E new \in Seq(Doing(kinds)) : Ordered(new) /\ stack'[t] = new

LEMMA ShortSequences ==
  \A D : /\ <<>> \in Seq(D)
         /\ \A x, y \in D : <<x>> \in Seq(D) /\ <<x, y>> \in Seq(D)
  OBVIOUS

Then(s, t) == s \o t

LEMMA ThenFrames == \A s, t \in Frames : Then(s, t) \in Frames
BY ConcatProperties DEF Then, Frames

LEMMA ThenAssociative ==
  \A r, s, t \in Frames : Then(Then(r, s), t) = Then(r, Then(s, t))
BY ConcatAssociative DEF Then, Frames

LEMMA Regroup ==
  ASSUME NEW a \in Frames, NEW b \in Frames, NEW d \in Frames, NEW e \in Frames, NEW g \in Frames
  PROVE  Then(Then(Then(Then(a, b), d), e), g) = Then(a, Then(b, Then(d, Then(e, g))))
<1>1. /\ Then(a, b) \in Frames /\ Then(Then(a, b), d) \in Frames
      /\ Then(e, g) \in Frames /\ Then(d, Then(e, g)) \in Frames
  BY ThenFrames
<1>2. QED
  BY <1>1, ThenAssociative

LEMMA DoingFrames ==
  ASSUME NEW kinds, NEW s \in Seq(Doing(kinds))
  PROVE  s \in Frames
<1>1. s \in [1..Len(s) -> Doing(kinds)] /\ Len(s) \in Nat
  BY LenProperties
<1>2. s \in [1..Len(s) -> SocketFrame]
  BY <1>1 DEF Doing
<1>3. QED
  BY <1>1, <1>2 DEF Frames

Quiet(kinds) == kinds \cap (Starting \cup {"receive", "leave", "finally"}) = {}

LEMMA QuietOrdered ==
  ASSUME NEW kinds, Quiet(kinds), NEW s \in Seq(Doing(kinds))
  PROVE  Ordered(s)
<1> SUFFICES ASSUME NEW i \in DOMAIN s, NEW j \in DOMAIN s PROVE Above(s[i], s[j])
  BY DEF Ordered
<1>1. s[i] \in Doing(kinds) /\ s[j] \in Doing(kinds)
  BY LenProperties
<1>2. QED
  BY <1>1 DEF Above, Doing, Quiet

LEMMA ShortOrdered ==
  /\ Ordered(<<>>) /\ \A x : Ordered(<<x>>)
  /\ \A x, y : Above(x, y) => Ordered(<<x, y>>)
  BY DEF Ordered

\* What a session runs after its chat is known: it connects first, and nothing it
\* sends by then is a message of somebody's.
Serving == {"connect", "joinChat", "queue", "send", "receive"}

LEMMA ServeFramesOrdered ==
  ASSUME NEW u \in User, NEW ch \in Chat \cup {NoChat}
  PROVE  ServeFrames(u, ch) \in Seq(Doing(Serving)) /\ Ordered(ServeFrames(u, ch))
<1> DEFINE Later == {f \in SocketFrame : /\ f.do \in {"joinChat", "queue", "send", "receive"}
                                         /\ ~Carrying(f)}
           a == <<[do |-> "connect"]>>
           b == IF ch = NoChat THEN <<>> ELSE <<RoomFrame("joinChat", u, ch)>>
           d == <<QueueFrame, SendFrame(u)>>
           e == IF u \in Clients /\ ch # NoChat THEN <<QueueFrame>> ELSE <<>>
           g == <<[do |-> "receive"]>>
<1>1. a \in Seq(Doing(Serving)) /\ Ordered(a)
  BY FramesMade, ShortOrdered DEF Doing, Serving
<1>2. b \in Seq(Later)
  <2>1. ch # NoChat => RoomFrame("joinChat", u, ch) \in Later
    BY FramesMade DEF RoomFrame, Carrying
  <2>2. QED
    BY <2>1, ShortSequences
<1>3. QueueFrame \in Later
  BY FramesMade DEF QueueFrame, Carrying
<1>4. SendFrame(u) \in Later
  BY FramesMade, SocketsAssumption DEF SendFrame, Carrying
<1>5. d \in Seq(Later) /\ e \in Seq(Later)
  BY <1>3, <1>4, ShortSequences
<1>6. g \in Seq(Later)
  <2>1. [do |-> "receive"] \in Later
    BY FramesMade DEF Carrying
  <2>2. QED
    BY <2>1, ShortSequences
<1>7. \A s \in Seq(Later) : s \in Seq(Doing(Serving)) /\ Ordered(s)
  <2> TAKE s \in Seq(Later)
  <2>1. s \in [1..Len(s) -> Later] /\ Len(s) \in Nat
    BY LenProperties
  <2>2. s \in [1..Len(s) -> Doing(Serving)]
    BY <2>1 DEF Doing, Serving
  <2>3. \A i, j \in DOMAIN s : Above(s[i], s[j])
    BY <2>1 DEF Above, Starting
  <2>4. QED
    BY <2>1, <2>2, <2>3 DEF Ordered
<1>8. a \in Frames /\ \A s \in Seq(Later) : s \in Frames
  BY <1>1, <1>7, DoingFrames
<1>9. \A f, h, s : s \in Seq(Later) /\ In(f, a) /\ In(h, s) => Above(f, h)
  <2> TAKE f, h, s
  <2>1. s \in Seq(Later) /\ In(h, s) => h \in Later
    BY InFrames
  <2>2. In(f, a) => f = [do |-> "connect"]
    BY InShort
  <2>3. QED
    BY <2>1, <2>2 DEF Above, Starting
<1> HIDE DEF Later, a, b, d, e, g
<1>10. b \o (d \o (e \o g)) \in Seq(Later)
  BY <1>2, <1>5, <1>6, ConcatProperties
<1>11. /\ Then(a, Then(b, Then(d, Then(e, g)))) \in Seq(Doing(Serving))
       /\ Ordered(Then(a, Then(b, Then(d, Then(e, g)))))
  BY <1>1, <1>7, <1>8, <1>9, <1>10, ConcatProperties, ConcatOrdered DEF Then
<1>12. Then(Then(Then(Then(a, b), d), e), g) = Then(a, Then(b, Then(d, Then(e, g))))
  BY <1>2, <1>5, <1>6, <1>8, Regroup
<1>13. ServeFrames(u, ch) = Then(Then(Then(Then(a, b), d), e), g)
  BY DEF ServeFrames, Then, a, b, d, e, g
<1>14. QED
  BY <1>11, <1>12, <1>13

\* Each action, on the stack of its own task.
LEMMA PushShape ==
  ASSUME SocketsTypeOK, NEW t \in Task, Busy(t), NEW kinds, NEW new \in Seq(Doing(kinds)),
         Ordered(new), stack' = [stack EXCEPT ![t] = new \o Tail(stack[t])]
  PROVE  Pushes(t, kinds)
BY DEF Pushes, SocketsTypeOK

LEMMA ThrowShape ==
  ASSUME SocketsTypeOK, NEW c \in Conn, Throw(c, <<>>)
  PROVE  Drops(c, {"finally"})
<1>1. /\ [do |-> "finally"] \in Doing({"finally"})
      /\ <<[do |-> "finally"]>> \in Frames
  BY FramesMade DEF Doing, Frames
<1>2. <<>> \o <<[do |-> "finally"]>> = <<[do |-> "finally"]>>
  BY <1>1, ConcatEmptySeq DEF Frames
<1>3. stack'[c] = <<[do |-> "finally"]>>
  BY <1>2, TasksApart DEF Throw, SocketsTypeOK
<1>4. <<[do |-> "finally"]>> \in Seq(Doing({"finally"}))
  BY <1>1, ShortSequences
<1>5. QED
  BY <1>3, <1>4, ShortOrdered DEF Drops

LEMMA SessionShapes ==
  ASSUME SocketsTypeOK, UserKnown, NEW c \in Conn
  PROVE  /\ Open(c) => Drops(c, {"findChat", "finally"})
         /\ FindChat(c) =>
              \/ Pushes(c, Serving) \/ Drops(c, {"finally"})
              \/ Pushes(c, {"createChat"}) /\ \A ch \in Chat : owner[ch] # user_id[c]
         /\ CreateChat(c) => Pushes(c, Serving) \/ Drops(c, {"finally"})
         /\ ConnectUser(c) => Pushes(c, {"accept", "leave"})
         /\ Accept(c) => \/ Pushes(c, {"closePrevious", "register"})
                         \/ Drops(c, {"leave", "finally"})
         /\ ClosePrevious(c) \/ Register(c) \/ QueueReturns(c) => Pushes(c, {})
         /\ PeerGone(c) => Drops(c, {"finally"})
         /\ Finally(c) => Pushes(c, {"leaveChat", "queue", "disconnect"})
         /\ Receive(c) => Pushes(c, {"send", "queue", "role", "broadcast", "receive"})
         /\ AwaitOutside(c) => stack' = stack
<1>0. c \in Task
  BY TasksApart
<1> DEFINE F(do) == [do |-> do]
<1>1. /\ \A do \in {"findChat", "createChat", "connect", "accept", "closePrevious", "register",
                    "receive", "queue", "finally"} :
           \A kinds : do \in kinds => F(do) \in Doing(kinds)
      /\ \A kinds : "leave" \in kinds => LeaveFrame("sockets") \in Doing(kinds)
      /\ \A do : F(do).do = do
      /\ LeaveFrame("sockets").do = "leave"
  BY FramesMade DEF Doing, LeaveFrame
<1> HIDE DEF F
<1>2. /\ \A u \in User : \A ch \in Chat : ServeFrames(u, ch) \in Seq(Doing(Serving))
                                          /\ Ordered(ServeFrames(u, ch))
      /\ \A u \in User : /\ ServeFrames(u, chat_id[c]) \in Seq(Doing(Serving))
                         /\ Ordered(ServeFrames(u, chat_id[c]))
  BY ServeFramesOrdered DEF SocketsTypeOK
<1>3. /\ Above(F("findChat"), F("finally")) /\ Above(F("accept"), LeaveFrame("sockets"))
      /\ Above(F("closePrevious"), F("register")) /\ Above(LeaveFrame("sockets"), F("finally"))
  BY <1>1 DEF Above, Starting, Connecting, Carrying
<1>4. /\ <<F("findChat"), F("finally")>> \in Seq(Doing({"findChat", "finally"}))
      /\ <<F("createChat")>> \in Seq(Doing({"createChat"}))
      /\ <<F("accept"), LeaveFrame("sockets")>> \in Seq(Doing({"accept", "leave"}))
      /\ <<F("closePrevious"), F("register")>> \in Seq(Doing({"closePrevious", "register"}))
      /\ <<F("register")>> \in Seq(Doing({"closePrevious", "register"}))
      /\ <<LeaveFrame("sockets"), F("finally")>> \in Seq(Doing({"leave", "finally"}))
      /\ <<>> \in Seq(Doing({}))
  BY <1>1, ShortSequences
<1>5. /\ Ordered(<<F("findChat"), F("finally")>>) /\ Ordered(<<F("accept"), LeaveFrame("sockets")>>)
      /\ Ordered(<<F("closePrevious"), F("register")>>) /\ Ordered(<<>>)
      /\ Ordered(<<LeaveFrame("sockets"), F("finally")>>)
      /\ Ordered(<<F("createChat")>>) /\ Ordered(<<F("register")>>)
  BY <1>3, ShortOrdered
<1>6. Open(c) => Drops(c, {"findChat", "finally"})
  BY <1>0, <1>4, <1>5 DEF Open, Drops, SocketsTypeOK, F
<1>7. ASSUME FindChat(c)
      PROVE  \/ Pushes(c, Serving) \/ Drops(c, {"finally"})
             \/ Pushes(c, {"createChat"}) /\ \A ch \in Chat : owner[ch] # user_id[c]
  <2>1. Busy(c) /\ user_id[c] \in User
    BY <1>7 DEF FindChat, Runs, Scheduled, UserKnown
  <2>2. CASE Throw(c, <<>>)
    BY <2>2, ThrowShape
  <2>3. CASE Continue(c, ServeFrames(user_id[c], chat_id[c]))
    BY <1>0, <1>2, <2>1, <2>3, PushShape DEF Continue
  <2>4. CASE \E ch \in Chat : Pause(c, ServeFrames(user_id[c], ch))
    BY <1>0, <1>2, <2>1, <2>4, PushShape DEF Pause
  <2>5. CASE Pause(c, <<F("createChat")>>) /\ {ch \in Chat : owner[ch] = user_id[c]} = {}
    BY <1>0, <1>4, <1>5, <2>1, <2>5, PushShape DEF Pause
  <2>6. QED
    BY <1>7, <2>2, <2>3, <2>4, <2>5 DEF FindChat, F
<1>8. ASSUME CreateChat(c)
      PROVE  Pushes(c, Serving) \/ Drops(c, {"finally"})
  <2>1. Busy(c) /\ user_id[c] \in User
    BY <1>8 DEF CreateChat, Runs, Scheduled, UserKnown
  <2>2. CASE Throw(c, <<>>)
    BY <2>2, ThrowShape
  <2>3. CASE \E ch \in Chat : Pause(c, ServeFrames(user_id[c], ch))
    BY <1>0, <1>2, <2>1, <2>3, PushShape DEF Pause
  <2>4. QED
    BY <1>8, <2>2, <2>3 DEF CreateChat
<1>9. ConnectUser(c) => Pushes(c, {"accept", "leave"})
  BY <1>0, <1>4, <1>5, PushShape DEF ConnectUser, Runs, Scheduled, F
<1>10. ASSUME Accept(c)
       PROVE  Pushes(c, {"closePrevious", "register"}) \/ Drops(c, {"leave", "finally"})
  <2>1. Busy(c)
    BY <1>10 DEF Accept, Runs, Scheduled
  <2>2. CASE Continue(c, <<F("closePrevious"), F("register")>>) \/ Continue(c, <<F("register")>>)
    BY <1>0, <1>4, <1>5, <2>1, <2>2, PushShape DEF Continue
  <2>3. CASE Throw(c, <<LeaveFrame("sockets")>>)
    <3> DEFINE kinds == {"leave", "finally"}
               x == <<LeaveFrame("sockets")>>
               y == <<F("finally")>>
    <3>1. x \in Seq(Doing(kinds)) /\ y \in Seq(Doing(kinds))
      BY <1>1, ShortSequences
    <3>2. \A f, g : In(f, x) /\ In(g, y) => Above(f, g)
      BY <1>3, InShort
    <3>3. Ordered(x) /\ Ordered(y)
      BY ShortOrdered
    <3>4. stack'[c] = x \o y
      BY <1>0, <2>3 DEF Throw, SocketsTypeOK, F
    <3> HIDE DEF kinds, x, y
    <3>5. x \in Frames /\ y \in Frames /\ x \o y \in Seq(Doing(kinds))
      BY <3>1, DoingFrames, ConcatProperties
    <3>6. Drops(c, kinds)
      BY <3>2, <3>3, <3>4, <3>5, ConcatOrdered DEF Drops
    <3>7. QED
      BY <3>6 DEF kinds
  <2>4. QED
    BY <1>10, <2>2, <2>3 DEF Accept, F
<1>11. ClosePrevious(c) \/ Register(c) \/ QueueReturns(c) => Pushes(c, {})
  BY <1>0, <1>4, <1>5, PushShape
    DEF ClosePrevious, Register, QueueReturns, Runs, Scheduled, Continue, Pause
<1>12. PeerGone(c) => Drops(c, {"finally"})
  BY ThrowShape DEF PeerGone
<1>13. ASSUME Finally(c)
       PROVE  Pushes(c, {"leaveChat", "queue", "disconnect"})
  <2> DEFINE kinds == {"leaveChat", "queue", "disconnect"}
             first == IF chat_id[c] = NoChat THEN <<>>
                      ELSE <<RoomFrame("leaveChat", user_id[c], chat_id[c])>>
             last == <<QueueFrame, DisconnectFrame(user_id[c])>>
  <2>1. Busy(c) /\ user_id[c] \in User /\ chat_id[c] \in Chat \cup {NoChat}
    BY <1>13 DEF Finally, Runs, Scheduled, UserKnown, SocketsTypeOK
  <2>2. /\ chat_id[c] # NoChat => RoomFrame("leaveChat", user_id[c], chat_id[c]) \in Doing(kinds)
        /\ QueueFrame \in Doing(kinds) /\ DisconnectFrame(user_id[c]) \in Doing(kinds)
    BY <2>1, FramesMade DEF Doing, RoomFrame, QueueFrame, DisconnectFrame
  <2> HIDE DEF kinds
  <2>3. first \in Seq(Doing(kinds)) /\ last \in Seq(Doing(kinds))
    BY <2>2, ShortSequences
  <2>4. Continue(c, first \o last)
    BY <1>13 DEF Finally, Passes
  <2> HIDE DEF first, last
  <2>5. PICK new \in Seq(Doing(kinds)) : new = first \o last
    BY <2>3, ConcatProperties
  <2>6. Quiet(kinds)
    BY DEF Quiet, Starting, kinds
  <2>7. stack' = [stack EXCEPT ![c] = new \o Tail(stack[c])]
    BY <2>4, <2>5 DEF Continue
  <2>8. Pushes(c, kinds)
    BY <1>0, <2>1, <2>6, <2>7, QuietOrdered, PushShape
  <2>9. QED
    BY <2>8 DEF kinds
<1>14. ASSUME Receive(c)
       PROVE  Pushes(c, {"send", "queue", "role", "broadcast", "receive"})
  <2> DEFINE said == {"send", "queue", "role", "broadcast"}
             kinds == {"send", "queue", "role", "broadcast", "receive"}
  <2>1. Busy(c) /\ user_id[c] \in User /\ chat_id[c] \in Chat \cup {NoChat}
    BY <1>14 DEF Receive, Runs, Scheduled, UserKnown, SocketsTypeOK
  <2>2. PICK m \in Message : \E s \in HandlerFrames(c, m) : Continue(c, s \o <<Top(c)>>)
    BY <1>14 DEF Receive
  <2> PICK s \in HandlerFrames(c, m) : Continue(c, s \o <<Top(c)>>)
    BY <2>2
  <2>3. /\ SendFrame(user_id[c]) \in Doing(said) /\ QueueFrame \in Doing(said)
        /\ RoleFrame(user_id[c]) \in Doing(said)
        /\ chat_id[c] # NoChat => BroadcastFrame(chat_id[c], user_id[c], m) \in Doing(said)
    BY <2>1, FramesMade DEF Doing, SendFrame, QueueFrame, RoleFrame, BroadcastFrame
  <2>4. \A f \in Doing(said) : f \in Doing(kinds)
    BY DEF Doing
  <2>5. Top(c) \in Doing(kinds) /\ Top(c).do = "receive"
    BY <1>0, <1>14, <2>1, TopType DEF Receive, Runs, Doing
  <2>6. Quiet(said)
    BY DEF Quiet, Starting
  <2> HIDE DEF said, kinds
  <2>7. s \in Seq(Doing(said)) /\ s \in Seq(Doing(kinds))
    BY <2>3, <2>4, ShortSequences DEF HandlerFrames
  <2>8. <<Top(c)>> \in Seq(Doing(kinds))
    BY <2>5, ShortSequences
  <2>9. PICK new \in Seq(Doing(kinds)) : new = s \o <<Top(c)>>
    BY <2>7, <2>8, ConcatProperties
  <2>10. Ordered(new)
    <3>1. Ordered(s) /\ Ordered(<<Top(c)>>) /\ s \in Frames /\ <<Top(c)>> \in Frames
      BY <2>6, <2>7, <2>8, QuietOrdered, ShortOrdered, DoingFrames
    <3>2. \A f, g : In(f, s) /\ In(g, <<Top(c)>>) => Above(f, g)
      <4> SUFFICES ASSUME NEW f, NEW g, In(f, s), In(g, <<Top(c)>>) PROVE Above(f, g)
        OBVIOUS
      <4>1. f \in Doing(said) /\ g = Top(c)
        BY <2>7, InFrames, InShort
      <4>2. QED
        BY <2>5, <4>1 DEF Above, Doing, said, Starting, Connecting, Carrying
    <3>3. QED
      BY <2>9, <3>1, <3>2, ConcatOrdered
  <2>11. stack' = [stack EXCEPT ![c] = new \o Tail(stack[c])]
    BY <2>9 DEF Continue
  <2>12. Pushes(c, kinds)
    BY <1>0, <2>1, <2>10, <2>11, PushShape
  <2>13. QED
    BY <2>12 DEF kinds
<1>15. ASSUME AwaitOutside(c)
       PROVE  stack' = stack
  <2>1. stack[c] \in Frames /\ stack[c] # <<>>
    BY <1>0, <1>15, TopType DEF AwaitOutside
  <2>2. <<Top(c)>> \o Tail(stack[c]) = stack[c]
    BY <2>1 DEF Top, Frames
  <2>3. QED
    BY <1>0, <1>15, <2>2 DEF AwaitOutside, Pause, SocketsTypeOK
<1>16. QED
  BY <1>6, <1>7, <1>8, <1>9, <1>10, <1>11, <1>12, <1>13, <1>14, <1>15

LEMMA ManagerShapes ==
  ASSUME SocketsTypeOK, NEW t \in Task
  PROVE  /\ ChangeRoom(t) \/ ReleaseLock(t) \/ DisconnectUser(t) => Pushes(t, {})
         /\ WaitForLock(t) => stack' = stack
         /\ SendToUser(t) => Pushes(t, {"sendJson"})
         /\ SendJson(t) => Pushes(t, {"disconnect"})
         /\ BroadcastToChat(t) \/ BroadcastToRole(t) => Pushes(t, {"each"})
         /\ Each(t) => Pushes(t, {"send", "each"})
<1>1. \A kinds : <<>> \in Seq(Doing(kinds)) /\ Ordered(<<>>)
  BY ShortSequences, ShortOrdered
<1>2. ChangeRoom(t) \/ ReleaseLock(t) \/ DisconnectUser(t) => Pushes(t, {})
  BY <1>1, PushShape DEF ChangeRoom, ReleaseLock, Leave, DisconnectUser, Runs, Scheduled, Continue
<1>3. WaitForLock(t) => stack' = stack
  BY DEF WaitForLock, Wait
<1>4. Busy(t) => Top(t) \in SocketFrame
  BY TopType
<1>5. ASSUME SendToUser(t)
      PROVE  Pushes(t, {"sendJson"})
  <2> DEFINE x == [do |-> "sendJson", user |-> Top(t).user, msg |-> Top(t).msg,
                   conn |-> user_connections[Top(t).user]]
  <2>1. Busy(t) /\ Top(t).user \in User /\ Top(t).msg \in Message \cup {Reply}
    BY <1>4, <1>5, FrameArguments DEF SendToUser, Runs, Scheduled
  <2>2. Registered(Top(t).user) => x \in Doing({"sendJson"})
    <3>1. Registered(Top(t).user) => user_connections[Top(t).user] \in Conn
      BY <2>1 DEF Registered, SocketsTypeOK
    <3>2. QED
      BY <2>1, <3>1, FramesMade DEF Doing
  <2>3. \/ Registered(Top(t).user) /\ Pause(t, <<x>>)
        \/ Continue(t, <<>>)
    BY <1>5 DEF SendToUser
  <2> HIDE DEF x
  <2>4. CASE Registered(Top(t).user) /\ Pause(t, <<x>>)
    <3>1. <<x>> \in Seq(Doing({"sendJson"})) /\ Ordered(<<x>>)
      BY <2>2, <2>4, ShortSequences, ShortOrdered
    <3>2. QED
      BY <2>1, <2>4, <3>1, PushShape DEF Pause
  <2>5. CASE Continue(t, <<>>)
    BY <1>1, <2>1, <2>5, PushShape DEF Continue
  <2>6. QED
    BY <2>3, <2>4, <2>5
<1>6. ASSUME SendJson(t)
      PROVE  Pushes(t, {"disconnect"})
  <2>1. Busy(t) /\ Top(t).user \in User
    BY <1>4, <1>6, FrameArguments DEF SendJson, Runs, Scheduled
  <2>2. DisconnectFrame(Top(t).user) \in Doing({"disconnect"})
    BY <2>1, FramesMade DEF Doing, DisconnectFrame
  <2>3. /\ <<DisconnectFrame(Top(t).user)>> \in Seq(Doing({"disconnect"}))
        /\ Ordered(<<DisconnectFrame(Top(t).user)>>)
    BY <2>2, ShortSequences, ShortOrdered
  <2>4. CASE Continue(t, <<DisconnectFrame(Top(t).user)>>)
    BY <2>1, <2>3, <2>4, PushShape DEF Continue
  <2>5. CASE Continue(t, <<>>)
    BY <1>1, <2>1, <2>5, PushShape DEF Continue
  <2>6. QED
    BY <1>6, <2>4, <2>5 DEF SendJson
<1>7. ASSUME NEW users \in SUBSET User, NEW m \in Message \cup {Reply}, Busy(t),
             Continue(t, <<[do |-> "each", users |-> users, msg |-> m]>>)
      PROVE  Pushes(t, {"each"})
  <2>1. PICK x : x = [do |-> "each", users |-> users, msg |-> m]
    OBVIOUS
  <2>2. x \in Doing({"each"})
    BY <2>1, FramesMade DEF Doing
  <2>3. <<x>> \in Seq(Doing({"each"})) /\ Ordered(<<x>>)
    BY <2>2, ShortSequences, ShortOrdered
  <2>4. QED
    BY <1>7, <2>1, <2>3, PushShape DEF Continue
<1>8. BroadcastToChat(t) => Pushes(t, {"each"})
  <2>1. BroadcastToChat(t) => Top(t).msg \in Message /\ Top(t).chat \in Chat
    BY <1>4, FrameArguments DEF BroadcastToChat, Runs, Scheduled
  <2>2. BroadcastToChat(t) => chat_connections[Top(t).chat] \ {Top(t).except} \in SUBSET User
    BY <2>1 DEF SocketsTypeOK
  <2>3. QED
    BY <1>7, <2>1, <2>2 DEF BroadcastToChat, Runs, Scheduled
<1>9. BroadcastToRole(t) => Pushes(t, {"each"})
  <2>1. role_connections \ {Top(t).except} \in SUBSET User
    BY DEF SocketsTypeOK
  <2>2. QED
    BY <1>7, <2>1 DEF BroadcastToRole, Passes, Runs, Scheduled
<1>10. ASSUME Each(t)
       PROVE  Pushes(t, {"send", "each"})
  <2>1. Busy(t) /\ Top(t).users \subseteq User /\ Top(t).msg \in Message \cup {Reply}
    BY <1>4, <1>10, FrameArguments DEF Each, Runs, Scheduled
  <2>2. CASE Passes(t, <<>>)
    BY <1>1, <2>1, <2>2, PushShape DEF Passes, Continue
  <2>3. ASSUME NEW u \in Top(t).users, Serve(t, u, Top(t).users \ {u})
        PROVE  Pushes(t, {"send", "each"})
    <3>1. PICK x, y : /\ x = [SendFrame(u) EXCEPT !.msg = Top(t).msg]
                      /\ y = [do |-> "each", users |-> Top(t).users \ {u}, msg |-> Top(t).msg]
      OBVIOUS
    <3>2. x \in SocketFrame /\ y \in SocketFrame
      BY <2>1, <3>1, FramesMade
    <3>3. x.do = "send" /\ y.do = "each"
      BY <3>1 DEF SendFrame
    <3>4. <<x, y>> \in Seq(Doing({"send", "each"}))
      BY <3>2, <3>3, ShortSequences DEF Doing
    <3>5. Quiet({"send", "each"})
      BY DEF Quiet, Starting
    <3>6. Continue(t, <<x, y>>)
      BY <2>3, <3>1 DEF Serve, Passes
    <3>7. QED
      BY <2>1, <3>4, <3>5, <3>6, QuietOrdered, PushShape DEF Continue
  <2>4. QED
    BY <1>10, <2>2, <2>3 DEF Each
<1>11. QED
  BY <1>2, <1>3, <1>5, <1>6, <1>8, <1>9, <1>10

Noticing == {"role", "broadcast", "send", "joinChat", "leaveChat"}

LEMMA NotifyShape ==
  ASSUME SocketsTypeOK, NEW t \in Notifier, Notify(t)
  PROVE  Drops(t, Noticing)
<1>1. PICK m \in Message : \E s \in Notices(m) : stack' = [stack EXCEPT ![t] = s]
  BY DEF Notify
<1> PICK s \in Notices(m) : stack' = [stack EXCEPT ![t] = s]
  BY <1>1
<1>2. s \in Frames /\ stack'[t] = s
  BY NoticesType, TasksApart DEF SocketsTypeOK
<1>3. s \in Seq(Doing(Noticing))
  <2>1. \A i \in DOMAIN s : s[i].do \in Noticing
    BY DEF Notices, Noticing, AssignedFrames, TransferredFrames, SendFrame, RoleFrame,
           BroadcastFrame, RoomFrame
  <2>2. s \in [1..Len(s) -> SocketFrame] /\ Len(s) \in Nat
    BY <1>2, LenProperties DEF Frames
  <2>3. s \in [1..Len(s) -> Doing(Noticing)]
    BY <2>1, <2>2 DEF Doing
  <2>4. QED
    BY <2>2, <2>3
<1>4. Quiet(Noticing)
  BY DEF Quiet, Noticing, Starting
<1>5. QED
  BY <1>2, <1>3, <1>4, QuietOrdered DEF Drops

-----------------------------------------------------------------------------
(* One step, seen from the stack of a task.                                *)

\* The steps of task t itself.
SessionOwn(t) ==
  /\ t \in Conn
  /\ Open(t) \/ Receive(t) \/ QueueReturns(t) \/ SessionStep(t)

Own(t) == SessionOwn(t) \/ (t \in Notifier /\ Notify(t)) \/ ManagerStep(t)

LEMMA OthersStep ==
  ASSUME SocketsTypeOK, [SocketsNext]_socketVars, NEW t \in Task, ~Own(t)
  PROVE  stack'[t] = stack[t]
<1>1. CASE UNCHANGED socketVars
  BY <1>1 DEF socketVars, asyncVars
<1>2. ASSUME NEW d \in Conn, Open(d) \/ Break(d) \/ Receive(d) \/ QueueReturns(d)
      PROVE  stack'[t] = stack[t]
  <2>1. d # t \/ Break(d)
    BY <1>2 DEF Own, SessionOwn
  <2>2. QED
    BY <1>2, <2>1 DEF Open, Break, Receive, QueueReturns, Continue, Pause, asyncVars, SocketsTypeOK
<1>3. ASSUME NEW d \in Notifier, Notify(d)
      PROVE  stack'[t] = stack[t]
  BY <1>3, TasksApart DEF Own, Notify, SocketsTypeOK
<1>4. ASSUME NEW d \in Conn, SessionStep(d)
      PROVE  stack'[t] = stack[t]
  <2>1. d # t
    BY <1>4 DEF Own, SessionOwn
  <2>2. QED
    BY <1>4, <2>1
      DEF SessionStep, FindChat, CreateChat, ConnectUser, Accept, ClosePrevious, Register,
          AwaitOutside, PeerGone, Finally, Passes, Continue, Pause, Throw, SocketsTypeOK
<1>5. ASSUME NEW d \in Task, ManagerStep(d)
      PROVE  stack'[t] = stack[t]
  <2>1. d # t
    BY <1>5 DEF Own
  <2>2. QED
    BY <1>5, <2>1
      DEF ManagerStep, ChangeRoom, DisconnectUser, ReleaseLock, Leave, WaitForLock, Wait,
          SendToUser, SendJson, BroadcastToChat, BroadcastToRole, Each, Serve, Passes,
          Continue, Pause, SocketsTypeOK
<1>6. QED
  BY <1>1, <1>2, <1>3, <1>4, <1>5 DEF SocketsNext, Outside

\* A step of t brings frames of these kinds to its stack, and no others.
Brings(t, kinds) == \A f : In(f, stack'[t]) => In(f, stack[t]) \/ f.do \in kinds

LEMMA ShapeBrings ==
  ASSUME SocketsTypeOK, NEW t \in Task, NEW kinds, Pushes(t, kinds) \/ Drops(t, kinds)
  PROVE  Brings(t, kinds)
<1>1. CASE Pushes(t, kinds)
  <2>1. PICK new \in Seq(Doing(kinds)) : stack'[t] = new \o Tail(stack[t])
    BY <1>1 DEF Pushes
  <2>2. stack[t] \in Frames /\ stack[t] # <<>> /\ Tail(stack[t]) \in Frames /\ new \in Frames
    BY <1>1, TopType, DoingFrames DEF Pushes
  <2>3. \A f : In(f, stack'[t]) <=> In(f, new) \/ In(f, Tail(stack[t]))
    BY <2>1, <2>2, InConcat
  <2>4. \A f : In(f, Tail(stack[t])) => In(f, stack[t])
    BY <2>2, InTail
  <2>5. \A f : In(f, new) => f.do \in kinds
    BY InFrames DEF Doing
  <2>6. QED
    BY <2>3, <2>4, <2>5 DEF Brings
<1>2. CASE Drops(t, kinds)
  <2>1. PICK new \in Seq(Doing(kinds)) : stack'[t] = new
    BY <1>2 DEF Drops
  <2>2. \A f : In(f, new) => f.do \in kinds
    BY InFrames DEF Doing
  <2>3. QED
    BY <2>1, <2>2 DEF Brings
<1>3. QED
  BY <1>1, <1>2

\* What is under the top of t stays on its stack.
TailStays(t) == \A f : In(f, stack[t]) => f = Top(t) \/ In(f, stack'[t])

LEMMA PushStays ==
  ASSUME SocketsTypeOK, NEW t \in Task, NEW kinds, Pushes(t, kinds)
  PROVE  TailStays(t)
<1>1. PICK new \in Seq(Doing(kinds)) : stack'[t] = new \o Tail(stack[t])
  BY DEF Pushes
<1>2. stack[t] \in Frames /\ stack[t] # <<>> /\ Tail(stack[t]) \in Frames /\ new \in Frames
  BY TopType, DoingFrames DEF Pushes
<1>3. \A f : In(f, stack'[t]) <=> In(f, new) \/ In(f, Tail(stack[t]))
  BY <1>1, <1>2, InConcat
<1>4. \A f : In(f, stack[t]) <=> f = Top(t) \/ In(f, Tail(stack[t]))
  BY <1>2, InTail DEF Top
<1>5. QED
  BY <1>3, <1>4 DEF TailStays

Kept(t, kinds) == \A f : In(f, stack'[t]) /\ f.do \in kinds => In(f, stack[t])

\* Which step brings which kind of frame.
LEMMA WhoBrings ==
  ASSUME SocketsTypeOK, UserKnown, [SocketsNext]_socketVars, NEW t \in Task
  PROVE  /\ Kept(t, {"findChat"}) \/ (t \in Conn /\ Open(t))
         /\ Kept(t, {"createChat"}) \/ (t \in Conn /\ FindChat(t))
         /\ Kept(t, {"connect", "receive"}) \/ (t \in Conn /\ (FindChat(t) \/ CreateChat(t)))
         /\ Kept(t, {"accept"}) \/ (t \in Conn /\ ConnectUser(t))
         /\ Kept(t, {"closePrevious", "register"}) \/ (t \in Conn /\ Accept(t))
         /\ Kept(t, {"leave"}) \/ (t \in Conn /\ (ConnectUser(t) \/ Accept(t)))
         /\ Kept(t, {"sendJson"}) \/ SendToUser(t)
         /\ Kept(t, {"disconnect"}) \/ SendJson(t) \/ (t \in Conn /\ Finally(t))
<1>1. ASSUME NEW kinds, Brings(t, kinds), NEW K, kinds \cap K = {}
      PROVE  Kept(t, K)
  BY <1>1 DEF Brings, Kept
<1>2. \A K : stack'[t] = stack[t] => Kept(t, K)
  BY DEF Kept
<1>3. CASE t \in Conn /\ Open(t)
  <2>1. Brings(t, {"findChat", "finally"})
    BY <1>3, SessionShapes, ShapeBrings
  <2>2. QED
    BY <1>1, <1>3, <2>1
<1>4. CASE t \in Conn /\ FindChat(t)
  <2>1. Brings(t, Serving) \/ Brings(t, {"createChat"}) \/ Brings(t, {"finally"})
    BY <1>4, SessionShapes, ShapeBrings
  <2>2. QED
    BY <1>1, <1>4, <2>1 DEF Serving
<1>5. CASE t \in Conn /\ CreateChat(t)
  <2>1. Brings(t, Serving) \/ Brings(t, {"finally"})
    BY <1>5, SessionShapes, ShapeBrings
  <2>2. QED
    BY <1>1, <1>5, <2>1 DEF Serving
<1>6. CASE t \in Conn /\ ConnectUser(t)
  <2>1. Brings(t, {"accept", "leave"})
    BY <1>6, SessionShapes, ShapeBrings
  <2>2. QED
    BY <1>1, <1>6, <2>1
<1>7. CASE t \in Conn /\ Accept(t)
  <2>1. Brings(t, {"closePrevious", "register"}) \/ Brings(t, {"leave", "finally"})
    BY <1>7, SessionShapes, ShapeBrings
  <2>2. QED
    BY <1>1, <1>7, <2>1
<1>8. CASE t \in Conn /\ (ClosePrevious(t) \/ Register(t) \/ QueueReturns(t) \/ PeerGone(t))
  <2>1. Brings(t, {}) \/ Brings(t, {"finally"})
    BY <1>8, SessionShapes, ShapeBrings
  <2>2. QED
    BY <1>1, <2>1
<1>9. CASE t \in Conn /\ Finally(t)
  <2>1. Brings(t, {"leaveChat", "queue", "disconnect"})
    BY <1>9, SessionShapes, ShapeBrings
  <2>2. QED
    BY <1>1, <1>9, <2>1
<1>10. CASE t \in Conn /\ Receive(t)
  <2>1. Brings(t, {"send", "queue", "role", "broadcast", "receive"})
    BY <1>10, SessionShapes, ShapeBrings
  <2>2. Kept(t, {"connect", "receive"})
    <3>1. Busy(t) /\ Top(t) \in SocketFrame /\ Top(t).do = "receive"
      BY <1>10, TopType DEF Receive, Runs, Scheduled
    <3>2. In(Top(t), stack[t])
      BY <3>1, TopType, InTail DEF Top
    <3>3. Pushes(t, {"send", "queue", "role", "broadcast", "receive"})
      BY <1>10, SessionShapes
    <3>4. PICK new \in Seq(Doing({"send", "queue", "role", "broadcast", "receive"})) :
            stack'[t] = new \o Tail(stack[t])
      BY <3>3 DEF Pushes
    <3>5. \A f : In(f, new) => f \in SocketFrame
      BY InFrames DEF Doing
    <3>6. \A f \in SocketFrame : f.do = "receive" => f = [do |-> "receive"]
      BY DEF SocketFrame
    <3>7. \A f : In(f, stack'[t]) => In(f, new) \/ In(f, stack[t])
      BY <3>1, <3>4, TopType, DoingFrames, InConcat, InTail
    <3>8. QED
      BY <2>1, <3>1, <3>2, <3>5, <3>6, <3>7 DEF Kept, Brings
  <2>3. QED
    BY <1>1, <2>1, <2>2
<1>11. CASE t \in Conn /\ AwaitOutside(t)
  BY <1>2, <1>11, SessionShapes
<1>12. CASE t \in Notifier /\ Notify(t)
  <2>1. Brings(t, Noticing)
    BY <1>12, NotifyShape, ShapeBrings
  <2>2. QED
    BY <1>1, <2>1 DEF Noticing
<1>13. CASE SendToUser(t)
  <2>1. Brings(t, {"sendJson"})
    BY <1>13, ManagerShapes, ShapeBrings
  <2>2. QED
    BY <1>1, <1>13, <2>1
<1>14. CASE SendJson(t)
  <2>1. Brings(t, {"disconnect"})
    BY <1>14, ManagerShapes, ShapeBrings
  <2>2. QED
    BY <1>1, <1>14, <2>1
<1>15. CASE WaitForLock(t)
  BY <1>2, <1>15, ManagerShapes
<1>16. CASE \/ ChangeRoom(t) \/ ReleaseLock(t) \/ DisconnectUser(t)
            \/ BroadcastToChat(t) \/ BroadcastToRole(t) \/ Each(t)
  <2>1. Brings(t, {}) \/ Brings(t, {"each"}) \/ Brings(t, {"send", "each"})
    BY <1>16, ManagerShapes, ShapeBrings
  <2>2. QED
    BY <1>1, <2>1
<1>17. CASE ~Own(t)
  BY <1>2, <1>17, OthersStep
<1>18. QED
  BY <1>3, <1>4, <1>5, <1>6, <1>7, <1>8, <1>9, <1>10, <1>11, <1>12, <1>13, <1>14, <1>15, <1>16,
     <1>17
    DEF Own, SessionOwn, SessionStep, ManagerStep

-----------------------------------------------------------------------------
(* The order on the stacks.                                                *)

\* Frames of these kinds may stand above whatever the top stands above.
MayReplace(kinds, top) ==
  /\ "finally" \notin kinds
  /\ kinds \cap (Starting \cup {"receive"}) # {} => top.do \in Starting \cup {"receive"}
  /\ top.do \in Connecting => kinds \subseteq Connecting
  /\ top.do = "closePrevious" => kinds = {}

LEMMA PushOrdered ==
  ASSUME SocketsTypeOK, NEW t \in Task, Ordered(stack[t]), NEW kinds, Pushes(t, kinds),
         MayReplace(kinds, Top(t)) \/ Top(t).do = "finally"
  PROVE  Ordered(stack'[t])
<1>1. PICK new \in Seq(Doing(kinds)) : Ordered(new) /\ stack'[t] = new \o Tail(stack[t])
  BY DEF Pushes
<1>2. stack[t] \in Frames /\ stack[t] # <<>> /\ Tail(stack[t]) \in Frames /\ new \in Frames
  BY TopType, DoingFrames DEF Pushes
<1>3. Ordered(Tail(stack[t])) /\ \A g : In(g, Tail(stack[t])) => Above(Top(t), g)
  BY <1>2, TailOrdered DEF Top
<1>4. \A f : In(f, new) => f \in Doing(kinds)
  BY InFrames
<1>5. ASSUME NEW f \in Doing(kinds), NEW g, Above(Top(t), g)
      PROVE  Above(f, g)
  <2>1. f.do \in kinds
    BY DEF Doing
  <2>2. MayReplace(kinds, Top(t))
    BY <1>5 DEF Above
  <2>3. Top(t).do # "closePrevious" /\ f.do # "finally"
    BY <2>1, <2>2 DEF MayReplace
  <2>4. g.do \notin Starting
    BY <1>5, <2>3 DEF Above
  <2>5. f.do \in Starting \cup {"receive"} => ~Carrying(g)
    BY <1>5, <2>1, <2>2 DEF Above, MayReplace
  <2>6. g.do = "leave" => f.do \in Connecting
    BY <1>5, <2>1, <2>2 DEF Above, MayReplace
  <2>7. QED
    BY <2>3, <2>4, <2>5, <2>6 DEF Above
<1>6. QED
  BY <1>1, <1>2, <1>3, <1>4, <1>5, ConcatOrdered

LEMMA DropOrdered ==
  ASSUME NEW t, NEW kinds, Drops(t, kinds)
  PROVE  Ordered(stack'[t])
BY DEF Drops

LEMMA StacksOrderedNext ==
  ASSUME SocketsTypeOK, UserKnown, StacksOrdered, [SocketsNext]_socketVars
  PROVE  StacksOrdered'
<1> SUFFICES ASSUME NEW t \in Task PROVE Ordered(stack'[t])
  BY DEF StacksOrdered
<1>1. Ordered(stack[t])
  BY DEF StacksOrdered
<1>2. CASE t \in Conn /\ Open(t)
  BY <1>2, SessionShapes, DropOrdered
<1>3. CASE t \in Conn /\ (FindChat(t) \/ CreateChat(t))
  <2>1. /\ MayReplace(Serving, Top(t)) /\ MayReplace({"createChat"}, Top(t))
    BY <1>3 DEF FindChat, CreateChat, Runs, MayReplace, Serving, Starting, Connecting
  <2>2. Pushes(t, Serving) \/ Pushes(t, {"createChat"}) \/ Drops(t, {"finally"})
    BY <1>3, SessionShapes
  <2>3. QED
    BY <1>1, <2>1, <2>2, PushOrdered, DropOrdered
<1>4. CASE t \in Conn /\ ConnectUser(t)
  <2>1. MayReplace({"accept", "leave"}, Top(t))
    BY <1>4 DEF ConnectUser, Runs, MayReplace, Starting, Connecting
  <2>2. QED
    BY <1>1, <1>4, <2>1, SessionShapes, PushOrdered
<1>5. CASE t \in Conn /\ Accept(t)
  <2>1. MayReplace({"closePrevious", "register"}, Top(t))
    BY <1>5 DEF Accept, Runs, MayReplace, Starting, Connecting
  <2>2. Pushes(t, {"closePrevious", "register"}) \/ Drops(t, {"leave", "finally"})
    BY <1>5, SessionShapes
  <2>3. QED
    BY <1>1, <2>1, <2>2, PushOrdered, DropOrdered
<1>6. CASE \/ t \in Conn /\ (ClosePrevious(t) \/ Register(t) \/ QueueReturns(t))
           \/ ChangeRoom(t) \/ ReleaseLock(t) \/ DisconnectUser(t)
  <2>1. MayReplace({}, Top(t))
    BY DEF MayReplace
  <2>2. Pushes(t, {})
    BY <1>6, SessionShapes, ManagerShapes
  <2>3. QED
    BY <1>1, <2>1, <2>2, PushOrdered
<1>7. CASE t \in Conn /\ PeerGone(t)
  BY <1>7, SessionShapes, DropOrdered
<1>8. CASE t \in Conn /\ Finally(t)
  <2>1. Top(t).do = "finally"
    BY <1>8 DEF Finally, Runs
  <2>2. QED
    BY <1>1, <1>8, <2>1, SessionShapes, PushOrdered
<1>9. CASE t \in Conn /\ Receive(t)
  <2>1. MayReplace({"send", "queue", "role", "broadcast", "receive"}, Top(t))
    BY <1>9 DEF Receive, Runs, MayReplace, Starting, Connecting
  <2>2. QED
    BY <1>1, <1>9, <2>1, SessionShapes, PushOrdered
<1>10. CASE t \in Conn /\ AwaitOutside(t)
  BY <1>1, <1>10, SessionShapes
<1>11. CASE t \in Notifier /\ Notify(t)
  BY <1>11, NotifyShape, DropOrdered
<1>12. CASE SendToUser(t) \/ SendJson(t) \/ BroadcastToChat(t) \/ BroadcastToRole(t) \/ Each(t)
  <2>1. PICK kinds \in {{"sendJson"}, {"disconnect"}, {"each"}, {"send", "each"}} : Pushes(t, kinds)
    BY <1>12, ManagerShapes
  <2>2. Top(t).do \in {"send", "sendJson", "broadcast", "role", "each"}
    BY <1>12 DEF SendToUser, SendJson, BroadcastToChat, BroadcastToRole, Each, Runs
  <2>3. MayReplace(kinds, Top(t))
    BY <2>2 DEF MayReplace, Starting, Connecting
  <2>4. QED
    BY <1>1, <2>1, <2>3, PushOrdered
<1>13. CASE WaitForLock(t)
  BY <1>1, <1>13, ManagerShapes
<1>14. CASE ~Own(t)
  BY <1>1, <1>14, OthersStep
<1>15. QED
  BY <1>2, <1>3, <1>4, <1>5, <1>6, <1>7, <1>8, <1>9, <1>10, <1>11, <1>12, <1>13, <1>14
    DEF Own, SessionOwn, SessionStep, ManagerStep

\* Which step takes a frame off a stack that matters to others: the end of a block
\* of the lock, or a message on its way.
LEMMA WhoRemoves ==
  ASSUME SocketsTypeOK, UserKnown, StacksOrdered, [SocketsNext]_socketVars, NEW t \in Task,
         NEW f, In(f, stack[t]), ~In(f, stack'[t])
  PROVE  /\ f.do = "leave" => ReleaseLock(t)
         /\ Carrying(f) => /\ f = Top(t)
                           /\ SendToUser(t) \/ SendJson(t) \/ BroadcastToChat(t) \/ Each(t)
<1>0. /\ stack[t] \in Frames /\ stack[t] # <<>> /\ Busy(t)
      /\ f \in SocketFrame
  <2>1. stack[t] \in Frames
    BY DEF SocketsTypeOK, Frames
  <2>2. stack[t] # <<>>
    BY InShort
  <2>3. QED
    BY <2>1, <2>2, InFrames DEF Busy, Frames
<1>1. f = Top(t) \/ (In(f, Tail(stack[t])) /\ Above(Top(t), f))
  BY <1>0, InTail, TailOrdered DEF StacksOrdered, Top
<1>2. ASSUME NEW kinds, Pushes(t, kinds)
      PROVE  f = Top(t)
  BY <1>2, PushStays DEF TailStays
<1>3. CASE t \in Conn /\ (Open(t) \/ AwaitOutside(t))
  BY <1>0, <1>3, SessionShapes DEF Open
<1>4. CASE t \in Conn /\ (FindChat(t) \/ CreateChat(t) \/ PeerGone(t))
  <2>1. Top(t).do \in {"findChat", "createChat", "receive"}
    BY <1>4 DEF FindChat, CreateChat, PeerGone, Runs
  <2>2. ~Carrying(f) /\ f.do # "leave"
    BY <1>1, <2>1 DEF Above, Starting, Connecting, Carrying
  <2>3. QED
    BY <2>2
<1>5. CASE t \in Conn /\ Accept(t)
  <2>1. Top(t).do = "accept"
    BY <1>5 DEF Accept, Runs
  <2>2. ~Carrying(f)
    BY <1>1, <2>1 DEF Above, Starting, Carrying
  <2>3. CASE Pushes(t, {"closePrevious", "register"})
    BY <1>2, <2>1, <2>2, <2>3
  <2>4. CASE Throw(t, <<LeaveFrame("sockets")>>)
    <3>1. /\ <<LeaveFrame("sockets")>> \in Frames /\ <<[do |-> "finally"]>> \in Frames
          /\ stack'[t] = <<LeaveFrame("sockets")>> \o <<[do |-> "finally"]>>
      BY <2>4, FramesMade, ShortSequences DEF Throw, Frames, SocketsTypeOK
    <3>2. In(LeaveFrame("sockets"), stack'[t])
      BY <3>1, InConcat, InShort
    <3>3. f.do = "leave" => f = LeaveFrame("sockets")
      BY <1>0, SocketsAssumption DEF SocketFrame, LeaveFrame
    <3>4. QED
      BY <2>2, <3>2, <3>3
  <2>5. Pushes(t, {"closePrevious", "register"}) \/ Throw(t, <<LeaveFrame("sockets")>>)
    <3> DEFINE F(do) == [do |-> do]
    <3>1. /\ F("closePrevious") \in Doing({"closePrevious", "register"})
          /\ F("register") \in Doing({"closePrevious", "register"})
          /\ Above(F("closePrevious"), F("register"))
      BY FramesMade DEF Doing, Above, Carrying
    <3> HIDE DEF F
    <3>2. /\ <<F("closePrevious"), F("register")>> \in Seq(Doing({"closePrevious", "register"}))
          /\ <<F("register")>> \in Seq(Doing({"closePrevious", "register"}))
          /\ Ordered(<<F("closePrevious"), F("register")>>) /\ Ordered(<<F("register")>>)
      BY <3>1, ShortSequences, ShortOrdered
    <3>3. QED
      BY <1>0, <1>5, <3>2, PushShape DEF Accept, Continue, F
  <2>6. QED
    BY <2>3, <2>4, <2>5
<1>6. CASE t \in Conn /\ (\/ ConnectUser(t) \/ ClosePrevious(t) \/ Register(t) \/ QueueReturns(t)
                          \/ Finally(t) \/ Receive(t))
  <2>1. f = Top(t)
    BY <1>2, <1>6, SessionShapes
  <2>2. Top(t).do \in {"connect", "closePrevious", "register", "queue", "finally", "receive"}
    BY <1>6 DEF ConnectUser, ClosePrevious, Register, QueueReturns, Finally, Receive, Runs
  <2>3. QED
    BY <2>1, <2>2 DEF Carrying
<1>7. CASE t \in Notifier /\ Notify(t)
  BY <1>0, <1>7 DEF Notify
<1>8. CASE ManagerStep(t)
  <2>1. f = Top(t)
    BY <1>2, <1>8, ManagerShapes DEF ManagerStep
  <2>2. f.do = "leave" => ReleaseLock(t)
    BY <1>8, <2>1 DEF ManagerStep, ChangeRoom, DisconnectUser, WaitForLock, AsksForLock, SendToUser,
       SendJson, BroadcastToChat, BroadcastToRole, Each, Runs
  <2>3. Carrying(f) => SendToUser(t) \/ SendJson(t) \/ BroadcastToChat(t) \/ Each(t)
    BY <1>8, <2>1 DEF Carrying, ManagerStep, ChangeRoom, DisconnectUser, WaitForLock, AsksForLock,
       ReleaseLock, Leave, LeaveFrame, BroadcastToRole, Runs
  <2>4. QED
    BY <2>1, <2>2, <2>3
<1>9. CASE ~Own(t)
  BY <1>9, OthersStep
<1>10. QED
  BY <1>3, <1>4, <1>5, <1>6, <1>7, <1>8, <1>9 DEF Own, SessionOwn, SessionStep

-----------------------------------------------------------------------------
(* The lock.                                                               *)

\* Only connect_user takes the lock and awaits with it; the other methods enter
\* and leave it in one step.
LEMMA WritersOfHolder ==
  ASSUME [SocketsNext]_socketVars
  PROVE  \/ holder' = holder
         \/ \E c \in Conn : ConnectUser(c)
         \/ \E t \in Task : ReleaseLock(t)
<1>1. CASE UNCHANGED socketVars
  BY <1>1 DEF socketVars, asyncVars
<1>2. CASE Outside
  BY <1>2 DEF Outside, Open, Break, Receive, Uses, QueueReturns, Pause, Notify, asyncVars
<1>3. ASSUME NEW c \in Conn, SessionStep(c), ~ConnectUser(c)
      PROVE  holder' = holder
  BY <1>3 DEF SessionStep, FindChat, CreateChat, Accept, ClosePrevious, Register, AwaitOutside,
       PeerGone, Finally, Passes, Pause, Throw
<1>4. ASSUME NEW t \in Task, ManagerStep(t), ~ReleaseLock(t)
      PROVE  holder' = holder
  BY <1>4 DEF ManagerStep, ChangeRoom, DisconnectUser, WaitForLock, Wait, SendToUser, SendJson,
       BroadcastToChat, BroadcastToRole, Each, Serve, Passes, Pause
<1>5. QED
  BY <1>1, <1>2, <1>3, <1>4 DEF SocketsNext

LEMMA LockOKNext ==
  ASSUME SocketsTypeOK, UserKnown, StacksOrdered, LockOK, [SocketsNext]_socketVars
  PROVE  LockOK'
<1> SUFFICES ASSUME NEW t \in Task
             PROVE  /\ holder'["sockets"] = t <=> Has(t, {"leave"})'
                    /\ Has(t, Connecting)' => Has(t, {"leave"})'
  BY DEF LockOK
<1>0. /\ \A kinds : Has(t, kinds) <=> \E f : In(f, stack[t]) /\ f.do \in kinds
      /\ \A kinds : Has(t, kinds)' <=> \E f : In(f, stack'[t]) /\ f.do \in kinds
      /\ "sockets" \in Lock /\ t # NoTask /\ Lock = {"sockets"}
  BY SocketsAssumption, TaskAssumption DEF Has, In
<1>1. ASSUME NEW d \in Task, ReleaseLock(d)
      PROVE  /\ holder'["sockets"] = t <=> Has(t, {"leave"})'
             /\ Has(t, Connecting)' => Has(t, {"leave"})'
  <2>1. /\ holder'["sockets"] = NoTask /\ Busy(d) /\ Top(d).do = "leave"
        /\ stack' = [stack EXCEPT ![d] = <<>> \o Tail(stack[d])]
    BY <1>0, <1>1 DEF ReleaseLock, Leave, Scheduled, Continue, LeaveFrame, SocketsTypeOK
  <2>2. stack[d] \in Frames /\ stack[d] # <<>> /\ Tail(stack[d]) \in Frames
    BY <2>1, TopType
  <2>3. holder["sockets"] = d
    <3>1. In(Top(d), stack[d])
      BY <2>2, InTail DEF Top
    <3>2. QED
      BY <2>1, <3>1, HasIn DEF LockOK
  <2>4. CASE t = d
    <3>1. stack'[t] = Tail(stack[t])
      BY <2>1, <2>2, <2>4, ConcatEmptySeq DEF SocketsTypeOK, Frames
    <3>2. \A g : In(g, stack'[t]) => Above(Top(t), g)
      BY <2>2, <2>4, <3>1, TailOrdered DEF StacksOrdered, Top
    <3>3. \A g : In(g, stack'[t]) => g.do # "leave" /\ g.do \notin Connecting
      BY <2>1, <2>4, <3>2 DEF Above, Starting, Connecting
    <3>4. QED
      BY <1>0, <2>1, <3>3
  <2>5. CASE t # d
    <3>1. stack'[t] = stack[t]
      BY <2>1, <2>5 DEF SocketsTypeOK
    <3>2. ~Has(t, {"leave"}) /\ ~Has(t, Connecting)
      BY <2>3, <2>5 DEF LockOK
    <3>3. QED
      BY <1>0, <2>1, <3>1, <3>2
  <2>6. QED
    BY <2>4, <2>5
<1>2. ASSUME NEW d \in Conn, ConnectUser(d)
      PROVE  /\ holder'["sockets"] = t <=> Has(t, {"leave"})'
             /\ Has(t, Connecting)' => Has(t, {"leave"})'
  <2>1. /\ holder["sockets"] = NoTask /\ holder'["sockets"] = d /\ d \in Task /\ Busy(d)
        /\ stack' = [stack EXCEPT ![d] = <<[do |-> "accept"], LeaveFrame("sockets")>> \o Tail(@)]
    BY <1>0, <1>2, TasksApart DEF ConnectUser, Acquire, Runs, Scheduled, SocketsTypeOK
  <2>2. CASE t = d
    <3>1. stack'[t] = <<[do |-> "accept"], LeaveFrame("sockets")>> \o Tail(stack[t])
      BY <2>1, <2>2 DEF SocketsTypeOK
    <3>2. <<[do |-> "accept"], LeaveFrame("sockets")>> \in Frames
      BY FramesMade, ShortSequences DEF Frames
    <3>3. In(LeaveFrame("sockets"), stack'[t])
      BY <2>1, <2>2, <3>1, <3>2, TopType, InConcat, InShort
    <3>4. QED
      BY <1>0, <2>1, <2>2, <3>3 DEF LeaveFrame
  <2>3. CASE t # d
    <3>1. stack'[t] = stack[t]
      BY <2>1, <2>3 DEF SocketsTypeOK
    <3>2. ~Has(t, {"leave"}) /\ ~Has(t, Connecting)
      BY <1>0, <2>1 DEF LockOK
    <3>3. QED
      BY <1>0, <2>1, <2>3, <3>1, <3>2
  <2>4. QED
    BY <2>2, <2>3
<1>3. CASE /\ holder' = holder
           /\ \A d \in Task : ~ReleaseLock(d)
           /\ \A d \in Conn : ~ConnectUser(d)
  <2>1. Has(t, {"leave"}) => Has(t, {"leave"})'
    BY <1>0, <1>3, WhoRemoves
  <2>2. t \in Conn /\ Accept(t) => Has(t, Connecting)
    <3>1. ASSUME t \in Conn, Accept(t)
          PROVE  Has(t, Connecting)
      <4>1. Busy(t) /\ Top(t).do = "accept"
        BY <3>1 DEF Accept, Runs, Scheduled
      <4>2. In(Top(t), stack[t])
        BY <4>1, TopType, InTail DEF Top
      <4>3. QED
        BY <1>0, <4>1, <4>2 DEF Connecting
    <3>2. QED
      BY <3>1
  <2>3. /\ Kept(t, {"leave"}) \/ (t \in Conn /\ Accept(t))
        /\ Kept(t, {"accept"})
        /\ Kept(t, {"closePrevious", "register"}) \/ (t \in Conn /\ Accept(t))
    BY <1>3, WhoBrings
  <2>4. Has(t, {"leave"})' => Has(t, {"leave"})
    BY <1>0, <2>2, <2>3 DEF LockOK, Kept
  <2>5. Has(t, Connecting)' => Has(t, Connecting)
    BY <1>0, <2>2, <2>3 DEF Kept, Connecting
  <2>6. QED
    BY <1>3, <2>1, <2>4, <2>5 DEF LockOK
<1>4. QED
  BY <1>1, <1>2, <1>3, WritersOfHolder

\* The parts of the invariant that are proved one by one below.
StacksInv == SocketsTypeOK /\ UserKnown /\ StacksOrdered /\ LockOK

LEMMA StacksInvInit == SocketsInit => StacksInv
<1> SUFFICES ASSUME SocketsInit PROVE StacksInv
  OBVIOUS
<1>1. SocketsTypeOK /\ UserKnown
  BY SocketsInitType
<1>2. \A t \in Task : stack[t] = <<>>
  BY DEF SocketsInit, AsyncInit
<1>3. StacksOrdered
  BY <1>2, ShortOrdered DEF StacksOrdered
<1>4. holder["sockets"] = NoTask
  BY TasksApart DEF SocketsInit, AsyncInit
<1>5. \A t \in Task : \A kinds : ~Has(t, kinds)
  BY <1>2 DEF Has
<1>6. LockOK
  BY <1>4, <1>5, TaskAssumption DEF LockOK
<1>7. QED
  BY <1>1, <1>3, <1>6 DEF StacksInv

LEMMA StacksInvNext == StacksInv /\ [SocketsNext]_socketVars => StacksInv'
  BY SocketsNextType, StacksOrderedNext, LockOKNext DEF StacksInv

\* No task asks for the lock of the manager while it holds it, although a session
\* awaits with the lock held: above the end of the block only connect_user runs.
THEOREM LockIsNotReentered == SocketsSpec => []LockNotReentered
<1>1. StacksInv => LockNotReentered
  <2> SUFFICES ASSUME StacksInv, NEW t \in Task, Busy(t), AsksForLock(t), holder["sockets"] = t
               PROVE  FALSE
    BY DEF LockNotReentered
  <2>1. PICK f : In(f, stack[t]) /\ f.do = "leave"
    BY HasIn DEF StacksInv, LockOK
  <2>2. stack[t] \in Frames /\ stack[t] # <<>>
    BY TopType DEF StacksInv
  <2>3. f = Top(t) \/ Above(Top(t), f)
    BY <2>1, <2>2, InTail, TailOrdered DEF StacksInv, StacksOrdered, Top
  <2>4. QED
    BY <2>1, <2>3 DEF AsksForLock, Above, Connecting
<1>2. QED
  BY <1>1, StacksInvInit, StacksInvNext, PTL DEF SocketsSpec

-----------------------------------------------------------------------------
(* Connections.                                                            *)

\* Which step writes what.
LEMMA Writers ==
  ASSUME [SocketsNext]_socketVars
  PROVE  /\ (user_id' = user_id /\ alone' = alone) \/ \E c \in Conn : Open(c)
         /\ owner' = owner \/ \E c \in Conn : CreateChat(c)
         /\ socket' = socket
              \/ \E c \in Conn : Open(c) \/ Break(c) \/ Accept(c) \/ ClosePrevious(c)
         /\ inbox' = inbox \/ \E t \in Task : SendJson(t)
         /\ \/ addressed' = addressed
            \/ \E m \in Message : Uses(m)
            \/ \E t \in Task : BroadcastToChat(t)
<1>1. CASE UNCHANGED socketVars
  BY <1>1 DEF socketVars, world, session
<1>2. ASSUME NEW c \in Conn, Open(c)
      PROVE  owner' = owner /\ inbox' = inbox /\ addressed' = addressed
  BY <1>2 DEF Open
<1>3. ASSUME NEW c \in Conn, Break(c) \/ QueueReturns(c)
      PROVE  /\ user_id' = user_id /\ alone' = alone /\ owner' = owner /\ inbox' = inbox
             /\ addressed' = addressed
             /\ socket' = socket \/ Break(c)
  BY <1>3 DEF Break, QueueReturns, world, session
<1>4. ASSUME \/ \E c \in Conn : Receive(c)
             \/ \E t \in Notifier : Notify(t)
      PROVE  /\ user_id' = user_id /\ alone' = alone /\ owner' = owner /\ inbox' = inbox
             /\ socket' = socket /\ \E m \in Message : Uses(m)
  BY <1>4 DEF Receive, Notify, Uses, session
<1>5. ASSUME NEW c \in Conn, SessionStep(c)
      PROVE  /\ user_id' = user_id /\ alone' = alone /\ inbox' = inbox /\ addressed' = addressed
             /\ owner' = owner \/ CreateChat(c)
             /\ socket' = socket \/ Accept(c) \/ ClosePrevious(c)
  BY <1>5 DEF SessionStep, FindChat, CreateChat, ConnectUser, Accept, ClosePrevious, Register,
       AwaitOutside, PeerGone, Finally, Passes, world, session
<1>6. ASSUME NEW t \in Task, ManagerStep(t)
      PROVE  /\ user_id' = user_id /\ alone' = alone /\ owner' = owner /\ socket' = socket
             /\ inbox' = inbox \/ SendJson(t)
             /\ addressed' = addressed \/ BroadcastToChat(t)
  BY <1>6 DEF ManagerStep, ChangeRoom, DisconnectUser, ReleaseLock, WaitForLock, SendToUser,
       SendJson, BroadcastToChat, BroadcastToRole, Each, Serve, Passes, world, session
<1>7. CASE \E c \in Conn : Open(c)
  BY <1>2, <1>7
<1>8. CASE \E c \in Conn : Break(c) \/ QueueReturns(c)
  <2>1. PICK c \in Conn : Break(c) \/ QueueReturns(c)
    BY <1>8
  <2>2. socket' = socket \/ \E d \in Conn : Open(d) \/ Break(d) \/ Accept(d) \/ ClosePrevious(d)
    BY <1>3, <2>1
  <2>3. /\ user_id' = user_id /\ alone' = alone /\ owner' = owner
        /\ inbox' = inbox /\ addressed' = addressed
    BY <1>3, <2>1
  <2>4. QED
    BY <2>2, <2>3
<1>9. CASE \/ \E c \in Conn : Receive(c)
           \/ \E t \in Notifier : Notify(t)
  BY <1>4, <1>9
<1>10. CASE \E c \in Conn : SessionStep(c)
  BY <1>5, <1>10
<1>11. CASE \E t \in Task : ManagerStep(t)
  BY <1>6, <1>11
<1>12. QED
  BY <1>1, <1>7, <1>8, <1>9, <1>10, <1>11 DEF SocketsNext, Outside

\* A session that begins changes nothing of the others but that they overlap.
LEMMA OpenOthers ==
  ASSUME SocketsTypeOK, NEW d \in Conn, Open(d)
  PROVE  /\ \A c \in Conn \ {d} : user_id'[c] = user_id[c] /\ socket'[c] = socket[c]
         /\ \A t \in Task \ {d} : stack'[t] = stack[t]
         /\ socket[d] = "new" /\ user_id'[d] \in User
<1>1. PICK u \in User : user_id' = [user_id EXCEPT ![d] = u]
  BY DEF Open
<1>2. QED
  BY <1>1 DEF Open, SocketsTypeOK

\* A task that runs a frame has it on its stack, and what is under it.
LEMMA TopIn ==
  ASSUME SocketsTypeOK, NEW t \in Task, Busy(t)
  PROVE  In(Top(t), stack[t]) /\ \A kinds : Top(t).do \in kinds => Has(t, kinds)
BY TopType, InTail, HasIn DEF Top

LEMMA UnderTop ==
  ASSUME SocketsTypeOK, StacksOrdered, NEW t \in Task, Busy(t), NEW f, In(f, stack[t]), f # Top(t)
  PROVE  Above(Top(t), f) /\ In(f, Tail(stack[t]))
BY TopType, InTail, TailOrdered DEF StacksOrdered, Top

\* What is on the stack after frames have replaced the top.
LEMMA PushedFrames ==
  ASSUME SocketsTypeOK, StacksOrdered, NEW t \in Task, NEW kinds, Pushes(t, kinds),
         NEW f, In(f, stack'[t])
  PROVE  f \in Doing(kinds) \/ Above(Top(t), f)
<1>1. PICK new \in Seq(Doing(kinds)) : stack'[t] = new \o Tail(stack[t])
  BY DEF Pushes
<1>2. stack[t] \in Frames /\ stack[t] # <<>> /\ Tail(stack[t]) \in Frames /\ new \in Frames
  BY TopType, DoingFrames DEF Pushes
<1>3. In(f, new) \/ In(f, Tail(stack[t]))
  BY <1>1, <1>2, InConcat
<1>4. In(f, new) => f \in Doing(kinds)
  BY InFrames
<1>5. In(f, Tail(stack[t])) => Above(Top(t), f)
  BY <1>2, TailOrdered DEF StacksOrdered, Top
<1>6. QED
  BY <1>3, <1>4, <1>5

LEMMA DroppedFrames ==
  ASSUME NEW t, NEW kinds, Drops(t, kinds), NEW f, In(f, stack'[t])
  PROVE  f \in Doing(kinds)
BY InFrames DEF Drops

\* The frames of a starting session are on top of its stack.
LEMMA StartingOnTop ==
  ASSUME SocketsTypeOK, StacksOrdered, NEW t \in Task, Has(t, Starting)
  PROVE  Busy(t) /\ Top(t).do \in Starting
<1>1. PICK f : In(f, stack[t]) /\ f.do \in Starting
  BY HasIn
<1>2. Busy(t)
  BY <1>1, InShort DEF Busy
<1>3. f # Top(t) => Above(Top(t), f)
  BY <1>1, <1>2, UnderTop
<1>4. QED
  BY <1>1, <1>2, <1>3 DEF Above, Starting

\* The steps in which a session goes from one of them to the next.
LEMMA SettledStays ==
  ASSUME SocketsTypeOK, UserKnown, StacksOrdered, ConnOK, [SocketsNext]_socketVars,
         NEW c \in Conn, Settled(c)
  PROVE  Settled(c)' /\ user_id'[c] = user_id[c]
<1>0. c \in Task /\ ~Open(c) /\ ~Has(c, Starting)
  BY TasksApart DEF Settled, Open
<1>1. ~Has(c, Starting)'
  <2>1. /\ ~FindChat(c) /\ ~CreateChat(c) /\ ~ConnectUser(c) /\ ~Accept(c)
    <3>1. Busy(c) => Top(c).do \notin Starting
      BY <1>0, TopIn
    <3>2. QED
      BY <3>1 DEF FindChat, CreateChat, ConnectUser, Accept, Runs, Scheduled, Starting
  <2>2. /\ Kept(c, {"findChat"}) /\ Kept(c, {"createChat"}) /\ Kept(c, {"connect", "receive"})
        /\ Kept(c, {"accept"}) /\ Kept(c, {"closePrevious", "register"})
    BY <1>0, <2>1, WhoBrings
  <2>3. QED
    BY <1>0, <2>2 DEF Has, In, Kept, Starting
<1>2. socket'[c] \in {"open", "closed"} /\ user_id'[c] = user_id[c]
  <2>1. ASSUME NEW d \in Conn, Open(d)
        PROVE  user_id'[c] = user_id[c] /\ socket'[c] = socket[c]
    BY <1>0, <2>1, OpenOthers
  <2>2. ASSUME NEW d \in Conn, Break(d) \/ Accept(d) \/ ClosePrevious(d)
        PROVE  socket'[c] \in {"open", "closed"}
    BY <2>2 DEF Settled, Break, Accept, ClosePrevious, SocketsTypeOK
  <2>3. QED
    BY <2>1, <2>2, Writers DEF Settled
<1>3. QED
  BY <1>1, <1>2 DEF Settled

LEMMA ConnOKNext ==
  ASSUME SocketsTypeOK, UserKnown, SessionsEnd, StacksOrdered, ConnOK, SettledOK,
         [SocketsNext]_socketVars
  PROVE  ConnOK'
<1> DEFINE Early == {"findChat", "createChat", "connect", "accept"}
<1> SUFFICES ASSUME NEW c \in Conn
             PROVE  /\ socket'[c] = "new" => ~Busy(c)' /\ user_id'[c] = NoUser
                    /\ Has(c, Early)' => socket'[c] = "opening"
                    /\ Has(c, {"closePrevious", "register"})' => socket'[c] \in {"open", "closed"}
                    /\ Has(c, {"closePrevious"})' => Has(c, {"register"})'
  BY DEF ConnOK
<1>0. /\ c \in Task
      /\ \A kinds : Has(c, kinds) <=> \E f : In(f, stack[c]) /\ f.do \in kinds
      /\ \A kinds : Has(c, kinds)' <=> \E f : In(f, stack'[c]) /\ f.do \in kinds
  BY TasksApart DEF Has, In
<1>1. CASE Open(c)
  <2>1. socket'[c] = "opening" /\ Drops(c, {"findChat", "finally"})
    BY <1>1, SessionShapes DEF Open, SocketsTypeOK
  <2>2. \A f : In(f, stack'[c]) => f.do \in {"findChat", "finally"}
    BY <2>1, DroppedFrames DEF Doing
  <2>3. QED
    BY <1>0, <2>1, <2>2
<1>2. CASE ~Open(c)
  <2>1. /\ socket'[c] = "new" => socket[c] = "new"
        /\ user_id'[c] = user_id[c]
        /\ socket[c] \in {"open", "closed"} => socket'[c] \in {"open", "closed"}
    <3>1. ASSUME NEW d \in Conn, Open(d)
          PROVE  user_id'[c] = user_id[c] /\ socket'[c] = socket[c]
      BY <1>2, <3>1, OpenOthers
    <3>2. ASSUME NEW d \in Conn, Break(d) \/ Accept(d) \/ ClosePrevious(d)
          PROVE  socket'[c] = socket[c] \/ socket'[c] \in {"open", "closed"}
      BY <3>2 DEF Break, Accept, ClosePrevious, SocketsTypeOK
    <3>3. QED
      BY <3>1, <3>2, Writers
  <2>2. socket'[c] = "new" => ~Busy(c)' /\ user_id'[c] = NoUser
    BY <1>2, <2>1, SessionsGoOn DEF ConnOK, NotBegun, Busy
  <2>3. Has(c, Early)' => Has(c, Early) /\ ~Accept(c)
    <3>1. CASE Accept(c)
      <4>1. Top(c).do = "accept" /\ (Pushes(c, {"closePrevious", "register"})
                                     \/ Drops(c, {"leave", "finally"}))
        BY <3>1, SessionShapes DEF Accept, Runs
      <4>2. \A f : In(f, stack'[c]) => f.do \notin Early
        BY <1>0, <4>1, PushedFrames, DroppedFrames DEF Doing, Above, Starting
      <4>3. QED
        BY <1>0, <4>2
    <3>2. CASE FindChat(c) \/ CreateChat(c) \/ ConnectUser(c)
      <4>1. Busy(c) /\ Top(c).do \in {"findChat", "createChat", "connect"}
        BY <3>2 DEF FindChat, CreateChat, ConnectUser, Runs, Scheduled
      <4>2. Top(c).do \in Early /\ ~Accept(c)
        BY <4>1 DEF Accept, Runs
      <4>3. QED
        BY <1>0, <4>1, <4>2, TopIn
    <3>3. CASE ~Accept(c) /\ ~FindChat(c) /\ ~CreateChat(c) /\ ~ConnectUser(c)
      <4>1. /\ Kept(c, {"findChat"}) /\ Kept(c, {"createChat"})
            /\ Kept(c, {"connect", "receive"}) /\ Kept(c, {"accept"})
        BY <1>0, <1>2, <3>3, WhoBrings
      <4>2. QED
        BY <1>0, <3>3, <4>1 DEF Kept
    <3>4. QED
      BY <3>1, <3>2, <3>3
  <2>4. Has(c, Early) /\ ~Accept(c) => socket'[c] = "opening"
    <3> SUFFICES ASSUME Has(c, Early), ~Accept(c) PROVE socket'[c] = "opening"
      OBVIOUS
    <3>1. socket[c] = "opening" /\ ~Settled(c)
      BY DEF ConnOK, Settled
    <3>2. ASSUME NEW d \in Conn, Open(d) \/ Break(d) \/ Accept(d)
          PROVE  socket'[c] = socket[c]
      <4>1. d # c
        BY <1>2, <3>1, <3>2 DEF Break
      <4>2. QED
        BY <3>2, <4>1 DEF Open, Break, Accept, SocketsTypeOK
    <3>3. ASSUME NEW d \in Conn, ClosePrevious(d)
          PROVE  socket'[c] = socket[c]
      <4>1. user_id[d] \in User
        BY <3>3 DEF ClosePrevious, Runs, Scheduled, UserKnown
      <4>2. user_connections[user_id[d]] # c
        BY <3>1, <4>1, SocketsAssumption DEF SettledOK, Registered
      <4>3. QED
        BY <3>3, <4>2 DEF ClosePrevious, SocketsTypeOK
    <3>4. QED
      BY <3>1, <3>2, <3>3, Writers
  <2>5. Has(c, {"closePrevious", "register"})' => socket'[c] \in {"open", "closed"}
    <3>1. CASE Accept(c)
      BY <3>1 DEF Accept, SocketsTypeOK
    <3>2. CASE ~Accept(c)
      <4>1. Kept(c, {"closePrevious", "register"})
        BY <1>0, <3>2, WhoBrings
      <4>2. Has(c, {"closePrevious", "register"})' => Has(c, {"closePrevious", "register"})
        BY <1>0, <4>1 DEF Kept
      <4>3. QED
        BY <2>1, <4>2 DEF ConnOK
    <3>3. QED
      BY <3>1, <3>2
  <2>6. Has(c, {"closePrevious"})' => Has(c, {"register"})'
    <3> SUFFICES ASSUME Has(c, {"closePrevious"})' PROVE Has(c, {"register"})'
      OBVIOUS
    <3>1. CASE Accept(c)
      <4>1. Busy(c) /\ Top(c).do = "accept"
        BY <3>1 DEF Accept, Runs, Scheduled
      <4>2. PICK f : In(f, stack'[c]) /\ f.do = "closePrevious"
        BY <1>0
      <4>3. CASE Throw(c, <<LeaveFrame("sockets")>>)
        <5>1. Drops(c, {"leave", "finally"})
          <6>1. stack'[c] = <<LeaveFrame("sockets")>> \o <<[do |-> "finally"]>>
            BY <1>0, <4>3 DEF Throw, SocketsTypeOK
          <6>2. /\ <<LeaveFrame("sockets")>> \in Frames /\ <<[do |-> "finally"]>> \in Frames
            BY FramesMade, ShortSequences DEF Frames
          <6>3. \A g : In(g, stack'[c]) => g.do \in {"leave", "finally"}
            BY <6>1, <6>2, InConcat, InShort DEF LeaveFrame
          <6>4. QED
            BY <4>2, <6>3
        <5>2. QED
          BY <4>2, <5>1, DroppedFrames DEF Doing
      <4>4. ASSUME NEW s \in Frames, In([do |-> "register"], s), Continue(c, s)
            PROVE  Has(c, {"register"})'
        <5>1. stack'[c] = s \o Tail(stack[c])
          BY <1>0, <4>4 DEF Continue, SocketsTypeOK
        <5>2. In([do |-> "register"], stack'[c])
          BY <1>0, <4>1, <4>4, <5>1, TopType, InConcat
        <5>3. QED
          BY <1>0, <5>2
      <4>5. /\ <<[do |-> "register"]>> \in Frames
            /\ <<[do |-> "closePrevious"], [do |-> "register"]>> \in Frames
            /\ In([do |-> "register"], <<[do |-> "register"]>>)
            /\ In([do |-> "register"], <<[do |-> "closePrevious"], [do |-> "register"]>>)
        BY FramesMade, ShortSequences, InShort DEF Frames
      <4>6. QED
        BY <3>1, <4>3, <4>4, <4>5 DEF Accept
    <3>2. CASE ~Accept(c)
      <4>1. Kept(c, {"closePrevious", "register"})
        BY <1>0, <3>2, WhoBrings
      <4>2. Has(c, {"closePrevious"}) /\ Has(c, {"register"})
        BY <1>0, <4>1 DEF Kept, ConnOK
      <4>3. Busy(c) /\ Top(c).do = "closePrevious"
        <5>1. PICK f : In(f, stack[c]) /\ f.do = "register"
          BY <1>0, <4>2
        <5>2. PICK g : In(g, stack[c]) /\ g.do = "closePrevious"
          BY <1>0, <4>2
        <5>3. Busy(c) /\ Top(c).do \in Starting
          BY <1>0, <4>2, StartingOnTop DEF Starting
        <5>4. g # Top(c) => Above(Top(c), g)
          BY <1>0, <5>2, <5>3, UnderTop
        <5>5. QED
          BY <5>2, <5>3, <5>4 DEF Above, Starting
      <4>4. PICK f : In(f, stack[c]) /\ f.do = "register"
        BY <1>0, <4>2
      <4>5. f # Top(c)
        BY <4>3, <4>4
      <4>6. ClosePrevious(c) \/ WaitForLock(c) \/ ~Own(c)
        BY <1>0, <1>2, <4>3, TasksApart
          DEF Own, SessionOwn, SessionStep, ManagerStep, Receive, QueueReturns, FindChat, CreateChat,
              ConnectUser, Accept, Register, AwaitOutside, PeerGone, Finally, ChangeRoom,
              DisconnectUser, ReleaseLock, Leave, LeaveFrame, SendToUser, SendJson, BroadcastToChat,
              BroadcastToRole, Each, Runs
      <4>7. In(f, stack'[c])
        <5>1. CASE ClosePrevious(c)
          <6>1. Pushes(c, {})
            BY <5>1, SessionShapes
          <6>2. QED
            BY <1>0, <4>4, <4>5, <6>1, PushStays DEF TailStays
        <5>2. CASE WaitForLock(c)
          BY <1>0, <4>4, <5>2, ManagerShapes
        <5>3. CASE ~Own(c)
          BY <1>0, <4>4, <5>3, OthersStep
        <5>4. QED
          BY <4>6, <5>1, <5>2, <5>3
      <4>8. QED
        BY <1>0, <4>4, <4>7
    <3>3. QED
      BY <3>1, <3>2
  <2>7. QED
    BY <2>2, <2>3, <2>4, <2>5, <2>6
<1>3. QED
  BY <1>1, <1>2

LEMMA RegisterSettles ==
  ASSUME SocketsTypeOK, UserKnown, StacksOrdered, ConnOK, NEW c \in Conn, Register(c)
  PROVE  Settled(c)'
<1>1. c \in Task /\ Busy(c) /\ Top(c).do = "register" /\ socket' = socket
  BY TasksApart DEF Register, Runs, Scheduled, world
<1>2. socket[c] \in {"open", "closed"}
  BY <1>1, TopIn DEF ConnOK
<1>3. Pushes(c, {})
  BY SessionShapes
<1>4. \A f : In(f, stack'[c]) => f.do \notin Starting
  BY <1>1, <1>3, PushedFrames DEF Doing, Above
<1>5. ~Has(c, Starting)'
  BY <1>4 DEF Has, In
<1>6. QED
  BY <1>1, <1>2, <1>5 DEF Settled

\* A connection that is closed stays closed: only the handshake opens one.
LEMMA ClosedStays ==
  ASSUME SocketsTypeOK, ConnOK, NEW c \in Conn, socket[c] = "closed", [SocketsNext]_socketVars
  PROVE  socket'[c] = "closed"
<1>1. ~Accept(c)
  <2>1. c \in Task
    BY TasksApart
  <2>2. ~Has(c, {"findChat", "createChat", "connect", "accept"})
    BY DEF ConnOK
  <2>3. QED
    BY <2>1, <2>2, TopIn DEF Accept, Runs, Scheduled
<1>2. ASSUME NEW d \in Conn, Open(d)
      PROVE  socket'[c] = "closed"
  BY <1>2, OpenOthers
<1>3. ASSUME NEW d \in Conn, Break(d) \/ Accept(d) \/ ClosePrevious(d)
      PROVE  socket'[c] = "closed"
  BY <1>1, <1>3 DEF Break, Accept, ClosePrevious, SocketsTypeOK
<1>4. QED
  BY <1>2, <1>3, Writers

\* How the connection of a user in the books changes.
LEMMA BooksOfUser ==
  ASSUME SocketsTypeOK, [SocketsNext]_socketVars, NEW u \in User
  PROVE  \/ user_connections'[u] = user_connections[u]
         \/ \E d \in Conn : Register(d) /\ user_id[d] = u /\ user_connections'[u] = d
         \/ \E t \in Task : DisconnectUser(t) /\ Top(t).user = u /\ user_connections'[u] = NoConn
<1>1. CASE UNCHANGED books
  BY <1>1 DEF books
<1>2. ASSUME NEW d \in Conn, Register(d)
      PROVE  user_connections'[u] = user_connections[u]
               \/ (user_id[d] = u /\ user_connections'[u] = d)
  BY <1>2 DEF Register, SocketsTypeOK
<1>3. ASSUME NEW t \in Task, DisconnectUser(t)
      PROVE  user_connections'[u] = user_connections[u]
               \/ (Top(t).user = u /\ user_connections'[u] = NoConn)
  BY <1>3 DEF DisconnectUser, SocketsTypeOK
<1>4. QED
  BY <1>1, <1>2, <1>3, WritersOfBooks

LEMMA SettledOKNext ==
  ASSUME SocketsTypeOK, UserKnown, StacksOrdered, NoConnectionLeftBehind, ConnOK, SettledOK,
         [SocketsNext]_socketVars
  PROVE  SettledOK'
<1>1. ASSUME NEW u \in User, user_connections'[u] # NoConn
      PROVE  Settled(user_connections[u])'
  <2>1. CASE user_connections'[u] = user_connections[u]
    <3>1. user_connections[u] \in Conn /\ Settled(user_connections[u])
      BY <1>1, <2>1 DEF SettledOK, Registered, SocketsTypeOK
    <3>2. PICK c \in Conn : c = user_connections[u]
      BY <3>1
    <3>3. Settled(c)'
      BY <3>1, <3>2, SettledStays
    <3>4. user_connections'[u] = c
      BY <2>1, <3>2
    <3>5. QED
      BY <3>3, <3>4 DEF Settled, Has
  <2>2. ASSUME NEW d \in Conn, Register(d), user_connections'[u] = d
        PROVE  Settled(user_connections[u])'
    <3>1. Settled(d)'
      BY <2>2, RegisterSettles
    <3>2. QED
      BY <2>2, <3>1 DEF Settled, Has
  <2>3. QED
    BY <1>1, <2>1, <2>2, BooksOfUser
<1>2. ASSUME NEW m \in Message, NEW c \in addressed'[m] \ {NoConn}
      PROVE  Settled(c)' /\ user_id'[c] \in User
  <2>1. ASSUME c \in addressed[m]
        PROVE  Settled(c)' /\ user_id'[c] \in User
    <3>1. c \in Conn /\ Settled(c) /\ user_id[c] \in User
      BY <2>1 DEF SettledOK, SocketsTypeOK
    <3>2. QED
      BY <3>1, SettledStays
  <2>2. ASSUME NEW t \in Task, BroadcastToChat(t), Top(t).msg = m
        PROVE  Settled(c)' /\ user_id'[c] \in User
    <3>1. Busy(t) /\ Top(t).do = "broadcast" /\ Top(t).chat \in Chat
      BY <2>2, TopType, FrameArguments DEF BroadcastToChat, Runs, Scheduled
    <3>2. PICK u \in chat_connections[Top(t).chat] \ {Top(t).except} : c = user_connections[u]
      BY <2>2 DEF BroadcastToChat, SocketsTypeOK
    <3>3. u \in User
      BY <3>1, <3>2 DEF SocketsTypeOK
    <3>4. c \in Conn /\ Settled(c) /\ user_id[c] = u
      BY <3>2, <3>3 DEF SettledOK, Registered, NoConnectionLeftBehind, Sessions
    <3>5. QED
      BY <3>3, <3>4, SettledStays
  <2>3. \/ addressed'[m] = addressed[m] \/ addressed'[m] = {}
        \/ \E t \in Task : BroadcastToChat(t) /\ Top(t).msg = m
    <3>1. ASSUME NEW n \in Message, Uses(n)
          PROVE  addressed'[m] = addressed[m] \/ addressed'[m] = {}
      BY <3>1 DEF Uses, SocketsTypeOK
    <3>2. ASSUME NEW t \in Task, BroadcastToChat(t), Top(t).msg # m
          PROVE  addressed'[m] = addressed[m]
      BY <3>2 DEF BroadcastToChat, SocketsTypeOK
    <3>3. QED
      BY <3>1, <3>2, Writers
  <2>4. QED
    BY <2>1, <2>2, <2>3
<1>3. QED
  BY <1>1, <1>2 DEF SettledOK, Registered

-----------------------------------------------------------------------------
(* Broadcasts.                                                             *)

\* What has been called is on the stack.
LEMMA CalledIsIn ==
  ASSUME SocketsTypeOK, NEW t \in Task, Busy(t), NEW s \in Frames, NEW x, In(x, s),
         stack' = [stack EXCEPT ![t] = s \o Tail(stack[t])]
  PROVE  In(x, stack'[t])
<1>1. stack'[t] = s \o Tail(stack[t])
  BY DEF SocketsTypeOK
<1>2. Tail(stack[t]) \in Frames
  BY TopType
<1>3. In(x, s \o Tail(stack[t]))
  BY <1>2, InConcat
<1>4. QED
  BY <1>1, <1>3

SocketsInv ==
  /\ StacksInv /\ SessionsEnd /\ NoConnectionLeftBehind /\ ConnOK /\ SettledOK

LEMMA SocketsInvNext == SocketsInv /\ [SocketsNext]_socketVars => SocketsInv'
BY StacksInvNext, SessionsEndNext, NoConnectionLeftBehindNext, ConnOKNext, SettledOKNext
  DEF SocketsInv, StacksInv

\* The frame that carries a message to a participant is followed by another one, or
\* it is the one that delivers it.
LEMMA CarrierGoesOn ==
  ASSUME SocketsInv, [SocketsNext]_socketVars, NEW m \in Message, NEW c \in Conn,
         user_id[c] \in User, user_id'[c] = user_id[c], user_connections[user_id[c]] = c,
         socket[c] = "open", m \notin inbox'[c], OnItsWay(m, c)
  PROVE  OnItsWay(m, c)'
<1>0. PICK t \in Task : \E f : In(f, stack[t]) /\ Carries(f, m, c)
  BY DEF OnItsWay, In
<1>1. PICK f : In(f, stack[t]) /\ Carries(f, m, c)
  BY <1>0
<1>2. ASSUME NEW g, In(g, stack'[t]), Carries(g, m, c)'
      PROVE  OnItsWay(m, c)'
  BY <1>2 DEF OnItsWay, In
<1>3. \A g : Carries(g, m, c)' <=> Carries(g, m, c)
  BY DEF Carries
<1>4. CASE In(f, stack'[t])
  BY <1>1, <1>2, <1>3, <1>4
<1>5. CASE ~In(f, stack'[t])
  <2>1. SocketsTypeOK /\ UserKnown /\ StacksOrdered
    BY DEF SocketsInv, StacksInv
  <2>2. Carrying(f) /\ f.msg = m /\ f.do \in {"each", "send", "sendJson"}
    BY <1>1 DEF Carries, Carrying
  <2>3. f = Top(t) /\ (SendToUser(t) \/ SendJson(t) \/ BroadcastToChat(t) \/ Each(t))
    BY <1>1, <1>5, <2>1, <2>2, WhoRemoves
  <2>4. Busy(t)
    BY <1>1, InShort DEF Busy
  <2>5. f \in SocketFrame
    BY <2>1, <2>3, <2>4, TopType
  <2>6. c # NoConn
    BY SocketsAssumption
  <2>7. CASE SendToUser(t)
    <3>1. f.do = "send" /\ f.user = user_id[c]
      BY <1>1, <2>3, <2>7 DEF SendToUser, Runs, Carries
    <3>2. PICK x : x = [do |-> "sendJson", user |-> f.user, msg |-> f.msg,
                        conn |-> user_connections[f.user]]
      OBVIOUS
    <3>3. x \in SocketFrame /\ Carries(x, m, c)
      BY <2>2, <3>1, <3>2, FramesMade DEF Carries
    <3>4. stack' = [stack EXCEPT ![t] = <<x>> \o Tail(stack[t])]
      BY <2>3, <2>6, <2>7, <3>1, <3>2 DEF SendToUser, Registered, Pause
    <3>5. <<x>> \in Frames /\ In(x, <<x>>)
      BY <3>3, ShortSequences, InShort DEF Frames
    <3>6. QED
      BY <1>2, <1>3, <2>1, <2>4, <3>3, <3>4, <3>5, CalledIsIn
  <2>8. CASE SendJson(t)
    <3>1. f.do = "sendJson" /\ f.conn = c
      BY <1>1, <2>3, <2>8 DEF SendJson, Runs, Carries
    <3>2. inbox' = [inbox EXCEPT ![c] = @ \cup ({m} \cap Message)]
      BY <2>2, <2>3, <2>8, <3>1 DEF SendJson
    <3>3. QED
      BY <2>1, <3>2 DEF SocketsTypeOK
  <2>9. CASE BroadcastToChat(t)
    BY <2>2, <2>3, <2>9 DEF BroadcastToChat, Runs
  <2>10. CASE Each(t)
    <3>1. f.do = "each" /\ user_id[c] \in f.users /\ f.users \subseteq User
      BY <1>1, <2>3, <2>5, <2>10, FrameArguments DEF Each, Runs, Carries
    <3>2. PICK v \in f.users : Serve(t, v, f.users \ {v})
      BY <2>3, <2>10, <3>1 DEF Each
    <3>3. PICK x, y : /\ x = [SendFrame(v) EXCEPT !.msg = m]
                      /\ y = [do |-> "each", users |-> f.users \ {v}, msg |-> m]
      OBVIOUS
    <3>4. x \in SocketFrame /\ y \in SocketFrame
      BY <3>1, <3>2, <3>3, FramesMade
    <3>5. Carries(x, m, c) \/ Carries(y, m, c)
      BY <3>1, <3>3 DEF Carries, SendFrame
    <3>6. stack' = [stack EXCEPT ![t] = <<x, y>> \o Tail(stack[t])]
      BY <2>2, <2>3, <3>2, <3>3 DEF Serve, Passes, Continue
    <3>7. <<x, y>> \in Frames /\ In(x, <<x, y>>) /\ In(y, <<x, y>>)
      BY <3>4, ShortSequences, InShort DEF Frames
    <3>8. QED
      BY <1>2, <1>3, <2>1, <2>4, <3>5, <3>6, <3>7, CalledIsIn
  <2>11. QED
    BY <2>3, <2>7, <2>8, <2>9, <2>10
<1>6. QED
  BY <1>4, <1>5

LEMMA DeliveryOKNext ==
  ASSUME SocketsInv, DeliveryOK, [SocketsNext]_socketVars
  PROVE  DeliveryOK'
<1> SUFFICES ASSUME NEW m \in Message, NEW c \in addressed'[m] \ {NoConn},
                    user_connections'[user_id'[c]] = c, socket'[c] = "open", m \notin inbox'[c]
             PROVE  OnItsWay(m, c)'
  BY DEF DeliveryOK
<1>0. SocketsTypeOK /\ UserKnown /\ StacksOrdered /\ NoConnectionLeftBehind /\ ConnOK /\ SettledOK
  BY DEF SocketsInv, StacksInv
<1>1. ASSUME NEW t \in Task, BroadcastToChat(t), Top(t).msg = m
      PROVE  OnItsWay(m, c)'
  <2> DEFINE room == chat_connections[Top(t).chat] \ {Top(t).except}
  <2>1. Busy(t) /\ Top(t).chat \in Chat /\ room \in SUBSET User
    <3>1. Busy(t) /\ Top(t).chat \in Chat
      BY <1>0, <1>1, TopType, FrameArguments DEF BroadcastToChat, Runs, Scheduled
    <3>2. QED
      BY <1>0, <3>1 DEF SocketsTypeOK
  <2>2. c \in {user_connections[u] : u \in room}
    BY <1>0, <1>1 DEF BroadcastToChat, SocketsTypeOK
  <2>3. PICK x : x = [do |-> "each", users |-> room, msg |-> m]
    OBVIOUS
  <2>4. stack' = [stack EXCEPT ![t] = <<x>> \o Tail(stack[t])] /\ user_id' = user_id
    BY <1>1, <2>3 DEF BroadcastToChat, Continue, session
  <2> HIDE DEF room
  <2>5. PICK u \in User : u \in room /\ c = user_connections[u]
    BY <2>1, <2>2
  <2>6. user_id[c] = u
    BY <1>0, <2>5 DEF NoConnectionLeftBehind, Registered, Sessions
  <2>7. x \in SocketFrame
    BY <2>1, <2>3, FramesMade
  <2>8. Carries(x, m, c)'
    BY <2>3, <2>4, <2>5, <2>6 DEF Carries
  <2>9. <<x>> \in Frames /\ In(x, <<x>>)
    BY <2>7, ShortSequences, InShort DEF Frames
  <2>10. In(x, stack'[t])
    BY <1>0, <2>1, <2>4, <2>9, CalledIsIn
  <2>11. QED
    BY <2>8, <2>10 DEF OnItsWay, In
<1>2. ASSUME c \in addressed[m]
      PROVE  OnItsWay(m, c)'
  <2>1. c \in Conn /\ Settled(c) /\ user_id[c] \in User
    BY <1>0, <1>2 DEF SettledOK, SocketsTypeOK
  <2>2. user_id'[c] = user_id[c] /\ socket[c] = "open"
    BY <1>0, <2>1, SettledStays, ClosedStays DEF Settled
  <2>3. ~Register(c)
    <3>1. c \in Task
      BY <2>1, TasksApart
    <3>2. QED
      BY <1>0, <2>1, <3>1, TopIn DEF Register, Runs, Scheduled, Settled, Starting
  <2>4. user_connections[user_id[c]] = c
    BY <1>0, <2>1, <2>2, <2>3, BooksOfUser
  <2>5. m \notin inbox[c]
    <3>1. ASSUME NEW t \in Task, SendJson(t), m \in inbox[c]
          PROVE  m \in inbox'[c]
      BY <1>0, <2>1, <3>1 DEF SendJson, SocketsTypeOK
    <3>2. QED
      BY <3>1, Writers
  <2>6. OnItsWay(m, c)
    BY <1>2, <2>2, <2>4, <2>5 DEF DeliveryOK
  <2>7. QED
    BY <2>1, <2>2, <2>4, <2>6, CarrierGoesOn
<1>3. \/ addressed'[m] = addressed[m] \/ addressed'[m] = {}
      \/ \E t \in Task : BroadcastToChat(t) /\ Top(t).msg = m
  <2>1. ASSUME NEW n \in Message, Uses(n)
        PROVE  addressed'[m] = addressed[m] \/ addressed'[m] = {}
    BY <1>0, <2>1 DEF Uses, SocketsTypeOK
  <2>2. ASSUME NEW t \in Task, BroadcastToChat(t), Top(t).msg # m
        PROVE  addressed'[m] = addressed[m]
    BY <1>0, <2>2 DEF BroadcastToChat, SocketsTypeOK
  <2>3. QED
    BY <2>1, <2>2, Writers
<1>4. QED
  BY <1>1, <1>2, <1>3

LEMMA SocketsInvInit == SocketsInit => SocketsInv /\ DeliveryOK
<1> SUFFICES ASSUME SocketsInit PROVE SocketsInv /\ DeliveryOK
  OBVIOUS
<1>1. StacksInv
  BY StacksInvInit
<1>2. /\ \A t \in Task : ~Busy(t) /\ \A kinds : ~Has(t, kinds)
      /\ \A u \in User : ~Registered(u)
      /\ \A m \in Message : addressed[m] = {NoConn}
      /\ \A c \in Conn : socket[c] = "new" /\ user_id[c] = NoUser
  BY DEF SocketsInit, AsyncInit, Busy, Has, Registered
<1>3. SessionsEnd /\ NoConnectionLeftBehind
  BY <1>2, TasksApart DEF SessionsEnd, NoConnectionLeftBehind
<1>4. ConnOK
  BY <1>2, TasksApart DEF ConnOK
<1>5. SettledOK /\ DeliveryOK
  BY <1>2 DEF SettledOK, DeliveryOK
<1>6. QED
  BY <1>1, <1>3, <1>4, <1>5 DEF SocketsInv

\* A broadcast that is over has reached whoever it was for and is still connected,
\* although it awaits between one participant and the next, and they come and go: a
\* connection that leaves the books, or is closed, never comes back.
THEOREM BroadcastsAreDelivered == SocketsSpec => []BroadcastDelivered
<1>1. SocketsInv /\ DeliveryOK => BroadcastDelivered
  <2> SUFFICES ASSUME SocketsInv, DeliveryOK, NEW m \in Message,
                      \A t \in Task : \A i \in DOMAIN stack[t] :
                        "msg" \in DOMAIN stack[t][i] => stack[t][i].msg # m,
                      NEW c \in addressed[m] \ {NoConn},
                      user_connections[user_id[c]] = c, socket[c] = "open", m \notin inbox[c]
               PROVE  FALSE
    BY DEF BroadcastDelivered
  <2>1. PICK t \in Task : \E i \in DOMAIN stack[t] : Carries(stack[t][i], m, c)
    BY DEF DeliveryOK, OnItsWay
  <2>2. PICK i \in DOMAIN stack[t] : Carries(stack[t][i], m, c)
    BY <2>1
  <2>3. stack[t][i] \in SocketFrame
    BY DEF SocketsInv, StacksInv, SocketsTypeOK
  <2>4. stack[t][i].do \in {"each", "send", "sendJson"} /\ stack[t][i].msg = m
    BY <2>2 DEF Carries
  <2>5. "msg" \in DOMAIN stack[t][i]
    BY <2>3, <2>4 DEF SocketFrame
  <2>6. QED
    BY <2>4, <2>5
<1>2. QED
  BY <1>1, SocketsInvInit, SocketsInvNext, DeliveryOKNext, PTL DEF SocketsSpec

-----------------------------------------------------------------------------
(* Sessions that are alone.                                                *)

\* What a session that begins finds, and what it spoils.
LEMMA OpenAlone ==
  ASSUME SocketsTypeOK, NEW e \in Conn, Open(e)
  PROVE  \E u \in User :
           /\ user_id'[e] = u
           /\ alone'[e] => Sessions(u) = {} /\ ~Pending(u)
           /\ \A d \in Conn \ {e} : alone'[d] => alone[d] /\ d \notin Sessions(u)
<1>1. PICK u \in User :
        /\ user_id' = [user_id EXCEPT ![e] = u]
        /\ alone' = [d \in Conn |-> IF d = e THEN Sessions(u) = {} /\ ~Pending(u)
                                    ELSE alone[d] /\ d \notin Sessions(u)]
  BY DEF Open
<1>2. user_id'[e] = u
  BY <1>1 DEF SocketsTypeOK
<1>3. alone'[e] => Sessions(u) = {} /\ ~Pending(u)
  BY <1>1
<1>4. \A d \in Conn \ {e} : alone'[d] => alone[d] /\ d \notin Sessions(u)
  BY <1>1
<1>5. QED
  BY <1>2, <1>3, <1>4

\* A session that is alone after a step, and did not begin in it, was so before.
LEMMA AloneBefore ==
  ASSUME SocketsTypeOK, [SocketsNext]_socketVars, NEW c \in Conn, ~Open(c)
  PROVE  (alone'[c] => alone[c]) /\ user_id'[c] = user_id[c]
<1>1. ASSUME NEW e \in Conn, Open(e)
      PROVE  (alone'[c] => alone[c]) /\ user_id'[c] = user_id[c]
  <2>1. c # e
    BY <1>1
  <2>2. QED
    BY <1>1, <2>1, OpenAlone, OpenOthers
<1>2. QED
  BY <1>1, Writers

LEMMA AloneOKNext ==
  ASSUME SocketsInv, AloneOK, [SocketsNext]_socketVars
  PROVE  AloneOK'
<1> SUFFICES ASSUME NEW c \in Conn, NEW d \in Conn, stack'[c] # <<>>, stack'[d] # <<>>, c # d,
                    user_id'[c] = user_id'[d], alone'[c]
             PROVE  FALSE
  BY DEF AloneOK, Busy
<1>0. SocketsTypeOK /\ UserKnown /\ SessionsEnd /\ c \in Task /\ d \in Task
  BY TasksApart DEF SocketsInv, StacksInv
<1>1. CASE Open(c)
  <2>1. stack'[d] = stack[d] /\ user_id'[d] = user_id[d]
    BY <1>0, <1>1, OpenOthers
  <2>2. d \in Sessions(user_id'[c])
    BY <2>1 DEF Sessions, Busy
  <2>3. QED
    BY <1>0, <1>1, <2>2, OpenAlone
<1>2. CASE Open(d)
  <2>1. stack'[c] = stack[c] /\ user_id'[c] = user_id[c]
    BY <1>0, <1>2, OpenOthers
  <2>2. c \in Sessions(user_id'[d])
    BY <2>1 DEF Sessions, Busy
  <2>3. QED
    BY <1>0, <1>2, <2>2, OpenAlone
<1>3. CASE ~Open(c) /\ ~Open(d)
  <2>1. Busy(c) /\ Busy(d)
    BY <1>0, <1>3, SessionsGoOn DEF NotBegun
  <2>2. alone[c] /\ user_id'[c] = user_id[c] /\ user_id'[d] = user_id[d]
    BY <1>0, <1>3, AloneBefore
  <2>3. QED
    BY <2>1, <2>2 DEF AloneOK
<1>4. QED
  BY <1>1, <1>2, <1>3

\* A session that is alone creates a chat only if its user has none.
LEMMA ChatsOKNext ==
  ASSUME SocketsInv, AloneOK, ChatsOK, [SocketsNext]_socketVars
  PROVE  ChatsOK'
<1>0. SocketsTypeOK /\ UserKnown /\ SessionsEnd /\ StacksOrdered /\ ConnOK
  BY DEF SocketsInv, StacksInv
<1>1. ASSUME NEW c \in Conn, alone'[c], NEW f, In(f, stack'[c]), f.do = "createChat",
             NEW ch \in Chat
      PROVE  owner'[ch] # user_id'[c]
  <2>0. c \in Task
    BY TasksApart
  <2>1. CASE FindChat(c)
    <3>1. owner' = owner /\ user_id' = user_id /\ Top(c).do = "findChat"
      BY <2>1 DEF FindChat, Runs
    <3>2. ~Pushes(c, Serving) /\ ~Drops(c, {"finally"})
      BY <1>0, <1>1, <2>0, <3>1, PushedFrames, DroppedFrames DEF Above, Starting, Doing, Serving
    <3>3. owner[ch] # user_id[c]
      BY <1>0, <2>1, <3>2, SessionShapes
    <3>4. QED
      BY <3>1, <3>3
  <2>2. CASE ~FindChat(c)
    <3>1. In(f, stack[c])
      BY <1>0, <1>1, <2>0, <2>2, WhoBrings DEF Kept
    <3>2. Busy(c) /\ Has(c, {"createChat"}) /\ ~Open(c)
      BY <1>1, <3>1, InShort, HasIn DEF Busy, Open
    <3>3. alone[c] /\ user_id'[c] = user_id[c] /\ owner[ch] # user_id[c]
      BY <1>0, <1>1, <3>2, AloneBefore DEF ChatsOK
    <3>4. ASSUME NEW d \in Conn, CreateChat(d), owner'[ch] = user_id[c]
          PROVE  FALSE
      <4>1. user_id[d] = user_id[c] /\ Busy(d) /\ Top(d).do = "createChat"
        BY <1>0, <3>3, <3>4 DEF CreateChat, Runs, Scheduled, SocketsTypeOK
      <4>2. d = c
        BY <3>2, <3>3, <4>1 DEF AloneOK
      <4>3. Pushes(c, Serving) \/ Drops(c, {"finally"})
        BY <1>0, <3>4, <4>2, SessionShapes
      <4>4. QED
        BY <1>0, <1>1, <2>0, <4>1, <4>2, <4>3, PushedFrames, DroppedFrames
          DEF Above, Starting, Doing, Serving
    <3>5. QED
      BY <3>3, <3>4, Writers
  <2>3. QED
    BY <2>1, <2>2
<1>2. ASSUME NEW u \in User, \A c \in Conn : user_id'[c] = u => alone'[c],
             NEW ch1 \in Chat, NEW ch2 \in Chat, owner'[ch1] = u, owner'[ch2] = u
      PROVE  ch1 = ch2
  <2>1. \A c \in Conn : user_id[c] = u => alone[c]
    <3> SUFFICES ASSUME NEW c \in Conn, user_id[c] = u PROVE alone[c]
      OBVIOUS
    <3>1. ~Open(c)
      BY <1>0, SocketsAssumption DEF ConnOK, Open
    <3>2. QED
      BY <1>0, <1>2, <3>1, AloneBefore
  <2>2. \A x, y \in Chat : owner[x] = u /\ owner[y] = u => x = y
    BY <2>1 DEF ChatsOK
  <2>3. ASSUME NEW d \in Conn, CreateChat(d)
        PROVE  ch1 = ch2
    <3>1. d \in Task /\ Busy(d) /\ Top(d).do = "createChat"
      BY <2>3, TasksApart DEF CreateChat, Runs, Scheduled
    <3>2. Has(d, {"createChat"})
      BY <1>0, <3>1, TopIn
    <3>3. CASE owner' = owner
      BY <1>2, <2>2, <3>3
    <3>4. ASSUME NEW ch \in Chat, owner' = [owner EXCEPT ![ch] = user_id[d]]
          PROVE  ch1 = ch2
      <4>1. \A x \in Chat : owner'[x] = IF x = ch THEN user_id[d] ELSE owner[x]
        BY <1>0, <3>4 DEF SocketsTypeOK
      <4>2. CASE user_id[d] = u
        <5>1. \A x \in Chat : owner[x] # u
          BY <2>1, <3>2, <4>2 DEF ChatsOK
        <5>2. QED
          BY <1>2, <4>1, <5>1
      <4>3. CASE user_id[d] # u
        BY <1>2, <2>2, <4>1, <4>3
      <4>4. QED
        BY <4>2, <4>3
    <3>5. QED
      BY <2>3, <3>3, <3>4 DEF CreateChat
  <2>4. CASE owner' = owner
    BY <1>2, <2>2, <2>4
  <2>5. QED
    BY <2>3, <2>4, Writers
<1>3. QED
  BY <1>1, <1>2 DEF ChatsOK, Has, In

LEMMA AloneInit == SocketsInit => AloneOK /\ ChatsOK /\ SentOK /\ ConnectedOK
<1> SUFFICES ASSUME SocketsInit PROVE AloneOK /\ ChatsOK /\ SentOK /\ ConnectedOK
  OBVIOUS
<1>1. /\ \A t \in Task : ~Busy(t) /\ \A kinds : ~Has(t, kinds)
      /\ \A ch \in Chat : owner[ch] = NoUser
  BY DEF SocketsInit, AsyncInit, Busy, Has
<1>2. \A c \in Conn : ~Busy(c) /\ \A kinds : ~Has(c, kinds)
  BY <1>1, TasksApart
<1>3. AloneOK /\ SentOK /\ ConnectedOK
  BY <1>2 DEF AloneOK, SentOK, ConnectedOK
<1>4. ChatsOK
  BY <1>1, <1>2, SocketsAssumption DEF ChatsOK
<1>5. QED
  BY <1>3, <1>4

\* Looking for the active chat of a client and creating it are two transactions;
\* while his sessions do not overlap, no second chat comes of it.
THEOREM ClientsHaveOneChat == SocketsSpec => []OneChatEach
<1>1. ChatsOK => OneChatEach
  <2> SUFFICES ASSUME ChatsOK, NEW u \in User, \A c \in Conn : user_id[c] = u => alone[c]
               PROVE  Cardinality({ch \in Chat : owner[ch] = u}) <= 1
    BY DEF OneChatEach
  <2> DEFINE mine == {ch \in Chat : owner[ch] = u}
  <2>1. \A x, y \in mine : x = y
    BY DEF ChatsOK
  <2> HIDE DEF mine
  <2>2. CASE mine = {}
    BY <2>2, FS_EmptySet DEF mine
  <2>3. ASSUME NEW x \in mine
        PROVE  Cardinality(mine) <= 1
    <3>1. mine = {x}
      BY <2>1, <2>3
    <3>2. Cardinality(mine) = 1
      BY <3>1, FS_Singleton
    <3>3. QED
      BY <3>2
  <2>4. QED
    BY <2>2, <2>3 DEF mine
<1>2. QED
  BY <1>1, SocketsInvInit, AloneInit, SocketsInvNext, AloneOKNext, ChatsOKNext, PTL DEF SocketsSpec

-----------------------------------------------------------------------------
(* Who touches a session that is alone.                                    *)

\* What is new on a stack has just been called.
LEMMA NewIsCalled ==
  ASSUME SocketsTypeOK, NEW t \in Task, Busy(t), NEW s \in Frames, NEW f,
         stack' = [stack EXCEPT ![t] = s \o Tail(stack[t])], In(f, stack'[t])
  PROVE  In(f, s) \/ In(f, stack[t])
<1>1. stack'[t] = s \o Tail(stack[t])
  BY DEF SocketsTypeOK
<1>2. stack[t] \in Frames /\ stack[t] # <<>> /\ Tail(stack[t]) \in Frames
  BY TopType
<1>3. In(f, s \o Tail(stack[t]))
  BY <1>1
<1>4. In(f, s) \/ In(f, Tail(stack[t]))
  BY <1>2, <1>3, InConcat
<1>5. In(f, Tail(stack[t])) => In(f, stack[t])
  BY <1>2, InTail
<1>6. QED
  BY <1>4, <1>5

\* The last thing a session does is to disconnect its user.
LEMMA FinallyCalls ==
  ASSUME SocketsTypeOK, UserKnown, NEW c \in Conn, Finally(c), NEW f, In(f, stack'[c]),
         ~In(f, stack[c]), f.do = "disconnect"
  PROVE  f.user = user_id[c]
<1> DEFINE room == IF chat_id[c] = NoChat THEN <<>>
                   ELSE <<RoomFrame("leaveChat", user_id[c], chat_id[c])>>
           last == <<QueueFrame, DisconnectFrame(user_id[c])>>
<1>1. c \in Task /\ Busy(c) /\ user_id[c] \in User /\ chat_id[c] \in Chat \cup {NoChat}
  BY TasksApart DEF Finally, Runs, Scheduled, UserKnown, SocketsTypeOK
<1>2. /\ chat_id[c] # NoChat => RoomFrame("leaveChat", user_id[c], chat_id[c]) \in SocketFrame
      /\ QueueFrame \in SocketFrame /\ DisconnectFrame(user_id[c]) \in SocketFrame
  BY <1>1, FramesMade DEF QueueFrame, RoomFrame
<1>3. room \in Frames /\ last \in Frames
  BY <1>2, ShortSequences DEF Frames
<1>4. \A g : In(g, room) => g.do = "leaveChat"
  BY InShort DEF RoomFrame
<1>5. \A g : In(g, last) /\ g.do = "disconnect" => g.user = user_id[c]
  BY InShort DEF QueueFrame, DisconnectFrame
<1>6. stack' = [stack EXCEPT ![c] = (room \o last) \o Tail(stack[c])]
  BY DEF Finally, Passes, Continue
<1> HIDE DEF room, last
<1>7. room \o last \in Frames
  BY <1>3, ConcatProperties DEF Frames
<1>8. In(f, room \o last)
  BY <1>1, <1>6, <1>7, NewIsCalled
<1>9. QED
  BY <1>3, <1>4, <1>5, <1>8, InConcat

\* Once a session does not start or receive any more, it never does again.
LEMMA OverStays ==
  ASSUME SocketsTypeOK, UserKnown, StacksOrdered, [SocketsNext]_socketVars, NEW c \in Conn,
         Busy(c), ~Has(c, Starting \cup {"receive"})
  PROVE  ~Has(c, Starting \cup {"receive"})'
<1>1. c \in Task /\ ~Open(c)
  BY TasksApart DEF Open
<1>2. ~FindChat(c) /\ ~CreateChat(c) /\ ~ConnectUser(c) /\ ~Accept(c)
  <2>1. Top(c).do \notin Starting
    BY <1>1, TopIn
  <2>2. QED
    BY <2>1 DEF FindChat, CreateChat, ConnectUser, Accept, Runs, Starting
<1>3. /\ Kept(c, {"findChat"}) /\ Kept(c, {"createChat"}) /\ Kept(c, {"connect", "receive"})
      /\ Kept(c, {"accept"}) /\ Kept(c, {"closePrevious", "register"})
  BY <1>1, <1>2, WhoBrings
<1>4. QED
  BY <1>3 DEF Has, In, Kept, Starting

Touches(f, u) == f.do \in {"sendJson", "disconnect"} /\ f.user = u

LEMMA SentFrame ==
  ASSUME SentOK, NEW c \in Conn, Busy(c), alone[c], NEW t \in Task, NEW f, In(f, stack[t]),
         Touches(f, user_id[c])
  PROVE  /\ f.do = "sendJson" => f.conn = c
         /\ f.do = "disconnect" => \/ socket[c] = "closed"
                                   \/ t = c /\ ~Has(c, Starting \cup {"receive"})
<1>1. PICK i \in DOMAIN stack[t] : stack[t][i] = f
  BY DEF In
<1>2. stack[t][i].do \in {"sendJson", "disconnect"} /\ stack[t][i].user = user_id[c]
  BY <1>1 DEF Touches
<1>3. /\ stack[t][i].do = "sendJson" => stack[t][i].conn = c
      /\ stack[t][i].do = "disconnect" => \/ socket[c] = "closed"
                                          \/ t = c /\ ~Has(c, Starting \cup {"receive"})
  BY <1>2 DEF SentOK
<1>4. QED
  BY <1>1, <1>3

LEMMA SentOKNext ==
  ASSUME SocketsInv, AloneOK, SentOK, [SocketsNext]_socketVars
  PROVE  SentOK'
<1> SUFFICES ASSUME NEW c \in Conn, NEW t \in Task, NEW f, In(f, stack'[t]),
                    stack'[c] # <<>>, alone'[c], Touches(f, user_id'[c])
             PROVE  /\ f.do = "sendJson" => f.conn = c
                    /\ f.do = "disconnect" =>
                         \/ socket'[c] = "closed"
                         \/ t = c /\ ~Has(c, Starting \cup {"receive"})'
  BY DEF SentOK, In, Busy, Touches
<1>0. /\ SocketsTypeOK /\ UserKnown /\ SessionsEnd /\ StacksOrdered /\ ConnOK
      /\ NoConnectionLeftBehind /\ c \in Task
  BY TasksApart DEF SocketsInv, StacksInv
<1>1. CASE Open(c)
  <2>1. CASE t = c
    <3>1. Drops(c, {"findChat", "finally"})
      BY <1>0, <1>1, SessionShapes
    <3>2. QED
      BY <2>1, <3>1, DroppedFrames DEF Doing, Touches
  <2>2. CASE t # c
    <3>1. In(f, stack[t])
      BY <1>0, <1>1, <2>2, OpenOthers
    <3>2. Pending(user_id'[c])
      BY <3>1 DEF Pending, In, Touches
    <3>3. QED
      BY <1>0, <1>1, <3>2, OpenAlone
  <2>3. QED
    BY <2>1, <2>2
<1>2. CASE ~Open(c)
  <2>1. Busy(c) /\ alone[c] /\ user_id'[c] = user_id[c] /\ Touches(f, user_id[c])
    BY <1>0, <1>2, SessionsGoOn, AloneBefore DEF NotBegun
  <2>2. \A d \in Conn : Busy(d) /\ user_id[d] = user_id[c] => d = c
    BY <2>1 DEF AloneOK
  <2>3. \A g : In(g, stack[t]) /\ Touches(g, user_id[c]) =>
                 /\ g.do = "sendJson" => g.conn = c
                 /\ g.do = "disconnect" => \/ socket[c] = "closed"
                                           \/ t = c /\ ~Has(c, Starting \cup {"receive"})
    BY <2>1, SentFrame
  <2>4. socket[c] = "closed" => socket'[c] = "closed"
    BY <1>0, ClosedStays
  <2>5. CASE In(f, stack[t])
    <3>1. ~Has(c, Starting \cup {"receive"}) => ~Has(c, Starting \cup {"receive"})'
      BY <1>0, <2>1, OverStays
    <3>2. QED
      BY <2>1, <2>3, <2>4, <2>5, <3>1
  <2>6. ASSUME ~In(f, stack[t]), SendToUser(t)
        PROVE  f.do = "sendJson" /\ f.conn = c
    <3>1. Busy(t) /\ Top(t).user \in User /\ Top(t).msg \in Message \cup {Reply}
      BY <1>0, <2>6, TopType, FrameArguments DEF SendToUser, Runs, Scheduled
    <3>2. PICK x : x = [do |-> "sendJson", user |-> Top(t).user, msg |-> Top(t).msg,
                        conn |-> user_connections[Top(t).user]]
      OBVIOUS
    <3>3. CASE Registered(Top(t).user) /\ Pause(t, <<x>>)
      <4>1. user_connections[Top(t).user] \in Conn
        BY <1>0, <3>1, <3>3 DEF Registered, SocketsTypeOK
      <4>2. x \in SocketFrame
        BY <3>1, <3>2, <4>1, FramesMade
      <4>3. <<x>> \in Frames
        BY <4>2, ShortSequences DEF Frames
      <4>4. f = x
        <5>1. In(f, <<x>>)
          BY <1>0, <2>6, <3>1, <3>3, <4>3, NewIsCalled DEF Pause
        <5>2. QED
          BY <5>1, InShort
      <4>5. Top(t).user = user_id[c]
        BY <2>1, <3>2, <4>4 DEF Touches
      <4>6. user_connections[Top(t).user] = c
        BY <1>0, <2>2, <3>1, <3>3, <4>1, <4>5 DEF NoConnectionLeftBehind, Sessions
      <4>7. QED
        BY <3>2, <4>4, <4>6
    <3>4. CASE Continue(t, <<>>)
      BY <1>0, <2>6, <3>1, <3>4, ShortSequences, NewIsCalled, InShort DEF Continue, Frames
    <3>5. QED
      BY <2>6, <3>2, <3>3, <3>4 DEF SendToUser
  <2>7. ASSUME ~In(f, stack[t]), SendJson(t)
        PROVE  f.do = "disconnect" /\ socket[c] = "closed"
    <3>1. Busy(t) /\ Top(t).user \in User /\ Top(t).do = "sendJson" /\ In(Top(t), stack[t])
      BY <1>0, <2>7, TopIn, TopType, FrameArguments DEF SendJson, Runs, Scheduled
    <3>2. PICK x : x = DisconnectFrame(Top(t).user)
      OBVIOUS
    <3>3. CASE Continue(t, <<x>>) /\ socket[Top(t).conn] = "closed"
      <4>1. <<x>> \in Frames
        BY <3>1, <3>2, FramesMade, ShortSequences DEF Frames
      <4>2. f = x
        BY <1>0, <2>7, <3>1, <3>3, <4>1, NewIsCalled, InShort DEF Continue
      <4>3. f.do = "disconnect" /\ f.user = Top(t).user
        BY <3>2, <4>2 DEF DisconnectFrame
      <4>4. Top(t).conn = c
        BY <2>1, <2>3, <3>1, <4>3 DEF Touches
      <4>5. QED
        BY <3>3, <4>3, <4>4
    <3>4. CASE Continue(t, <<>>)
      BY <1>0, <2>7, <3>1, <3>4, ShortSequences, NewIsCalled, InShort DEF Continue, Frames
    <3>5. QED
      BY <2>7, <3>2, <3>3, <3>4 DEF SendJson
  <2>8. ASSUME ~In(f, stack[t]), t \in Conn, Finally(t), f.do = "disconnect"
        PROVE  t = c /\ ~Has(c, Starting \cup {"receive"})'
    <3>1. Busy(t) /\ Top(t).do = "finally" /\ user_id[t] = user_id[c]
      BY <1>0, <2>1, <2>8, FinallyCalls DEF Finally, Runs, Scheduled, Touches
    <3>2. t = c
      BY <2>2, <2>8, <3>1
    <3>3. Pushes(c, {"leaveChat", "queue", "disconnect"})
      BY <1>0, <2>8, <3>2, SessionShapes
    <3>4. \A g : In(g, stack'[c]) => g.do \notin Starting \cup {"receive"}
      BY <1>0, <3>1, <3>2, <3>3, PushedFrames DEF Above, Doing, Starting
    <3>5. QED
      BY <3>2, <3>4 DEF Has, In
  <2>9. ~In(f, stack[t]) => \/ f.do = "sendJson" /\ SendToUser(t)
                            \/ f.do = "disconnect" /\ (SendJson(t) \/ (t \in Conn /\ Finally(t)))
    BY <1>0, <2>1, WhoBrings DEF Kept, Touches
  <2>10. QED
    BY <2>4, <2>5, <2>6, <2>7, <2>8, <2>9
<1>3. QED
  BY <1>1, <1>2

LEMMA ConnectedOKNext ==
  ASSUME SocketsInv, AloneOK, SentOK, ConnectedOK, [SocketsNext]_socketVars
  PROVE  ConnectedOK'
<1> SUFFICES ASSUME NEW c \in Conn, alone'[c], socket'[c] = "open", Has(c, {"receive"})',
                    ~Has(c, Starting)'
             PROVE  user_connections'[user_id'[c]] = c
  BY DEF ConnectedOK
<1>0. /\ SocketsTypeOK /\ UserKnown /\ SessionsEnd /\ StacksOrdered /\ ConnOK
      /\ NoConnectionLeftBehind /\ c \in Task
      /\ \A kinds : Has(c, kinds)' <=> \E f : In(f, stack'[c]) /\ f.do \in kinds
  BY TasksApart DEF SocketsInv, StacksInv, Has, In
<1>1. ~Open(c)
  BY <1>0 DEF Open, SocketsTypeOK
<1>2. alone[c] /\ user_id'[c] = user_id[c]
  BY <1>0, <1>1, AloneBefore
<1>3. CASE ~Has(c, Starting)
  <2>1. ~FindChat(c) /\ ~CreateChat(c) /\ ~Accept(c)
    <3>1. Busy(c) => Top(c).do \notin Starting
      BY <1>0, <1>3, TopIn
    <3>2. QED
      BY <3>1 DEF FindChat, CreateChat, Accept, Runs, Scheduled, Starting
  <2>2. Has(c, {"receive"})
    <3>1. Kept(c, {"connect", "receive"})
      BY <1>0, <2>1, WhoBrings
    <3>2. QED
      BY <1>0, <3>1, HasIn DEF Kept
  <2>3. Busy(c)
    BY <2>2, HasIn, InShort DEF Busy
  <2>4. user_id[c] \in User
    BY <1>0, <2>3 DEF UserKnown
  <2>5. socket[c] = "open"
    <3>1. ASSUME NEW d \in Conn, Open(d)
          PROVE  socket[c] = "open"
      BY <1>0, <1>1, <3>1, OpenOthers
    <3>2. ASSUME NEW d \in Conn, Break(d) \/ Accept(d) \/ ClosePrevious(d)
          PROVE  socket[c] = "open"
      BY <1>0, <2>1, <3>2 DEF Break, Accept, ClosePrevious, SocketsTypeOK
    <3>3. QED
      BY <3>1, <3>2, Writers
  <2>6. user_connections[user_id[c]] = c
    BY <1>2, <1>3, <2>2, <2>5 DEF ConnectedOK
  <2>7. ASSUME NEW d \in Conn, Register(d), user_id[d] = user_id[c]
        PROVE  d = c
    BY <1>2, <2>3, <2>7 DEF Register, Runs, Scheduled, AloneOK
  <2>8. ASSUME NEW t \in Task, DisconnectUser(t), Top(t).user = user_id[c]
        PROVE  FALSE
    <3>1. Busy(t) /\ Top(t).do = "disconnect" /\ In(Top(t), stack[t])
      BY <1>0, <2>8, TopIn DEF DisconnectUser, Runs, Scheduled
    <3>2. socket[c] = "closed" \/ ~Has(c, Starting \cup {"receive"})
      BY <1>2, <2>3, <2>8, <3>1, SentFrame DEF Touches
    <3>3. QED
      BY <2>2, <2>5, <3>2 DEF Has
  <2>9. QED
    BY <1>0, <1>2, <2>4, <2>6, <2>7, <2>8, BooksOfUser
<1>4. CASE Has(c, Starting)
  <2>1. Busy(c) /\ Top(c).do \in Starting
    BY <1>0, <1>4, StartingOnTop
  <2>2. \/ FindChat(c) \/ CreateChat(c) \/ ConnectUser(c) \/ Accept(c) \/ ClosePrevious(c)
        \/ Register(c) \/ WaitForLock(c) \/ stack'[c] = stack[c]
    <3>1. CASE ~Own(c)
      BY <1>0, <3>1, OthersStep
    <3>2. c \notin Notifier
      BY TasksApart
    <3>3. CASE SessionOwn(c)
      BY <1>1, <2>1, <3>3
        DEF SessionOwn, SessionStep, Receive, QueueReturns, AwaitOutside, PeerGone, Finally, Runs,
            Starting
    <3>4. CASE ManagerStep(c)
      BY <2>1, <3>4
        DEF ManagerStep, ChangeRoom, DisconnectUser, ReleaseLock, Leave, LeaveFrame, SendToUser,
            SendJson, BroadcastToChat, BroadcastToRole, Each, Runs, Starting
    <3>5. QED
      BY <3>1, <3>2, <3>3, <3>4 DEF Own
  <2>3. CASE FindChat(c) \/ CreateChat(c) \/ ConnectUser(c)
    <3>1. Top(c).do \in {"findChat", "createChat", "connect", "accept"} /\ socket' = socket
      BY <2>3 DEF FindChat, CreateChat, ConnectUser, Runs, world
    <3>2. socket[c] = "opening"
      BY <1>0, <2>1, <3>1, TopIn DEF ConnOK
    <3>3. QED
      BY <3>1, <3>2
  <2>4. CASE Accept(c)
    <3>1. PICK x, y : x = [do |-> "closePrevious"] /\ y = [do |-> "register"]
      OBVIOUS
    <3>2. /\ <<x, y>> \in Frames /\ <<y>> \in Frames /\ In(y, <<x, y>>) /\ In(y, <<y>>)
          /\ y.do \in Starting
      BY <3>1, FramesMade, ShortSequences, InShort DEF Frames, Starting
    <3>3. Continue(c, <<x, y>>) \/ Continue(c, <<y>>)
      BY <1>0, <2>4, <3>1 DEF Accept, SocketsTypeOK
    <3>4. In(y, stack'[c])
      BY <1>0, <2>1, <3>2, <3>3, CalledIsIn DEF Continue
    <3>5. QED
      BY <1>0, <3>2, <3>4
  <2>5. CASE ClosePrevious(c)
    <3>1. Top(c).do = "closePrevious" /\ Pushes(c, {})
      BY <1>0, <2>5, SessionShapes DEF ClosePrevious, Runs
    <3>2. Has(c, {"register"})
      BY <1>0, <2>1, <3>1, TopIn DEF ConnOK
    <3>3. PICK f : In(f, stack[c]) /\ f.do = "register"
      BY <3>2, HasIn
    <3>4. In(f, stack'[c])
      BY <1>0, <3>1, <3>3, PushStays DEF TailStays
    <3>5. QED
      BY <1>0, <3>3, <3>4 DEF Starting
  <2>6. CASE Register(c)
    <3>1. user_id[c] \in User
      BY <1>0, <2>1 DEF UserKnown
    <3>2. QED
      BY <1>0, <1>2, <2>6, <3>1 DEF Register, SocketsTypeOK
  <2>7. CASE WaitForLock(c) \/ stack'[c] = stack[c]
    BY <1>0, <1>4, <2>7, ManagerShapes, HasIn
  <2>8. QED
    BY <2>2, <2>3, <2>4, <2>5, <2>6, <2>7
<1>5. QED
  BY <1>3, <1>4

\* A user whose sessions do not overlap stays in the books while he is connected: a
\* clean-up that is late, or a send that has failed, is never about his session.
THEOREM AloneUsersStayConnected == SocketsSpec => []AloneStaysConnected
<1>1. SocketsInv /\ ConnectedOK => AloneStaysConnected
  <2> SUFFICES ASSUME SocketsInv, ConnectedOK, NEW c \in Conn, alone[c], socket[c] = "open",
                      Busy(c), Top(c).do = "receive"
               PROVE  user_connections[user_id[c]] = c
    BY DEF AloneStaysConnected
  <2>1. SocketsTypeOK /\ StacksOrdered /\ c \in Task
    BY TasksApart DEF SocketsInv, StacksInv
  <2>2. Has(c, {"receive"})
    BY <2>1, TopIn
  <2>3. ~Has(c, Starting)
    BY <2>1, StartingOnTop DEF Starting
  <2>4. QED
    BY <2>2, <2>3 DEF ConnectedOK
<1>2. QED
  BY <1>1, SocketsInvInit, AloneInit, SocketsInvNext, AloneOKNext, SentOKNext, ConnectedOKNext, PTL
    DEF SocketsSpec
================================================================================
