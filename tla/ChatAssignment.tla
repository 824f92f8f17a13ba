---------------------------- MODULE ChatAssignment ----------------------------
(***************************************************************************)
(* ChatAssignmentManager (utils/assignment_manager.py) over the support    *)
(* queue, and the end points that call it (endpoints/chats/chat_kafka.py,  *)
(* endpoints/chats/admin_chat.py).                                         *)
(*                                                                         *)
(* Each of the two routers has a manager of its own, with a lock and a     *)
(* cache of its own, over the one queue_manager and the one database.      *)
(* Calls of the database may suspend the task and may fail.  The program   *)
(* ships with KAFKA_ENABLED off: sending an event does nothing and no      *)
(* event handler runs.  ChatEvents adds what happens if it is on.          *)
(***************************************************************************)
EXTENDS SupportQueue

CONSTANTS DbOutcome,    \* how a call of the database can end
          Role,         \* Role[o]: what get_operator_type answers for operator o
          OwnOperator,  \* OwnOperator[c]: the operator client c counts as himself
          KafkaEnabled, \* KAFKA_ENABLED
          Entries       \* the kinds of calls made from outside

\* The event handlers have a manager too.
Manager == {"chat", "admin"} \cup (IF KafkaEnabled THEN {"events"} ELSE {})

ASSUME ManagerAssumption ==
  /\ Lock = {"queue", "assignment"} \cup Manager
  /\ DbOutcome \subseteq {"ok", "error"}
  /\ OperatorType = {"support", "lawyer"}
  /\ Role \in [Operator -> OperatorType]
  /\ OwnOperator \in [Client -> Operator \cup {NoOperator}]
  /\ KafkaEnabled \in BOOLEAN

VARIABLES returned,            \* returned[t]: the last answer the queue gave t
          chat_operator,       \* stored: chats.user_support_id
          participants,        \* stored: the operators who have not left a chat
          closed,              \* stored: the chats that are not active
          lawyer_chats,        \* stored: the lawyers a client has a chat with
          lawyers,             \* stored: the lawyers assigned to a client
          lawyer_assignments   \* the lawyer each manager remembers for a client

storageVars == <<chat_operator, participants, closed, lawyer_chats, lawyers>>
assignmentVars == <<returned, storageVars, lawyer_assignments>>
allVars == <<vars, assignmentVars>>

AssignmentInit ==
  /\ Init
  /\ returned = [t \in Task |-> FALSE]
  /\ chat_operator = [ch \in Chat |-> NoOperator]
  /\ participants = [ch \in Chat |-> {}]
  /\ closed = {}
  /\ lawyer_chats = [c \in Client |-> {}]
  /\ lawyers = [c \in Client |-> {}]
  /\ lawyer_assignments = [m \in Manager |-> [c \in Client |-> NoOperator]]

CanTake(o) == Registered(o) /\ CanAcceptChat(o)

\* A step of t that only makes the calls frames.
Passes(t, frames) ==
  /\ Continue(t, frames)
  /\ UNCHANGED <<holder, queueVars, assignmentVars>>

\* A step of t that enters the lock of manager m and makes the calls frames.
Enters(t, m, frames) ==
  /\ Acquire(t, m)
  /\ Continue(t, frames \o <<LeaveFrame(m)>>)
  /\ UNCHANGED <<queueVars, assignmentVars>>

\* A call of the database is on its way.
Io == [do |-> "io"]

\* The database answers at once, or the task yields until it does.
AwaitDatabase(t) ==
  /\ Runs(t, "io")
  /\ \/ Continue(t, <<>>)
     \/ stack' = [stack EXCEPT ![t] = Tail(@)] /\ running' = NoTask
  /\ UNCHANGED <<holder, queueVars, assignmentVars>>

\* The method sends events, one after the other: if one cannot be sent, the
\* frames of undo take the place of the rest of the method, or, if it throws,
\* of the whole call.
Send(events, undo, throws) ==
  IF KafkaEnabled
  THEN <<[do |-> "send", events |-> events, undo |-> undo, throws |-> throws]>>
  ELSE <<>>

ChatEvent(e, ch)        == [event |-> e, chat |-> ch]
OperatorEvent(e, o)     == [event |-> e, operator |-> o]
AssignedEvent(e, ch, o) == [event |-> e, chat |-> ch, operator |-> o]

-----------------------------------------------------------------------------
(* The end points.                                                         *)

OfflineFrame(o) == [do |-> "goOffline", operator |-> o]

\* set_operator_online; a session that cannot go on ends and goes off line.
ManagerOnline(t) ==
  LET f == Top(t) IN
  /\ Runs(t, "goOnline")
  /\ Passes(t, <<[do |-> "online", operator |-> f.operator, type |-> Role[f.operator]]>>
               \o Send(<<OperatorEvent("operator_online", f.operator)>>,
                       IF f.session THEN <<OfflineFrame(f.operator)>> ELSE <<>>, TRUE))

\* set_operator_offline.
ManagerOffline(t) ==
  LET f == Top(t) IN
  /\ Runs(t, "goOffline")
  /\ Passes(t, IF ~Registered(f.operator) THEN <<>>
               ELSE <<[do |-> "offline", operator |-> f.operator]>>
                    \o Send(<<OperatorEvent("operator_offline", f.operator)>>, <<>>, TRUE))

\* A client connects. The answer of get_operator_type decides whether he is
\* an operator too: as long as it is a stub, everybody is one. The greeting is
\* sent before he joins the queue.
Connect(t) ==
  LET ch  == Top(t).chat
      own == OwnOperator[ClientOf[ch]]
      join == <<Io, [do |-> "joinQueue", chat |-> ch]>>
  IN
  /\ Runs(t, "connect")
  /\ Passes(t, IF own = NoOperator THEN join
               ELSE <<[do |-> "goOnline", operator |-> own, session |-> TRUE]>> \o join)

\* He joins the queue unless his chat has an operator.
JoinQueue(t) ==
  LET ch == Top(t).chat IN
  /\ Runs(t, "joinQueue")
  /\ Passes(t, IF chat_assignments[ch] # NoOperator THEN <<>>
               ELSE <<[do |-> "add", client |-> ClientOf[ch], chat |-> ch]>>)

\* The client still waits when this is asked; the chat is assigned later.
AcceptChat(t) ==
  LET f == Top(t) IN
  /\ Runs(t, "accept")
  /\ Passes(t, IF ClientOf[f.chat] \notin Waiting THEN <<>>
               ELSE <<[do |-> "managerAssign", manager |-> "chat",
                       chat |-> f.chat, operator |-> f.operator]>>)

\* An operator gives away a chat of his.
OperatorTransfer(t) ==
  LET f == Top(t) IN
  /\ Runs(t, "operatorTransfer")
  /\ Passes(t, IF chat_assignments[f.chat] # f.from THEN <<>>
               ELSE <<[do |-> "managerTransfer", manager |-> "chat", chat |-> f.chat,
                       operator |-> f.operator, forced |-> FALSE]>>)

\* An administrator moves anybody's chat.
AdminTransfer(t) ==
  LET f == Top(t) IN
  /\ Runs(t, "adminTransfer")
  /\ \/ /\ chat_assignments[f.chat] = NoOperator \/ ~CanTake(f.operator)
        /\ Passes(t, <<>>)
     \/ /\ chat_assignments[f.chat] # NoOperator /\ CanTake(f.operator)
        /\ Passes(t, <<[do |-> "managerTransfer", manager |-> "admin",
                        chat |-> f.chat, operator |-> f.operator, forced |-> TRUE]>>)

\* An operator closes the chat he has open: the database hears of it, and whoever
\* reads the event.
OperatorClose(t) ==
  /\ Runs(t, "operatorClose")
  /\ Passes(t, <<Io, [do |-> "closeChat", chat |-> Top(t).chat, release |-> FALSE]>>)

\* force_close_chat.
AdminClose(t) ==
  /\ Runs(t, "adminClose")
  /\ Passes(t, <<Io, [do |-> "closeChat", chat |-> Top(t).chat, release |-> TRUE]>>)

OperatorLawyer(t) ==
  LET f == Top(t) IN
  /\ Runs(t, "operatorLawyer")
  /\ Passes(t, <<[do |-> "managerLawyer", manager |-> "chat",
                  client |-> f.client, lawyer |-> f.lawyer]>>)

\* An administrator first looks whether the client has a lawyer: in the cache,
\* then in the database.
AdminLawyer(t) ==
  LET f == Top(t) IN
  /\ Runs(t, "adminLawyer")
  /\ Passes(t, IF lawyer_assignments["admin"][f.client] # NoOperator THEN <<>>
               ELSE <<Io, [do |-> "readLawyer", client |-> f.client, lawyer |-> f.lawyer]>>)

-----------------------------------------------------------------------------
(* Assigning a chat.                                                       *)

ManagerAssign(t) ==
  LET f == Top(t) IN
  /\ Runs(t, "managerAssign")
  /\ Enters(t, f.manager,
       IF ~CanTake(f.operator) THEN <<>>
       ELSE <<[do |-> "assign", chat |-> f.chat, operator |-> f.operator,
               client |-> ClientOf[f.chat]],
              [do |-> "storeAssignment", chat |-> f.chat, operator |-> f.operator]>>)

StoreAssignment(t) ==
  LET f == Top(t) IN
  /\ Runs(t, "storeAssignment")
  /\ Passes(t, IF ~returned[t] THEN <<>>
               ELSE <<Io, [do |-> "updateChat", chat |-> f.chat, operator |-> f.operator]>>)

RollbackFrame(ch) == [do |-> "rollback", chat |-> ch]

\* The chat and its participants are two transactions.
UpdateChatOperator(t) ==
  LET f == Top(t) IN
  /\ Runs(t, "updateChat")
  /\ \/ /\ "ok" \in DbOutcome
        /\ chat_operator' = [chat_operator EXCEPT ![f.chat] = f.operator]
        /\ Continue(t, <<Io, [do |-> "addParticipant", chat |-> f.chat,
                              operator |-> f.operator]>>)
     \/ /\ "error" \in DbOutcome
        /\ Continue(t, <<RollbackFrame(f.chat)>>)
        /\ UNCHANGED chat_operator
  /\ UNCHANGED <<holder, queueVars, returned, participants, closed, lawyer_chats,
                 lawyers, lawyer_assignments>>

AddChatParticipant(t) ==
  LET f == Top(t) IN
  /\ Runs(t, "addParticipant")
  /\ \/ /\ "ok" \in DbOutcome
        /\ participants' = [participants EXCEPT ![f.chat] = @ \cup {f.operator}]
        /\ Continue(t, Send(<<AssignedEvent("chat_assigned", f.chat, f.operator),
                              AssignedEvent("operator_accept_chat", f.chat, f.operator)>>,
                            <<RollbackFrame(f.chat)>>, FALSE))
     \/ /\ "error" \in DbOutcome
        /\ Continue(t, <<RollbackFrame(f.chat)>>)
        /\ UNCHANGED participants
  /\ UNCHANGED <<holder, queueVars, returned, chat_operator, closed, lawyer_chats,
                 lawyers, lawyer_assignments>>

\* The rollback takes the assignment from the dictionary itself.
FaultyRollBack(t) ==
  /\ Runs(t, "rollback")
  /\ chat_assignments' = [chat_assignments EXCEPT ![Top(t).chat] = NoOperator]
  /\ Continue(t, <<>>)
  /\ UNCHANGED <<holder, waiting_clients, operators, assignmentVars>>

\* The rollback of an assignment that could not be stored.
RollBack(t) ==
  /\ Runs(t, "rollback")
  /\ Passes(t, <<[do |-> "release", chat |-> Top(t).chat]>>)

-----------------------------------------------------------------------------
(* Releasing and transferring a chat.                                      *)

\* release_operator_from_chat, without the manager's lock.
ManagerRelease(t) ==
  LET ch == Top(t).chat
      o  == chat_assignments[ch]
  IN
  /\ Runs(t, "managerRelease")
  /\ Passes(t, IF o = NoOperator THEN <<>>
               ELSE <<[do |-> "release", chat |-> ch], Io,
                      [do |-> "markLeft", chat |-> ch, operator |-> o]>>)

MarkChatParticipantLeft(t) ==
  LET f == Top(t) IN
  /\ Runs(t, "markLeft")
  /\ \/ /\ "ok" \in DbOutcome
        /\ participants' = [participants EXCEPT ![f.chat] = @ \ {f.operator}]
     \/ /\ "error" \in DbOutcome
        /\ UNCHANGED participants
  /\ Continue(t, <<>>)
  /\ UNCHANGED <<holder, queueVars, returned, chat_operator, closed, lawyer_chats,
                 lawyers, lawyer_assignments>>

\* The event is sent before the chat is stored as closed.
FaultyCloseChat(t) ==
  LET f == Top(t) IN
  /\ Runs(t, "closeChat")
  /\ Passes(t, Send(<<ChatEvent("chat_closed", f.chat)>>, <<>>, FALSE))

CloseChat(t) ==
  LET f == Top(t) IN
  /\ Runs(t, "closeChat")
  /\ \/ /\ "ok" \in DbOutcome
        /\ closed' = closed \cup {f.chat}
        /\ Continue(t, (IF f.release THEN <<[do |-> "managerRelease", chat |-> f.chat]>>
                        ELSE <<>>)
                       \o Send(<<ChatEvent("chat_closed", f.chat)>>, <<>>, FALSE))
     \/ /\ "error" \in DbOutcome
        /\ Continue(t, <<>>)
        /\ UNCHANGED closed
  /\ UNCHANGED <<holder, queueVars, returned, chat_operator, participants, lawyer_chats,
                 lawyers, lawyer_assignments>>

\* The lock is given back before the transfer is stored.
FaultyManagerTransfer(t) ==
  LET f == Top(t) IN
  /\ Runs(t, "managerTransfer")
  /\ Acquire(t, f.manager)
  /\ Continue(t, IF ~CanTake(f.operator) THEN <<LeaveFrame(f.manager)>>
       ELSE <<[do |-> "transfer", chat |-> f.chat, operator |-> f.operator],
              LeaveFrame(f.manager),
              [do |-> "storeTransfer", chat |-> f.chat, operator |-> f.operator,
               forced |-> f.forced]>>)
  /\ UNCHANGED <<queueVars, assignmentVars>>

ManagerTransfer(t) ==
  LET f == Top(t) IN
  /\ Runs(t, "managerTransfer")
  /\ Enters(t, f.manager,
       IF ~CanTake(f.operator) THEN <<>>
       ELSE <<[do |-> "transfer", chat |-> f.chat, operator |-> f.operator],
              [do |-> "storeTransfer", chat |-> f.chat, operator |-> f.operator,
               forced |-> f.forced]>>)

\* A transfer that was refused is tried again, in the lock.
FaultyStoreTransfer(t) ==
  LET f == Top(t) IN
  /\ Runs(t, "storeTransfer")
  /\ Passes(t, IF ~returned[t]
               THEN <<[do |-> "managerTransfer", manager |-> "chat", chat |-> f.chat,
                       operator |-> f.operator, forced |-> f.forced]>>
               ELSE <<Io, [f EXCEPT !.do = "transferStored"]>>)

StoreTransfer(t) ==
  LET f == Top(t) IN
  /\ Runs(t, "storeTransfer")
  /\ Passes(t, IF ~returned[t] THEN <<>>
               ELSE <<Io, [f EXCEPT !.do = "transferStored"]>>)

\* One transaction; then the client of the chat is read for the event.  After
\* an error the answer is that the chat could not be transferred; the queue has
\* moved it all the same.
TransferStoredChat(t) ==
  LET f == Top(t) IN
  /\ Runs(t, "transferStored")
  /\ \/ /\ "ok" \in DbOutcome
        /\ chat_operator' = [chat_operator EXCEPT ![f.chat] = f.operator]
        /\ participants' = [participants EXCEPT ![f.chat] = {f.operator}]
        /\ Continue(t, <<Io>> \o
             Send(<<AssignedEvent("chat_transferred", f.chat, f.operator)>>
                  \o (IF f.forced THEN <<AssignedEvent("force_transfer", f.chat, f.operator)>>
                      ELSE <<>>), <<>>, FALSE))
     \/ /\ "error" \in DbOutcome
        /\ Continue(t, <<>>)
        /\ UNCHANGED <<chat_operator, participants>>
  /\ UNCHANGED <<holder, queueVars, returned, closed, lawyer_chats, lawyers,
                 lawyer_assignments>>

-----------------------------------------------------------------------------
(* Personal lawyers.                                                       *)

\* get_client_lawyer of the administrators' manager, once the database
\* answers; if it fails the client counts as having no lawyer.
ReadLawyer(t) ==
  LET f == Top(t)
      assign == [do |-> "managerLawyer", manager |-> "admin",
                 client |-> f.client, lawyer |-> f.lawyer]
  IN
  /\ Runs(t, "readLawyer")
  /\ \/ /\ "ok" \in DbOutcome
        /\ \E o \in lawyers[f.client] :
             lawyer_assignments' = [lawyer_assignments EXCEPT !["admin"][f.client] = o]
        /\ Continue(t, <<>>)
     \/ /\ "ok" \in DbOutcome /\ lawyers[f.client] = {}
        /\ Continue(t, <<assign>>)
        /\ UNCHANGED lawyer_assignments
     \/ /\ "error" \in DbOutcome
        /\ Continue(t, <<assign>>)
        /\ UNCHANGED lawyer_assignments
  /\ UNCHANGED <<holder, queueVars, returned, storageVars>>

\* assign_personal_lawyer.
ManagerLawyer(t) ==
  LET f == Top(t)
      store == <<Io, [do |-> "createLawyerChat", manager |-> f.manager,
                      client |-> f.client, lawyer |-> f.lawyer]>>
  IN
  /\ Runs(t, "managerLawyer")
  /\ Enters(t, f.manager,
       IF Registered(f.lawyer) THEN store
       ELSE <<[do |-> "register", operator |-> f.lawyer, type |-> "lawyer"]>> \o store)

CreateLawyerChat(t) ==
  LET f == Top(t) IN
  /\ Runs(t, "createLawyerChat")
  /\ \/ /\ "ok" \in DbOutcome
        /\ lawyer_chats' = [lawyer_chats EXCEPT ![f.client] = @ \cup {f.lawyer}]
        /\ Continue(t, <<Io, [do |-> "storeLawyer", manager |-> f.manager,
                              client |-> f.client, lawyer |-> f.lawyer]>>)
     \/ /\ "error" \in DbOutcome
        /\ Continue(t, <<>>)
        /\ UNCHANGED lawyer_chats
  /\ UNCHANGED <<holder, queueVars, returned, chat_operator, participants, closed,
                 lawyers, lawyer_assignments>>

\* The manager remembers the lawyer whatever the database says.
FaultyCreateLawyerAssignment(t) ==
  LET f == Top(t) IN
  /\ Runs(t, "storeLawyer")
  /\ lawyers' \in {IF a = "ok" THEN [lawyers EXCEPT ![f.client] = @ \cup {f.lawyer}]
                   ELSE lawyers : a \in DbOutcome}
  /\ lawyer_assignments' = [lawyer_assignments EXCEPT ![f.manager][f.client] = f.lawyer]
  /\ Continue(t, <<>>)
  /\ UNCHANGED <<holder, queueVars, returned, chat_operator, participants, closed,
                 lawyer_chats>>

CreateLawyerAssignment(t) ==
  LET f == Top(t) IN
  /\ Runs(t, "storeLawyer")
  /\ \/ /\ "ok" \in DbOutcome
        /\ lawyers' = [lawyers EXCEPT ![f.client] = @ \cup {f.lawyer}]
        /\ lawyer_assignments' =
             [lawyer_assignments EXCEPT ![f.manager][f.client] = f.lawyer]
        /\ Continue(t, Send(<<[event |-> "lawyer_assigned", client |-> f.client,
                               lawyer |-> f.lawyer]>>, <<>>, FALSE))
     \/ /\ "error" \in DbOutcome
        /\ Continue(t, <<>>)
        /\ UNCHANGED <<lawyers, lawyer_assignments>>
  /\ UNCHANGED <<holder, queueVars, returned, chat_operator, participants, closed,
                 lawyer_chats>>

-----------------------------------------------------------------------------
(* The system.                                                             *)

\* Administrators' calls that go to the queue manager itself.
PriorityCalls == [do : {"reprioritise"}, client : Client, priority : Priority]
RemovalCalls  == [do : {"remove"}, client : Client]

\* The calls of users, operators and administrators.
EntryCalls ==
     [do : {"connect", "operatorClose", "adminClose"}, chat : Chat]
  \cup [do : {"accept", "adminTransfer"}, chat : Chat, operator : Operator]
  \cup [do : {"operatorTransfer"}, chat : Chat, operator : Operator, from : Operator]
  \cup [do : {"operatorLawyer", "adminLawyer"}, client : Client, lawyer : Operator]
  \cup [do : {"goOnline"}, operator : Operator, session : {FALSE}]
  \cup [do : {"goOffline"}, operator : Operator]
  \cup [do : {"busy"}, operator : Operator, busy : BOOLEAN]
  \cup PriorityCalls \cup RemovalCalls
  \cup [do : {"tick"}]

Enter(t) ==
  /\ \E f \in {g \in EntryCalls : g.do \in Entries} : Start(t, f)
  /\ UNCHANGED <<queueVars, assignmentVars>>

\* The lock of a manager the frame on top of t starts by asking for.
AsksManager(t, m) ==
  /\ Top(t).do \in {"managerAssign", "managerTransfer", "managerLawyer"}
  /\ Top(t).manager = m

WaitForManager(t) ==
  /\ Busy(t)
  /\ \E m \in Manager : AsksManager(t, m) /\ Wait(t, m)
  /\ UNCHANGED <<queueVars, assignmentVars>>

\* A step of the queue manager; what the two methods with an answer that is
\* looked at return, is kept.
QueueStep(t) ==
  /\ Step(t)
  /\ returned' = [returned EXCEPT ![t] =
       CASE Top(t).do = "assign"   -> CanTake(Top(t).operator)
         [] Top(t).do = "transfer" -> Transferable(Top(t).chat, Top(t).operator)
         [] OTHER -> @]
  /\ UNCHANGED <<storageVars, lawyer_assignments>>

ManagerStep(t) ==
  \/ ManagerOnline(t) \/ ManagerOffline(t)
  \/ Connect(t) \/ JoinQueue(t) \/ AcceptChat(t)
  \/ OperatorTransfer(t) \/ AdminTransfer(t)
  \/ OperatorClose(t) \/ AdminClose(t) \/ CloseChat(t)
  \/ OperatorLawyer(t) \/ AdminLawyer(t) \/ ReadLawyer(t)
  \/ ManagerAssign(t) \/ StoreAssignment(t) \/ UpdateChatOperator(t)
  \/ AddChatParticipant(t) \/ RollBack(t)
  \/ ManagerRelease(t) \/ MarkChatParticipantLeft(t)
  \/ ManagerTransfer(t) \/ StoreTransfer(t) \/ TransferStoredChat(t)
  \/ ManagerLawyer(t) \/ CreateLawyerChat(t) \/ CreateLawyerAssignment(t)
  \/ AwaitDatabase(t) \/ WaitForManager(t)

AssignmentNext == \E t \in Task : Enter(t) \/ QueueStep(t) \/ ManagerStep(t)

AssignmentSpec == AssignmentInit /\ [][AssignmentNext]_allVars

\* The event loop runs what is ready, and the database answers.
AssignmentFairSpec ==
  AssignmentSpec /\ \A t \in Task : WF_allVars(QueueStep(t) \/ ManagerStep(t))

-----------------------------------------------------------------------------
(* Properties.                                                             *)

Event ==
     [event : {"chat_created", "chat_closed"}, chat : Chat]
  \cup [event : {"operator_online", "operator_offline"}, operator : Operator]
  \cup [event : {"operator_accept_chat", "chat_assigned", "chat_transferred",
                 "force_transfer"}, chat : Chat, operator : Operator]
  \cup [event : {"lawyer_assigned"}, client : Client, lawyer : Operator]

SendFrame == [do : {"send"}, events : Seq(Event), throws : BOOLEAN,
              undo : {<<>>} \cup {<<RollbackFrame(ch)>> : ch \in Chat}
                            \cup {<<OfflineFrame(o)>> : o \in Operator}]

AssignmentFrame ==
     Frame
  \cup SendFrame
  \cup EntryCalls
  \cup {Io}
  \cup [do : {"joinQueue", "rollback", "managerRelease"}, chat : Chat]
  \cup [do : {"closeChat"}, chat : Chat, release : BOOLEAN]
  \cup [do : {"goOnline"}, operator : Operator, session : BOOLEAN]
  \cup [do : {"managerAssign"}, manager : Manager, chat : Chat, operator : Operator]
  \cup [do : {"managerTransfer"}, manager : Manager, chat : Chat, operator : Operator,
        forced : BOOLEAN]
  \cup [do : {"storeAssignment", "updateChat", "addParticipant", "markLeft"}, chat : Chat,
        operator : Operator]
  \cup [do : {"storeTransfer", "transferStored"}, chat : Chat, operator : Operator,
        forced : BOOLEAN]
  \cup [do : {"readLawyer"}, client : Client, lawyer : Operator]
  \cup [do : {"managerLawyer", "createLawyerChat", "storeLawyer"}, manager : Manager,
        client : Client, lawyer : Operator]

\* What the tables and the caches can hold.
StorageTypeOK ==
  /\ returned \in [Task -> BOOLEAN]
  /\ chat_operator \in [Chat -> Operator \cup {NoOperator}]
  /\ participants \in [Chat -> SUBSET Operator]
  /\ closed \subseteq Chat
  /\ lawyer_chats \in [Client -> SUBSET Operator]
  /\ lawyers \in [Client -> SUBSET Operator]
  /\ lawyer_assignments \in [Manager -> [Client -> Operator \cup {NoOperator}]]

\* What the queue manager sees of a task: the frames of its own methods, which
\* are on top as it never calls back.
QueueLocks == {"queue", "assignment"}
QueueFrames == {"add", "remove", "reprioritise", "assign", "release", "transfer",
  "register", "online", "offline", "busy", "tick", "tryAssign", "move", "vacate",
  "rehome", "autoAssign", "assignEach"}
OfQueue(f) == f.do \in QueueFrames \/ (f.do = "leave" /\ f.lock \in QueueLocks)
QueueDepth(s) ==
  CHOOSE n \in 0..Len(s) :
    /\ \A i \in 1..n : OfQueue(s[i])
    /\ n < Len(s) => ~OfQueue(s[n + 1])
QueuePart(s) == SubSeq(s, 1, QueueDepth(s))
QueueStack == [t \in Task |-> QueuePart(stack[t])]

Q == INSTANCE SupportQueue WITH
       Lock <- QueueLocks,
       stack <- QueueStack,
       running <- IF running = NoTask THEN NoTask
                  ELSE IF QueueStack[running] = <<>> THEN NoTask ELSE running,
       holder <- [l \in QueueLocks |-> holder[l]]

\* To the queue manager, the managers and the end points are tasks that call
\* its methods one at a time: what holds of SupportQueue holds here too,
\* although its methods run in the middle of others that wait for the database.
QueueIsUsedAsSpecified == Q!Spec

\* Task t cannot go on before another lets go of a lock.
Stuck(t) ==
  \/ \E l \in QueueLocks : Asks(t, l) /\ holder[l] # NoTask
  \/ \E m \in Manager : AsksManager(t, m) /\ holder[m] # NoTask

\* The managers' locks, held while others are asked for and while the database
\* is waited for, add no deadlock to those of the queue manager: if no task
\* can go on, one of them waits for a lock of the queue that it holds itself.
ManagersAddNoDeadlock ==
  LET busy == {t \in Task : Busy(t)} IN
  busy # {} /\ (\A t \in busy : Stuck(t)) =>
    \E t \in busy : \E l \in QueueLocks : Asks(t, l) /\ holder[l] = t

\* While no call is in progress, a chat of an operator the automatic assignment
\* never serves is stored as his, and he is stored as taking part in it: the
\* assignments and transfers of such chats all reach the database, in order.
StoredAgrees ==
  (\A t \in Task : ~Busy(t)) =>
    \A ch \in Chat :
      LET o == chat_assignments[ch] IN
      o # NoOperator /\ operators[o].type # "support" =>
        chat_operator[ch] = o /\ o \in participants[ch]

\* A manager only remembers a lawyer who is stored as the client's, and every
\* such lawyer has a chat with the client: whatever fails on the way.
LawyersStored ==
  \A c \in Client :
    /\ lawyers[c] \subseteq lawyer_chats[c]
    /\ \A m \in Manager : lawyer_assignments[m][c] \in lawyers[c] \cup {NoOperator}

-----------------------------------------------------------------------------
(* What the comments and the documentation say, and the code does not do.  *)

\* An assignment that could not be stored is rolled back ("Откатываем
\* назначение"): its client, whom it took from the queue, comes to wait again.
RolledBackClientWaits ==
  \A ch \in Chat :
    (\E t \in Task : Busy(t) /\ Top(t) = RollbackFrame(ch))
      ~> ClientOf[ch] \in Waiting
=============================================================================
