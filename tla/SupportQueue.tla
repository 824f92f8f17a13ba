----------------------------- MODULE SupportQueue -----------------------------
(***************************************************************************)
(* SupportQueueManager (utils/queue_manager.py): the clients that wait for *)
(* an operator, the operators and the chats each of them holds, and the    *)
(* two locks, _queue_lock and _assignment_lock.                            *)
(*                                                                         *)
(* A frame stands for a method of the class, or for the part of it between *)
(* two suspension points; an action runs the frame on top of a task.       *)
(* Operators named Faulty... are variants with a plausible mistake in them: *)
(* no action uses them, a property is only worth its run if putting one in *)
(* the place of the definition after it breaks the property.               *)
(***************************************************************************)
EXTENDS AsyncTasks, Naturals, FiniteSets

CONSTANTS Client, Chat, Operator,
          ClientOf,      \* ClientOf[ch]: the client whose chat ch is
          Priority,      \* the priorities a client can be given
          OperatorType,  \* "support", and types that are never auto-assigned
          MaxChats,      \* MaxChats[o]: max_concurrent_chats at o's registration
          NotWaiting,    \* no entry in waiting_clients
          NoOperator,    \* no entry in chat_assignments
          Unregistered   \* no entry in operators

ASSUME SupportAssumption ==
  /\ {"queue", "assignment"} \subseteq Lock
  /\ IsFiniteSet(Client) /\ IsFiniteSet(Chat)
  /\ ClientOf \in [Chat -> Client]
  /\ Priority \subseteq Nat /\ 0 \in Priority
  /\ "support" \in OperatorType
  /\ MaxChats \in [Operator -> Nat]
  /\ NoOperator \notin Operator
  /\ Unregistered \notin OperatorType

\* A QueuedClient. Of its timestamp only the order counts: "ahead" holds the
\* waiting clients whose timestamp is earlier.
QueuedClient == [chat : Chat, priority : Priority, ahead : SUBSET Client]

ASSUME NotWaitingAssumption == NotWaiting \notin QueuedClient

OperatorStatus == [type : OperatorType \cup {Unregistered}, is_online : BOOLEAN,
                   is_available : BOOLEAN, current_chats : SUBSET Chat]

VARIABLES waiting_clients,   \* client -> QueuedClient
          operators,         \* operator -> OperatorStatus
          chat_assignments   \* chat -> operator

queueVars == <<waiting_clients, operators, chat_assignments>>
vars == <<asyncVars, queueVars>>

QueueInit ==
  /\ waiting_clients = [c \in Client |-> NotWaiting]
  /\ operators = [o \in Operator |-> [type |-> Unregistered, is_online |-> FALSE,
                                      is_available |-> TRUE, current_chats |-> {}]]
  /\ chat_assignments = [ch \in Chat |-> NoOperator]

Init == AsyncInit /\ QueueInit

-----------------------------------------------------------------------------
(* What the methods read.                                                  *)

Waiting == {c \in Client : waiting_clients[c] # NotWaiting}

Registered(o) == operators[o].type # Unregistered

Load(o) == Cardinality(operators[o].current_chats)

\* The limit is overrun by one.
FaultyCanAccept(ops, o) ==
  /\ ops[o].is_online
  /\ ops[o].is_available
  /\ Cardinality(ops[o].current_chats) <= MaxChats[o]

\* can_accept_chat of o, with the operators as in ops.
CanAccept(ops, o) ==
  /\ ops[o].is_online
  /\ ops[o].is_available
  /\ Cardinality(ops[o].current_chats) < MaxChats[o]

CanAcceptChat(o) == CanAccept(operators, o)

AvailableSupport == {o \in Operator : operators[o].type = "support" /\ CanAcceptChat(o)}

\* get_available_operators("support")[0]; among equal loads the order of
\* registration decides, which is left open here.
LeastLoaded ==
  {o \in AvailableSupport : \A p \in AvailableSupport : Load(o) <= Load(p)}

\* c is served before d: sorted by (-priority, timestamp).
Before(c, d) ==
  \/ waiting_clients[c].priority > waiting_clients[d].priority
  \/ /\ waiting_clients[c].priority = waiting_clients[d].priority
     /\ c \in waiting_clients[d].ahead

\* First come, first served: the priority is forgotten.
FaultySortedClients ==
  {s \in [1..Cardinality(Waiting) -> Waiting] :
     \A i, j \in DOMAIN s : i < j => s[i] \in waiting_clients[s[j]].ahead}

\* The sorted snapshot of the waiting clients (there is exactly one).
SortedClients ==
  {s \in [1..Cardinality(Waiting) -> Waiting] :
     \A i, j \in DOMAIN s : i < j => Before(s[i], s[j])}

-----------------------------------------------------------------------------
(* The queue of waiting clients: under _queue_lock.                        *)

\* A step that runs the frame "do" on top of t.
Runs(t, do) == Scheduled(t) /\ Top(t).do = do

AddClientToQueue(t) ==
  /\ Runs(t, "add")
  /\ Acquire(t, "queue")
  /\ \/ /\ Top(t).client \in Waiting
        /\ Continue(t, <<LeaveFrame("queue")>>)
        /\ UNCHANGED waiting_clients
     \/ /\ Top(t).client \notin Waiting
        /\ waiting_clients' = [waiting_clients EXCEPT ![Top(t).client] =
             [chat |-> Top(t).chat, priority |-> 0, ahead |-> Waiting]]
        /\ Continue(t, <<[do |-> "tryAssign", client |-> Top(t).client],
                         LeaveFrame("queue")>>)
  /\ UNCHANGED <<operators, chat_assignments>>

\* The queue without client c.
Without(c) ==
  [d \in Client |->
     IF d = c \/ d \notin Waiting THEN NotWaiting
     ELSE [waiting_clients[d] EXCEPT !.ahead = @ \ {c}]]

RemoveClientFromQueue(t) ==
  /\ Runs(t, "remove")
  /\ Acquire(t, "queue")
  /\ waiting_clients' = Without(Top(t).client)
  /\ Continue(t, <<LeaveFrame("queue")>>)
  /\ UNCHANGED <<operators, chat_assignments>>

UpdateQueuePosition(t) ==
  /\ Runs(t, "reprioritise")
  /\ Acquire(t, "queue")
  /\ waiting_clients' = IF Top(t).client \in Waiting
       THEN [waiting_clients EXCEPT ![Top(t).client].priority = Top(t).priority]
       ELSE waiting_clients
  /\ Continue(t, <<LeaveFrame("queue")>>)
  /\ UNCHANGED <<operators, chat_assignments>>

\* The background task sleeps with the lock in its hands.
FaultyUpdateWaitTimes(t) ==
  /\ Runs(t, "tick")
  /\ holder["queue"] = NoTask
  /\ holder' = [holder EXCEPT !["queue"] = t]
  /\ stack' = [stack EXCEPT ![t] = <<LeaveFrame("queue")>>]
  /\ running' = NoTask
  /\ UNCHANGED queueVars

\* One turn of the background task. The wait times it refreshes only feed a
\* statistic and are not kept.
UpdateWaitTimes(t) ==
  /\ Runs(t, "tick")
  /\ Acquire(t, "queue")
  /\ Continue(t, <<LeaveFrame("queue")>>)
  /\ UNCHANGED queueVars

-----------------------------------------------------------------------------
(* Assignments of chats: under _assignment_lock.                           *)

\* The client is taken from the queue before the operator is looked at.
FaultyAssignChatToOperator(t) ==
  LET f == Top(t) IN
  /\ Runs(t, "assign")
  /\ Acquire(t, "assignment")
  /\ IF Registered(f.operator) /\ CanAcceptChat(f.operator)
     THEN /\ chat_assignments' = [chat_assignments EXCEPT ![f.chat] = f.operator]
          /\ operators' = [operators EXCEPT ![f.operator].current_chats = @ \cup {f.chat}]
     ELSE UNCHANGED <<operators, chat_assignments>>
  /\ Continue(t, <<[do |-> "remove", client |-> f.client], LeaveFrame("assignment")>>)
  /\ UNCHANGED waiting_clients

\* can_accept_chat is not asked again under the lock.
UncheckedAssignChatToOperator(t) ==
  LET f == Top(t) IN
  /\ Runs(t, "assign")
  /\ Acquire(t, "assignment")
  /\ chat_assignments' = [chat_assignments EXCEPT ![f.chat] = f.operator]
  /\ operators' = [operators EXCEPT ![f.operator].current_chats = @ \cup {f.chat}]
  /\ Continue(t, <<[do |-> "remove", client |-> f.client], LeaveFrame("assignment")>>)
  /\ UNCHANGED waiting_clients

AssignChatToOperator(t) ==
  LET f == Top(t) IN
  /\ Runs(t, "assign")
  /\ Acquire(t, "assignment")
  /\ \/ /\ ~(Registered(f.operator) /\ CanAcceptChat(f.operator))
        /\ Continue(t, <<LeaveFrame("assignment")>>)
        /\ UNCHANGED <<operators, chat_assignments>>
     \/ /\ Registered(f.operator) /\ CanAcceptChat(f.operator)
        /\ chat_assignments' = [chat_assignments EXCEPT ![f.chat] = f.operator]
        /\ operators' = [operators EXCEPT ![f.operator].current_chats = @ \cup {f.chat}]
        /\ Continue(t, <<[do |-> "remove", client |-> f.client],
                         LeaveFrame("assignment")>>)
  /\ UNCHANGED waiting_clients

\* The operators once chat ch is discarded from o's current_chats.
Discarding(ch, o) ==
  IF o = NoOperator THEN operators
  ELSE [operators EXCEPT ![o].current_chats = @ \ {ch}]

ReleaseOperatorFromChat(t) ==
  LET ch == Top(t).chat
      o  == chat_assignments[ch]
  IN
  /\ Runs(t, "release")
  /\ Acquire(t, "assignment")
  /\ \/ /\ o = NoOperator
        /\ Continue(t, <<LeaveFrame("assignment")>>)
        /\ UNCHANGED <<operators, chat_assignments>>
     \/ /\ o # NoOperator
        /\ chat_assignments' = [chat_assignments EXCEPT ![ch] = NoOperator]
        /\ operators' = Discarding(ch, o)
        /\ Continue(t, IF CanAccept(Discarding(ch, o), o)
                       THEN <<[do |-> "autoAssign"], LeaveFrame("assignment")>>
                       ELSE <<LeaveFrame("assignment")>>)
  /\ UNCHANGED waiting_clients

\* What transfer_chat checks: somebody has the chat, and o can take it.
Transferable(ch, o) ==
  chat_assignments[ch] # NoOperator /\ Registered(o) /\ CanAcceptChat(o)

\* It is not checked that the chat has an operator to be moved from.
FaultyTransferChat(t) ==
  LET f == Top(t) IN
  /\ Runs(t, "transfer")
  /\ Continue(t, IF Registered(f.operator) /\ CanAcceptChat(f.operator)
                 THEN <<[do |-> "move", chat |-> f.chat, operator |-> f.operator,
                         from |-> chat_assignments[f.chat]]>>
                 ELSE <<>>)
  /\ UNCHANGED <<holder, queueVars>>

\* transfer_chat up to its lock: who holds the chat, and whether the new
\* operator can take it, are read before the lock is asked for.
TransferChat(t) ==
  LET f == Top(t) IN
  /\ Runs(t, "transfer")
  /\ Continue(t, IF Transferable(f.chat, f.operator)
                 THEN <<[do |-> "move", chat |-> f.chat, operator |-> f.operator,
                         from |-> chat_assignments[f.chat]]>>
                 ELSE <<>>)
  /\ UNCHANGED <<holder, queueVars>>

\* The chat is added to the new operator and then discarded from the old one,
\* which may be the same.
FaultyMoveChat(t) ==
  LET f == Top(t) IN
  /\ Runs(t, "move")
  /\ Acquire(t, "assignment")
  /\ chat_assignments' = [chat_assignments EXCEPT ![f.chat] = f.operator]
  /\ operators' = [[operators EXCEPT ![f.operator].current_chats = @ \cup {f.chat}]
                     EXCEPT ![f.from].current_chats = @ \ {f.chat}]
  /\ Continue(t, <<LeaveFrame("assignment")>>)
  /\ UNCHANGED waiting_clients

\* ... and under it.
MoveChat(t) ==
  LET f == Top(t) IN
  /\ Runs(t, "move")
  /\ Acquire(t, "assignment")
  /\ chat_assignments' = [chat_assignments EXCEPT ![f.chat] = f.operator]
  /\ operators' = [Discarding(f.chat, f.from)
                     EXCEPT ![f.operator].current_chats = @ \cup {f.chat}]
  /\ Continue(t, <<LeaveFrame("assignment")>>)
  /\ UNCHANGED waiting_clients

-----------------------------------------------------------------------------
(* Operators coming and going: no lock.                                    *)

RegisterOperator(t) ==
  LET f == Top(t) IN
  /\ Runs(t, "register")
  /\ operators' = IF Registered(f.operator) THEN operators
                  ELSE [operators EXCEPT ![f.operator].type = f.type]
  /\ Continue(t, <<>>)
  /\ UNCHANGED <<holder, waiting_clients, chat_assignments>>

SetOperatorOnline(t) ==
  LET f == Top(t)
      s == operators[f.operator]
  IN
  /\ Runs(t, "online")
  /\ operators' = [operators EXCEPT ![f.operator] =
       [s EXCEPT !.type = IF @ = Unregistered THEN f.type ELSE @,
                 !.is_online = TRUE, !.is_available = TRUE]]
  /\ Continue(t, <<[do |-> "autoAssign"]>>)
  /\ UNCHANGED <<holder, waiting_clients, chat_assignments>>

SetOperatorOffline(t) ==
  LET o == Top(t).operator IN
  /\ Runs(t, "offline")
  /\ \/ /\ ~Registered(o)
        /\ Continue(t, <<>>)
        /\ UNCHANGED operators
     \/ /\ Registered(o)
        /\ operators' = [operators EXCEPT ![o].is_online = FALSE,
                                          ![o].is_available = FALSE]
        /\ Continue(t, <<[do |-> "vacate", chats |-> operators[o].current_chats]>>)
  /\ UNCHANGED <<holder, waiting_clients, chat_assignments>>

SetOperatorBusy(t) ==
  LET f == Top(t) IN
  /\ Runs(t, "busy")
  /\ operators' = IF Registered(f.operator)
                  THEN [operators EXCEPT ![f.operator].is_available = ~f.busy]
                  ELSE operators
  /\ Continue(t, <<>>)
  /\ UNCHANGED <<holder, waiting_clients, chat_assignments>>

\* The loop of set_operator_offline over list(current_chats), in any order.
VacateChats(t) ==
  LET chats == Top(t).chats IN
  /\ Runs(t, "vacate")
  /\ \/ chats = {} /\ Continue(t, <<>>)
     \/ \E ch \in chats :
          Continue(t, <<[do |-> "rehome", chat |-> ch],
                        [do |-> "vacate", chats |-> chats \ {ch}]>>)
  /\ UNCHANGED <<holder, queueVars>>

TransferChatToAvailableOperator(t) ==
  LET ch == Top(t).chat IN
  /\ Runs(t, "rehome")
  /\ \/ \E o \in LeastLoaded :
          Continue(t, <<[do |-> "transfer", chat |-> ch, operator |-> o]>>)
     \/ /\ AvailableSupport = {}
        /\ Continue(t, IF chat_assignments[ch] # NoOperator
                       THEN <<[do |-> "release", chat |-> ch]>> ELSE <<>>)
  /\ UNCHANGED <<holder, queueVars>>

-----------------------------------------------------------------------------
(* Automatic assignment.                                                   *)

TryAutoAssignClients(t) ==
  /\ Runs(t, "autoAssign")
  /\ \E s \in SortedClients : Continue(t, <<[do |-> "assignEach", clients |-> s]>>)
  /\ UNCHANGED <<holder, queueVars>>

\* The loop ends after its first client.
FaultyAssignEachClient(t) ==
  LET s == Top(t).clients IN
  /\ Runs(t, "assignEach")
  /\ Continue(t, IF s = <<>> THEN <<>>
                 ELSE <<[do |-> "tryAssign", client |-> Head(s)],
                        [do |-> "assignEach", clients |-> <<>>]>>)
  /\ UNCHANGED <<holder, queueVars>>

\* The loop does not get past a client that found no operator.
EndlessAssignEachClient(t) ==
  LET s == Top(t).clients IN
  /\ Runs(t, "assignEach")
  /\ Continue(t, IF s = <<>> THEN <<>>
                 ELSE <<[do |-> "tryAssign", client |-> Head(s)],
                        [do |-> "assignEach",
                         clients |-> IF AvailableSupport = {} THEN s ELSE Tail(s)]>>)
  /\ UNCHANGED <<holder, queueVars>>

AssignEachClient(t) ==
  LET s == Top(t).clients IN
  /\ Runs(t, "assignEach")
  /\ Continue(t, IF s = <<>> THEN <<>>
                 ELSE <<[do |-> "tryAssign", client |-> Head(s)],
                        [do |-> "assignEach", clients |-> Tail(s)]>>)
  /\ UNCHANGED <<holder, queueVars>>

TryAssignOperatorToClient(t) ==
  LET c == Top(t).client IN
  /\ Runs(t, "tryAssign")
  /\ \/ /\ c \notin Waiting \/ AvailableSupport = {}
        /\ Continue(t, <<>>)
     \/ /\ c \in Waiting
        /\ \E o \in LeastLoaded :
             Continue(t, <<[do |-> "assign", chat |-> waiting_clients[c].chat,
                            operator |-> o, client |-> c]>>)
  /\ UNCHANGED <<holder, queueVars>>

-----------------------------------------------------------------------------
(* The calls the rest of the program makes, and the system.                *)

Calls ==
     {[do |-> "add", client |-> ClientOf[ch], chat |-> ch] : ch \in Chat}
  \cup [do : {"remove"}, client : Client]
  \cup [do : {"reprioritise"}, client : Client, priority : Priority]
  \cup {[do |-> "assign", chat |-> ch, operator |-> o, client |-> ClientOf[ch]] :
          ch \in Chat, o \in Operator}
  \cup [do : {"release"}, chat : Chat]
  \cup [do : {"transfer"}, chat : Chat, operator : Operator]
  \cup [do : {"register", "online"}, operator : Operator, type : OperatorType]
  \cup [do : {"offline"}, operator : Operator]
  \cup [do : {"busy"}, operator : Operator, busy : BOOLEAN]
  \cup [do : {"tick"}]

Call(t) ==
  /\ \E f \in Calls : Start(t, f)
  /\ UNCHANGED queueVars

\* The lock the frame on top of t starts by asking for.
Asks(t, l) ==
  \/ l = "queue" /\ Top(t).do \in {"add", "remove", "reprioritise", "tick"}
  \/ l = "assignment" /\ Top(t).do \in {"assign", "release", "move"}

WaitForLock(t) ==
  /\ Busy(t)
  /\ \E l \in Lock : Asks(t, l) /\ Wait(t, l)
  /\ UNCHANGED queueVars

LeaveLock(t) == Leave(t) /\ UNCHANGED queueVars

Step(t) ==
  \/ AddClientToQueue(t) \/ RemoveClientFromQueue(t)
  \/ UpdateQueuePosition(t) \/ UpdateWaitTimes(t)
  \/ AssignChatToOperator(t) \/ ReleaseOperatorFromChat(t)
  \/ TransferChat(t) \/ MoveChat(t)
  \/ RegisterOperator(t) \/ SetOperatorOnline(t)
  \/ SetOperatorOffline(t) \/ SetOperatorBusy(t)
  \/ VacateChats(t) \/ TransferChatToAvailableOperator(t)
  \/ TryAutoAssignClients(t) \/ AssignEachClient(t)
  \/ TryAssignOperatorToClient(t)
  \/ WaitForLock(t) \/ LeaveLock(t)

Next == \E t \in Task : Call(t) \/ Step(t)

Spec == Init /\ [][Next]_vars

\* The event loop keeps running what is ready to run.
FairSpec == Spec /\ \A t \in Task : WF_vars(Step(t))

-----------------------------------------------------------------------------
(* Properties.                                                             *)

Frame ==
  Calls
  \cup [do : {"tryAssign"}, client : Client]
  \cup [do : {"assign"}, chat : Chat, operator : Operator, client : Client]
  \cup [do : {"move"}, chat : Chat, operator : Operator, from : Operator]
  \cup [do : {"vacate"}, chats : SUBSET Chat]
  \cup [do : {"rehome"}, chat : Chat]
  \cup [do : {"autoAssign"}]
  \cup [do : {"assignEach"}, clients : Seq(Client)]
  \cup [do : {"leave"}, lock : Lock]

\* Every variable holds what the Python attribute it stands for can hold, and
\* every frame the arguments its code expects.
TypeOK ==
  /\ stack \in [Task -> Seq(Frame)]
  /\ running \in Task \cup {NoTask}
  /\ holder \in [Lock -> Task \cup {NoTask}]
  /\ waiting_clients \in [Client -> QueuedClient \cup {NotWaiting}]
  /\ operators \in [Operator -> OperatorStatus]
  /\ chat_assignments \in [Chat -> Operator \cup {NoOperator}]

\* No operator ever holds more chats than its max_concurrent_chats, although
\* transfer_chat reads the free place before it waits for the lock under which
\* it takes it.
CapacityRespected == \A o \in Operator : Load(o) <= MaxChats[o]

\* An assigned chat counts against the operator it is assigned to: the two
\* dictionaries chat_assignments and operators agree in this direction.
AssignedChatIsHeld ==
  \A ch \in Chat : chat_assignments[ch] # NoOperator =>
    ch \in operators[chat_assignments[ch]].current_chats

\* An operator is given a further chat only in a step that starts with the
\* operator online, available and below its limit: no code path adds a chat on
\* the strength of a check that is out of date by then.
OnlyAcceptingOperatorsGainChats ==
  [][\A o \in Operator :
       \/ operators'[o].current_chats \subseteq operators[o].current_chats
       \/ (Registered(o) /\ CanAcceptChat(o))]_vars

\* The task is in the loop of _try_auto_assign_clients.
AutoAssigning(t) ==
  \E i \in DOMAIN stack[t] : stack[t][i].do = "assignEach"

\* When the loop of _try_auto_assign_clients is about to give a client to an
\* operator, nobody who should be served earlier is waiting: the sorted copy
\* the loop runs over is still the order of the queue.
NoOvertaking ==
  \A t \in Task :
    (running = t /\ AutoAssigning(t) /\ Top(t).do = "assign") =>
      \A d \in Waiting : ~Before(d, Top(t).client)

\* When that loop ends, either nobody waits or no support operator has room:
\* no match between a waiting client and a free operator is missed.
AutoAssignExhaustive ==
  \A t \in Task :
    (running = t /\ Top(t).do = "assignEach" /\ Top(t).clients = <<>>) =>
      Waiting = {} \/ AvailableSupport = {}

\* A client leaves the queue only because it is withdrawn by a call of
\* remove_client_from_queue, or because a chat of his was given to an
\* operator: no client is dropped by an assignment that was refused.
ServedOrWithdrawn ==
  [][\A c \in Waiting : c \in Waiting' \/
       \/ \E ch \in Chat : ClientOf[ch] = c /\ chat_assignments[ch] # NoOperator
       \/ \E t \in Task : stack[t] = <<[do |-> "remove", client |-> c]>>]_vars

\* A task that has to wait for a lock waits for ever. As long as no task
\* waits, every method of the class therefore runs without interruption.
SuspendedForever ==
  [][\A t \in Task : Suspended(t) => Suspended(t)' /\ UNCHANGED stack[t]]_vars

\* The first task to wait waits for a lock it holds itself, so if any task
\* waits, one such task is among them: two tasks that each hold the lock
\* the other asks for are never the cause.
OnlySelfDeadlock ==
  (\E t \in Task : Suspended(t)) =>
    \E t \in Task, l \in Lock : Suspended(t) /\ Asks(t, l) /\ holder[l] = t

\* Every task the loop runs gives the loop up again: the loops over the queue
\* and over an operator's chats end.
EveryTurnEnds == \A t \in Task : running = t ~> running # t

-----------------------------------------------------------------------------
(* What makes these properties inductive.                                  *)

\* A task holds a lock exactly while it is inside one "async with" block of it.
LockDiscipline ==
  /\ \A l \in Lock : holder[l] # NoTask =>
       \E i \in DOMAIN stack[holder[l]] : stack[holder[l]][i] = LeaveFrame(l)
  /\ \A t \in Task, l \in Lock : \A i \in DOMAIN stack[t] :
       stack[t][i] = LeaveFrame(l) =>
         /\ holder[l] = t
         /\ \A j \in DOMAIN stack[t] : stack[t][j] = LeaveFrame(l) => j = i

\* A task that waits, waits for a task that waits.
WaitersStuck ==
  \A t \in Task : Suspended(t) =>
    \E l \in Lock : Asks(t, l) /\ holder[l] # NoTask /\ Suspended(holder[l])

\* The check transfer_chat makes before it asks for the lock still holds when
\* its task gets it.
MoveReady ==
  /\ \A t \in Task : \A i \in DOMAIN stack[t] : stack[t][i].do = "move" => i = 1
  /\ \A t \in Task : (running = t /\ Busy(t) /\ Top(t).do = "move") =>
       Registered(Top(t).operator) /\ CanAcceptChat(Top(t).operator)

LockInv == TypeOK /\ LockDiscipline /\ WaitersStuck /\ OnlySelfDeadlock
IInv == LockInv /\ MoveReady /\ CapacityRespected /\ AssignedChatIsHeld

-----------------------------------------------------------------------------
(* What the comments and the documentation say, and the code does not do.  *)

\* A call of add_client_to_queue comes back: it tries to give the new client an
\* operator at once ("Пытаемся сразу назначить доступного оператора").
AddClientReturns ==
  \A t \in Task : (Busy(t) /\ Top(t).do = "add") ~> ~Busy(t)
=============================================================================
