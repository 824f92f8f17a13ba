-------------------------- MODULE SupportQueue_proofs --------------------------
(***************************************************************************)
(* What is proved of SupportQueue, for any sets of tasks, clients, chats   *)
(* and operators: its types, its locks, its books and its turns.           *)
(***************************************************************************)
EXTENDS SupportQueue, SequenceTheorems, FiniteSetTheorems, TLAPS

\* The methods of the class, and the end of a block of one of its locks.
Methods == {"add", "remove", "reprioritise", "assign", "release", "transfer", "register",
  "online", "offline", "busy", "tick", "tryAssign", "move", "vacate", "rehome", "autoAssign",
  "assignEach", "leave"}

\* The methods also run on stacks with other frames, those of the parts of the
\* program that call them: of F, those of the methods are as SupportQueue has them.
FrameSet(F) ==
  /\ Frame \subseteq F
  /\ \A f \in F : f.do \in Methods => f \in Frame

\* TypeOK, with the frames of F on the stacks.
TypedIn(F) ==
  /\ stack \in [Task -> Seq(F)]
  /\ running \in Task \cup {NoTask}
  /\ holder \in [Lock -> Task \cup {NoTask}]
  /\ waiting_clients \in [Client -> QueuedClient \cup {NotWaiting}]
  /\ operators \in [Operator -> OperatorStatus]
  /\ chat_assignments \in [Chat -> Operator \cup {NoOperator}]

LEMMA MethodsAlone == FrameSet(Frame) /\ (TypeOK <=> TypedIn(Frame))
  BY DEF FrameSet, TypedIn, TypeOK

\* The arguments a frame carries, by the method it belongs to.
LEMMA FrameArguments ==
  ASSUME NEW f \in Frame
  PROVE  /\ f.do \in {"add", "remove", "reprioritise", "tryAssign", "assign"}
              => f.client \in Client
         /\ f.do \in {"add", "assign", "release", "transfer", "move", "rehome"}
              => f.chat \in Chat
         /\ f.do \in {"assign", "transfer", "move", "register", "online",
                      "offline", "busy"} => f.operator \in Operator
         /\ f.do = "reprioritise" => f.priority \in Priority
         /\ f.do = "move" => f.from \in Operator
         /\ f.do \in {"register", "online"} => f.type \in OperatorType
         /\ f.do = "busy" => f.busy \in BOOLEAN
         /\ f.do = "vacate" => f.chats \in SUBSET Chat
         /\ f.do = "assignEach" => f.clients \in Seq(Client)
         /\ f.do = "leave" => f.lock \in Lock
  BY SupportAssumption DEF Frame, Calls

\* A sequence of frames of the methods is one of F.
LEMMA FramesInSet ==
  ASSUME NEW F, FrameSet(F), NEW s \in Seq(Frame)
  PROVE  s \in Seq(F)
  <1>1. s \in [1..Len(s) -> Frame] /\ Len(s) \in Nat
    BY LenProperties
  <1>2. s \in [1..Len(s) -> F]
    BY <1>1 DEF FrameSet
  <1> QED BY <1>1, <1>2

\* A frame is replaced by frames: stacks stay stacks of frames.
LEMMA ContinueType ==
  ASSUME NEW F, FrameSet(F), TypedIn(F), NEW t \in Task, Busy(t), NEW s \in Seq(Frame), Continue(t, s)
  PROVE  /\ stack' \in [Task -> Seq(F)]
         /\ running' \in Task \cup {NoTask}
  <1>1. Tail(stack[t]) \in Seq(F)
    BY HeadTailProperties DEF TypedIn, Busy
  <1>2. s \o Tail(stack[t]) \in Seq(F)
    BY <1>1, FramesInSet, ConcatProperties
  <1> QED BY <1>2 DEF TypedIn, Continue

\* Of the top of a busy task.
LEMMA TopType ==
  ASSUME NEW F, FrameSet(F), TypedIn(F), NEW t \in Task, Busy(t)
  PROVE  Top(t) \in F /\ (Top(t).do \in Methods => Top(t) \in Frame)
  BY HeadTailProperties DEF TypedIn, Busy, Top, FrameSet

\* The frames the methods put on a stack.
LEMMA FramesMade ==
  /\ \A c \in Client : /\ [do |-> "tryAssign", client |-> c] \in Frame
                       /\ [do |-> "remove", client |-> c] \in Frame
  /\ \A ch \in Chat : /\ [do |-> "release", chat |-> ch] \in Frame
                      /\ [do |-> "rehome", chat |-> ch] \in Frame
  /\ \A ch \in Chat, o \in Operator :
       /\ [do |-> "transfer", chat |-> ch, operator |-> o] \in Frame
       /\ \A c \in Client :
            [do |-> "assign", chat |-> ch, operator |-> o, client |-> c] \in Frame
       /\ \A p \in Operator :
            [do |-> "move", chat |-> ch, operator |-> o, from |-> p] \in Frame
  /\ \A chs \in SUBSET Chat : [do |-> "vacate", chats |-> chs] \in Frame
  /\ [do |-> "autoAssign"] \in Frame
  /\ \A s \in Seq(Client) : [do |-> "assignEach", clients |-> s] \in Frame
  /\ \A l \in Lock : LeaveFrame(l) \in Frame
  BY DEF Frame, Calls, LeaveFrame

\* The sorted snapshot is a sequence of waiting clients.
LEMMA SortedClientsType == SortedClients \subseteq Seq(Client)
  <1>1. Waiting \subseteq Client
    BY DEF Waiting
  <1>2. Cardinality(Waiting) \in Nat
    BY <1>1, SupportAssumption, FS_Subset, FS_CardinalityType
  <1> QED BY <1>1, <1>2 DEF SortedClients

\* Every operator record keeps its shape when chats are discarded.
LEMMA DiscardingType ==
  ASSUME operators \in [Operator -> OperatorStatus],
         NEW ch \in Chat, NEW o \in Operator \cup {NoOperator}
  PROVE  Discarding(ch, o) \in [Operator -> OperatorStatus]
  BY DEF OperatorStatus, Discarding

\* ... and when one is added.
LEMMA GainType ==
  ASSUME NEW ops \in [Operator -> OperatorStatus], NEW ch \in Chat, NEW o \in Operator
  PROVE  [ops EXCEPT ![o].current_chats = @ \cup {ch}] \in [Operator -> OperatorStatus]
  BY DEF OperatorStatus

\* The lock variables after a step that takes lock l.
LEMMA AcquireType ==
  ASSUME NEW F, FrameSet(F), TypedIn(F), NEW t \in Task, NEW l \in Lock, Acquire(t, l)
  PROVE  holder' \in [Lock -> Task \cup {NoTask}]
  BY DEF TypedIn, Acquire

-----------------------------------------------------------------------------
(* Type correctness.                                                       *)

LEMMA InitType ==
  ASSUME NEW F, Init
  PROVE  TypedIn(F)
  <1>1. <<>> \in Seq(F)
    OBVIOUS
  <1> QED
    BY <1>1, SupportAssumption, NotWaitingAssumption
    DEF Init, AsyncInit, QueueInit, TypedIn, OperatorStatus

LEMMA QueueStepType ==
  ASSUME NEW F, FrameSet(F), TypedIn(F), NEW t \in Task,
         \/ AddClientToQueue(t) \/ RemoveClientFromQueue(t)
         \/ UpdateQueuePosition(t) \/ UpdateWaitTimes(t)
  PROVE  TypedIn(F)'
  <1> USE SupportAssumption DEF Runs
  <1>0. Busy(t) /\ Top(t) \in Frame
    BY TopType DEF Methods, Scheduled, AddClientToQueue, RemoveClientFromQueue,
       UpdateQueuePosition, UpdateWaitTimes
  <1>1. CASE AddClientToQueue(t)
    <2> DEFINE c == Top(t).client
    <2>1. c \in Client /\ Top(t).chat \in Chat
      BY <1>0, <1>1, FrameArguments DEF AddClientToQueue
    <2>2. PICK s \in Seq(Frame) : Continue(t, s)
      <3>1. LeaveFrame("queue") \in Frame /\ [do |-> "tryAssign", client |-> c] \in Frame
        BY <2>1, FramesMade
      <3>2. /\ <<LeaveFrame("queue")>> \in Seq(Frame)
            /\ <<[do |-> "tryAssign", client |-> c], LeaveFrame("queue")>> \in Seq(Frame)
        BY <3>1
      <3> QED BY <1>1, <3>2 DEF AddClientToQueue
    <2>3. waiting_clients' \in [Client -> QueuedClient \cup {NotWaiting}]
      <3>1. [chat |-> Top(t).chat, priority |-> 0, ahead |-> Waiting] \in QueuedClient
        BY <2>1 DEF QueuedClient, Waiting
      <3> QED BY <1>1, <3>1 DEF AddClientToQueue, TypedIn
    <2> QED BY <1>0, <1>1, <2>2, <2>3, ContinueType, AcquireType DEF AddClientToQueue, TypedIn
  <1>2. CASE RemoveClientFromQueue(t)
    <2>1. Continue(t, <<LeaveFrame("queue")>>) /\ <<LeaveFrame("queue")>> \in Seq(Frame)
      BY <1>2, FramesMade DEF RemoveClientFromQueue
    <2>2. waiting_clients' \in [Client -> QueuedClient \cup {NotWaiting}]
      BY <1>2 DEF RemoveClientFromQueue, Without, TypedIn, Waiting, QueuedClient
    <2> QED BY <1>0, <1>2, <2>1, <2>2, ContinueType, AcquireType DEF RemoveClientFromQueue, TypedIn
  <1>3. CASE UpdateQueuePosition(t)
    <2>1. Continue(t, <<LeaveFrame("queue")>>) /\ <<LeaveFrame("queue")>> \in Seq(Frame)
      BY <1>3, FramesMade DEF UpdateQueuePosition
    <2>2. waiting_clients' \in [Client -> QueuedClient \cup {NotWaiting}]
      <3>1. Top(t).client \in Client /\ Top(t).priority \in Priority
        BY <1>0, <1>3, FrameArguments DEF UpdateQueuePosition
      <3> QED BY <1>3, <3>1 DEF UpdateQueuePosition, TypedIn, Waiting, QueuedClient
    <2> QED BY <1>0, <1>3, <2>1, <2>2, ContinueType, AcquireType DEF UpdateQueuePosition, TypedIn
  <1>4. CASE UpdateWaitTimes(t)
    <2>1. Continue(t, <<LeaveFrame("queue")>>) /\ <<LeaveFrame("queue")>> \in Seq(Frame)
      BY <1>4, FramesMade DEF UpdateWaitTimes
    <2> QED BY <1>0, <1>4, <2>1, ContinueType, AcquireType DEF UpdateWaitTimes, TypedIn, queueVars
  <1> QED BY <1>1, <1>2, <1>3, <1>4

LEMMA AssignmentStepType ==
  ASSUME NEW F, FrameSet(F), TypedIn(F), NEW t \in Task,
         \/ AssignChatToOperator(t) \/ ReleaseOperatorFromChat(t)
         \/ TransferChat(t) \/ MoveChat(t)
  PROVE  TypedIn(F)'
  <1> USE SupportAssumption DEF Runs
  <1>0. Busy(t) /\ Top(t) \in Frame
    BY TopType DEF Methods, Scheduled, AssignChatToOperator, ReleaseOperatorFromChat,
       TransferChat, MoveChat
  <1>a. <<LeaveFrame("assignment")>> \in Seq(Frame)
    BY FramesMade
  <1>1. CASE AssignChatToOperator(t)
    <2>1. /\ Top(t).client \in Client /\ Top(t).chat \in Chat
          /\ Top(t).operator \in Operator
      BY <1>0, <1>1, FrameArguments DEF AssignChatToOperator
    <2>2. PICK s \in Seq(Frame) : Continue(t, s)
      <3>1. LeaveFrame("assignment") \in Frame /\ [do |-> "remove", client |-> Top(t).client] \in Frame
        BY <2>1, FramesMade
      <3>2. <<[do |-> "remove", client |-> Top(t).client], LeaveFrame("assignment")>> \in Seq(Frame)
        BY <3>1
      <3> QED BY <1>1, <1>a, <3>2 DEF AssignChatToOperator
    <2>3. operators' \in [Operator -> OperatorStatus]
      <3>1. operators \in [Operator -> OperatorStatus]
        BY DEF TypedIn
      <3>2. \/ operators' = operators
            \/ operators' = [operators EXCEPT ![Top(t).operator].current_chats = @ \cup {Top(t).chat}]
        BY <1>1 DEF AssignChatToOperator
      <3>3. [operators EXCEPT ![Top(t).operator].current_chats = @ \cup {Top(t).chat}]
              \in [Operator -> OperatorStatus]
        BY <2>1, <3>1, GainType
      <3> QED BY <3>1, <3>2, <3>3
    <2>4. chat_assignments' \in [Chat -> Operator \cup {NoOperator}]
      BY <1>1, <2>1 DEF AssignChatToOperator, TypedIn
    <2> QED BY <1>0, <1>1, <2>2, <2>3, <2>4, ContinueType, AcquireType
        DEF AssignChatToOperator, TypedIn
  <1>2. CASE ReleaseOperatorFromChat(t)
    <2> DEFINE ch == Top(t).chat
               o  == chat_assignments[ch]
    <2>1. ch \in Chat /\ o \in Operator \cup {NoOperator}
      BY <1>0, <1>2, FrameArguments DEF ReleaseOperatorFromChat, TypedIn
    <2>2. PICK s \in Seq(Frame) : Continue(t, s)
      <3>1. LeaveFrame("assignment") \in Frame /\ [do |-> "autoAssign"] \in Frame
        BY FramesMade
      <3>2. <<[do |-> "autoAssign"], LeaveFrame("assignment")>> \in Seq(Frame)
        BY <3>1
      <3> QED BY <1>2, <1>a, <3>2 DEF ReleaseOperatorFromChat
    <2>3. operators' \in [Operator -> OperatorStatus]
      BY <1>2, <2>1, DiscardingType DEF ReleaseOperatorFromChat, TypedIn
    <2>4. chat_assignments' \in [Chat -> Operator \cup {NoOperator}]
      BY <1>2, <2>1 DEF ReleaseOperatorFromChat, TypedIn
    <2> QED BY <1>0, <1>2, <2>2, <2>3, <2>4, ContinueType, AcquireType
        DEF ReleaseOperatorFromChat, TypedIn
  <1>3. CASE TransferChat(t)
    <2> DEFINE f == Top(t)
    <2>1. f.chat \in Chat /\ f.operator \in Operator
      BY <1>0, <1>3, FrameArguments DEF TransferChat
    <2>2. PICK s \in Seq(Frame) : Continue(t, s)
      <3>1. CASE chat_assignments[f.chat] \in Operator
        <4>1. [do |-> "move", chat |-> f.chat, operator |-> f.operator,
               from |-> chat_assignments[f.chat]] \in Frame
          BY <2>1, <3>1, FramesMade
        <4>2. <<[do |-> "move", chat |-> f.chat, operator |-> f.operator,
                 from |-> chat_assignments[f.chat]]>> \in Seq(Frame)
          BY <4>1
        <4>3. <<>> \in Seq(Frame)
          OBVIOUS
        <4> QED BY <1>3, <4>2, <4>3 DEF TransferChat, Transferable
      <3>2. CASE chat_assignments[f.chat] = NoOperator
        <4>1. Continue(t, <<>>)
          BY <1>3, <3>2 DEF TransferChat, Transferable
        <4>2. <<>> \in Seq(Frame)
          OBVIOUS
        <4> QED BY <4>1, <4>2
      <3> QED BY <2>1, <3>1, <3>2 DEF TypedIn
    <2> QED BY <1>0, <1>3, <2>2, ContinueType DEF TransferChat, TypedIn, queueVars
  <1>4. CASE MoveChat(t)
    <2>1. /\ Top(t).chat \in Chat /\ Top(t).operator \in Operator
          /\ Top(t).from \in Operator
      BY <1>0, <1>4, FrameArguments DEF MoveChat
    <2>2. Discarding(Top(t).chat, Top(t).from) \in [Operator -> OperatorStatus]
      BY <2>1, DiscardingType DEF TypedIn
    <2>3. operators' \in [Operator -> OperatorStatus]
      <3> DEFINE ops == Discarding(Top(t).chat, Top(t).from)
      <3>1. operators' = [ops EXCEPT ![Top(t).operator].current_chats = @ \cup {Top(t).chat}]
        BY <1>4 DEF MoveChat
      <3> QED BY <2>1, <2>2, <3>1, GainType
    <2>4. chat_assignments' \in [Chat -> Operator \cup {NoOperator}]
      BY <1>4, <2>1 DEF MoveChat, TypedIn
    <2> QED BY <1>0, <1>a, <1>4, <2>3, <2>4, ContinueType, AcquireType DEF MoveChat, TypedIn
  <1> QED BY <1>1, <1>2, <1>3, <1>4

LEMMA OperatorStepType ==
  ASSUME NEW F, FrameSet(F), TypedIn(F), NEW t \in Task,
         \/ RegisterOperator(t) \/ SetOperatorOnline(t) \/ SetOperatorOffline(t)
         \/ SetOperatorBusy(t) \/ VacateChats(t) \/ TransferChatToAvailableOperator(t)
  PROVE  TypedIn(F)'
  <1> USE SupportAssumption DEF Runs
  <1>0. Busy(t) /\ Top(t) \in Frame
    BY TopType DEF Methods, Scheduled, RegisterOperator, SetOperatorOnline, SetOperatorOffline,
       SetOperatorBusy, VacateChats, TransferChatToAvailableOperator
  <1>a. <<>> \in Seq(Frame)
    OBVIOUS
  <1>b. operators \in [Operator -> OperatorStatus]
    BY DEF TypedIn
  <1>1. CASE RegisterOperator(t)
    <2>1. Top(t).operator \in Operator /\ Top(t).type \in OperatorType
      BY <1>0, <1>1, FrameArguments DEF RegisterOperator
    <2>2. operators' \in [Operator -> OperatorStatus]
      <3>1. \/ operators' = operators
            \/ operators' = [operators EXCEPT ![Top(t).operator].type = Top(t).type]
        BY <1>1 DEF RegisterOperator
      <3> QED BY <1>b, <2>1, <3>1 DEF OperatorStatus
    <2> QED BY <1>0, <1>a, <1>1, <2>2, ContinueType DEF RegisterOperator, TypedIn
  <1>2. CASE SetOperatorOnline(t)
    <2> DEFINE o == Top(t).operator
    <2>1. o \in Operator /\ Top(t).type \in OperatorType
      BY <1>0, <1>2, FrameArguments DEF SetOperatorOnline
    <2>2. operators' \in [Operator -> OperatorStatus]
      <3> DEFINE st == [operators[o] EXCEPT !.type = IF @ = Unregistered THEN Top(t).type ELSE @,
                          !.is_online = TRUE, !.is_available = TRUE]
      <3>1. operators' = [operators EXCEPT ![o] = st]
        BY <1>2 DEF SetOperatorOnline
      <3>2. st \in OperatorStatus
        BY <1>b, <2>1 DEF OperatorStatus
      <3> QED BY <1>b, <2>1, <3>1, <3>2
    <2>3. <<[do |-> "autoAssign"]>> \in Seq(Frame)
      BY FramesMade
    <2> QED BY <1>0, <1>2, <2>2, <2>3, ContinueType DEF SetOperatorOnline, TypedIn
  <1>3. CASE SetOperatorOffline(t)
    <2> DEFINE o == Top(t).operator
    <2>1. o \in Operator
      BY <1>0, <1>3, FrameArguments DEF SetOperatorOffline
    <2>2. operators' \in [Operator -> OperatorStatus]
      <3>1. \/ operators' = operators
            \/ operators' = [operators EXCEPT ![o].is_online = FALSE, ![o].is_available = FALSE]
        BY <1>3 DEF SetOperatorOffline
      <3>2. [operators EXCEPT ![o].is_online = FALSE, ![o].is_available = FALSE]
              \in [Operator -> OperatorStatus]
        BY <1>b, <2>1 DEF OperatorStatus
      <3> QED BY <1>b, <3>1, <3>2
    <2>3. PICK s \in Seq(Frame) : Continue(t, s)
      <3>1. operators[o].current_chats \in SUBSET Chat
        BY <1>b, <2>1 DEF OperatorStatus
      <3>2. [do |-> "vacate", chats |-> operators[o].current_chats] \in Frame
        BY <3>1, FramesMade
      <3>3. <<[do |-> "vacate", chats |-> operators[o].current_chats]>> \in Seq(Frame)
        BY <3>2
      <3> QED BY <1>3, <1>a, <3>3 DEF SetOperatorOffline
    <2> QED BY <1>0, <1>3, <2>2, <2>3, ContinueType DEF SetOperatorOffline, TypedIn
  <1>4. CASE SetOperatorBusy(t)
    <2>1. Top(t).operator \in Operator /\ Top(t).busy \in BOOLEAN
      BY <1>0, <1>4, FrameArguments DEF SetOperatorBusy
    <2>2. operators' \in [Operator -> OperatorStatus]
      <3>1. \/ operators' = operators
            \/ operators' = [operators EXCEPT ![Top(t).operator].is_available = ~Top(t).busy]
        BY <1>4 DEF SetOperatorBusy
      <3>2. [operators EXCEPT ![Top(t).operator].is_available = ~Top(t).busy]
              \in [Operator -> OperatorStatus]
        BY <1>b, <2>1 DEF OperatorStatus
      <3> QED BY <1>b, <3>1, <3>2
    <2> QED BY <1>0, <1>a, <1>4, <2>2, ContinueType DEF SetOperatorBusy, TypedIn
  <1>5. CASE VacateChats(t)
    <2> DEFINE chats == Top(t).chats
    <2>1. chats \in SUBSET Chat
      BY <1>0, <1>5, FrameArguments DEF VacateChats
    <2>2. ASSUME NEW ch \in chats
          PROVE  <<[do |-> "rehome", chat |-> ch], [do |-> "vacate", chats |-> chats \ {ch}]>>
                   \in Seq(Frame)
      <3>1. [do |-> "rehome", chat |-> ch] \in Frame
        BY <2>1, FramesMade
      <3>2. chats \ {ch} \in SUBSET Chat
        BY <2>1
      <3>3. [do |-> "vacate", chats |-> chats \ {ch}] \in Frame
        BY <3>2, FramesMade
      <3> QED BY <3>1, <3>3
    <2>3. PICK s \in Seq(Frame) : Continue(t, s)
      BY <1>5, <1>a, <2>2 DEF VacateChats
    <2> QED BY <1>0, <1>5, <2>3, ContinueType DEF VacateChats, TypedIn, queueVars
  <1>6. CASE TransferChatToAvailableOperator(t)
    <2> DEFINE ch == Top(t).chat
    <2>1. ch \in Chat
      BY <1>0, <1>6, FrameArguments DEF TransferChatToAvailableOperator
    <2>2. \A o \in LeastLoaded : <<[do |-> "transfer", chat |-> ch, operator |-> o]>> \in Seq(Frame)
      <3>1. \A o \in LeastLoaded : [do |-> "transfer", chat |-> ch, operator |-> o] \in Frame
        BY <2>1, FramesMade DEF LeastLoaded, AvailableSupport
      <3> QED BY <3>1
    <2>3. <<[do |-> "release", chat |-> ch]>> \in Seq(Frame)
      <3>1. [do |-> "release", chat |-> ch] \in Frame
        BY <2>1, FramesMade
      <3> QED BY <3>1
    <2>4. PICK s \in Seq(Frame) : Continue(t, s)
      BY <1>6, <1>a, <2>2, <2>3 DEF TransferChatToAvailableOperator
    <2> QED BY <1>0, <1>6, <2>4, ContinueType
        DEF TransferChatToAvailableOperator, TypedIn, queueVars
  <1> QED BY <1>1, <1>2, <1>3, <1>4, <1>5, <1>6

LEMMA AutoAssignStepType ==
  ASSUME NEW F, FrameSet(F), TypedIn(F), NEW t \in Task,
         \/ TryAutoAssignClients(t) \/ AssignEachClient(t) \/ TryAssignOperatorToClient(t)
  PROVE  TypedIn(F)'
  <1> USE DEF Runs
  <1>0. Busy(t) /\ Top(t) \in Frame
    BY TopType DEF Methods, Scheduled, TryAutoAssignClients, AssignEachClient, TryAssignOperatorToClient
  <1>a. <<>> \in Seq(Frame)
    OBVIOUS
  <1>b. ASSUME NEW s \in Seq(Frame), Continue(t, s), UNCHANGED <<holder, queueVars>>
        PROVE  TypedIn(F)'
    BY <1>0, <1>b, ContinueType DEF TypedIn, queueVars
  <1>1. CASE TryAutoAssignClients(t)
    <2>1. PICK s \in SortedClients : Continue(t, <<[do |-> "assignEach", clients |-> s]>>)
      BY <1>1 DEF TryAutoAssignClients
    <2>2. s \in Seq(Client)
      BY SortedClientsType
    <2>3. [do |-> "assignEach", clients |-> s] \in Frame
      BY <2>2, FramesMade
    <2>4. <<[do |-> "assignEach", clients |-> s]>> \in Seq(Frame)
      BY <2>3
    <2> QED BY <1>1, <1>b, <2>1, <2>4 DEF TryAutoAssignClients
  <1>2. CASE AssignEachClient(t)
    <2> DEFINE s == Top(t).clients
    <2>1. s \in Seq(Client)
      BY <1>0, <1>2, FrameArguments DEF AssignEachClient
    <2>2. CASE s = <<>>
      BY <1>2, <1>a, <1>b, <2>2 DEF AssignEachClient
    <2>3. CASE s # <<>>
      <3>1. Head(s) \in Client /\ Tail(s) \in Seq(Client)
        BY <2>1, <2>3, HeadTailProperties
      <3>2. /\ [do |-> "tryAssign", client |-> Head(s)] \in Frame
            /\ [do |-> "assignEach", clients |-> Tail(s)] \in Frame
        BY <3>1, FramesMade
      <3>3. <<[do |-> "tryAssign", client |-> Head(s)],
              [do |-> "assignEach", clients |-> Tail(s)]>> \in Seq(Frame)
        BY <3>2
      <3> QED BY <1>2, <1>b, <2>3, <3>3 DEF AssignEachClient
    <2> QED BY <2>2, <2>3
  <1>3. CASE TryAssignOperatorToClient(t)
    <2> DEFINE c == Top(t).client
    <2>1. c \in Client
      BY <1>0, <1>3, FrameArguments DEF TryAssignOperatorToClient
    <2>2. ASSUME c \in Waiting, NEW o \in LeastLoaded
          PROVE  <<[do |-> "assign", chat |-> waiting_clients[c].chat, operator |-> o,
                    client |-> c]>> \in Seq(Frame)
      <3>1. waiting_clients[c].chat \in Chat
        BY <2>1, <2>2 DEF Waiting, TypedIn, QueuedClient
      <3>2. o \in Operator
        BY DEF LeastLoaded, AvailableSupport
      <3>3. [do |-> "assign", chat |-> waiting_clients[c].chat, operator |-> o, client |-> c] \in Frame
        BY <2>1, <3>1, <3>2, FramesMade
      <3> QED BY <3>3
    <2>3. PICK s \in Seq(Frame) : Continue(t, s)
      BY <1>3, <1>a, <2>2 DEF TryAssignOperatorToClient
    <2> QED BY <1>3, <1>b, <2>3 DEF TryAssignOperatorToClient
  <1> QED BY <1>1, <1>2, <1>3

LEMMA TaskStepType ==
  ASSUME NEW F, FrameSet(F), TypedIn(F), NEW t \in Task, Call(t) \/ WaitForLock(t) \/ LeaveLock(t)
  PROVE  TypedIn(F)'
  <1>1. CASE Call(t)
    <2>1. PICK f \in Calls : Start(t, f)
      BY <1>1 DEF Call
    <2>2. f \in Frame
      BY DEF Frame
    <2>3. <<f>> \in Seq(Frame)
      BY <2>2
    <2>4. <<f>> \in Seq(F)
      BY <2>3, FramesInSet
    <2> QED BY <1>1, <2>1, <2>4 DEF Call, Start, TypedIn, queueVars
  <1>2. CASE WaitForLock(t)
    BY <1>2 DEF WaitForLock, Wait, TypedIn, queueVars
  <1>3. CASE LeaveLock(t)
    <2>1. Busy(t) /\ Continue(t, <<>>) /\ UNCHANGED queueVars
      BY <1>3 DEF LeaveLock, Leave, Scheduled
    <2>2. holder' \in [Lock -> Task \cup {NoTask}]
      BY <1>3 DEF LeaveLock, Leave, TypedIn
    <2>3. <<>> \in Seq(Frame)
      OBVIOUS
    <2> QED BY <2>1, <2>2, <2>3, ContinueType DEF TypedIn, queueVars
  <1> QED BY <1>1, <1>2, <1>3

\* A step of one of the methods, whatever else there is on the stacks.
LEMMA StepType ==
  ASSUME NEW F, FrameSet(F), TypedIn(F), NEW t \in Task, Step(t)
  PROVE  TypedIn(F)'
  BY QueueStepType, AssignmentStepType, OperatorStepType, AutoAssignStepType, TaskStepType
  DEF Step

\* One step, from a state that is well typed.
LEMMA NextType ==
  ASSUME TypeOK, [Next]_vars
  PROVE  TypeOK'
  <1>1. CASE UNCHANGED vars
    BY <1>1 DEF vars, asyncVars, queueVars, TypeOK
  <1>2. CASE Next
    <2>1. PICK t \in Task : Call(t) \/ Step(t)
      BY <1>2 DEF Next
    <2>2. TypedIn(Frame)'
      BY <2>1, MethodsAlone, StepType, TaskStepType
    <2> QED BY <2>2 DEF TypedIn, TypeOK
  <1> QED BY <1>1, <1>2

\* Every reachable state is well typed: what the methods put in the queue, in
\* the operators' records and on the stacks of the tasks is what they expect
\* to find there.
THEOREM TypeCorrect == Spec => []TypeOK
  <1>1. Init => TypeOK
    BY InitType, MethodsAlone
  <1> QED BY <1>1, NextType, PTL DEF Spec

(***************************************************************************)
(* The two locks of SupportQueue: a task that waits for one waits for      *)
(* ever, and the first to wait waits for itself.                           *)
(*                                                                         *)
(* The argument.  A step of a task does one of four things to the locks:   *)
(* nothing (Plain), takes one and opens its block (TakesLock), closes the  *)
(* block on top (LeaveBlock), or yields as a lock is held (WaitForLock).   *)
(* The invariant says that whoever waits, waits for a lock held by a task  *)
(* that waits itself; no such task can run, so none of these locks is ever *)
(* released.  When nobody waits yet, the only task that is inside a block  *)
(* is the running one, so the first to wait waits for itself.              *)
(***************************************************************************)

NoBlockEnd(s) == \A i \in DOMAIN s : s[i].do # "leave"

\* The operator of frame f can take a chat once the step is done.
CanMove(f) == Registered(f.operator)' /\ CanAcceptChat(f.operator)'

\* The frame "move" is only ever pushed to be the next to run, and when its
\* operator can take a chat.
ReadyMoves(s) == \A i \in DOMAIN s : s[i].do = "move" => i = 1 /\ CanMove(s[i])

\* The frame on top of t is replaced; who runs is another matter.
Replaces(t, s) == stack' = [stack EXCEPT ![t] = s \o Tail(stack[t])]

Keeps(t, s) ==
  /\ Replaces(t, s)
  /\ UNCHANGED holder
  /\ NoBlockEnd(s)
  /\ Top(t).do # "leave"

Opens(t, l, s) ==
  /\ Acquire(t, l)
  /\ Replaces(t, Append(s, LeaveFrame(l)))
  /\ NoBlockEnd(s)
  /\ Top(t).do # "leave"

Plain(t, s) ==
  /\ Keeps(t, s) /\ Continue(t, s)
  /\ ReadyMoves(s)
  /\ \A l \in Lock : ~Asks(t, l)

TakesLock(t, l, s) ==
  /\ Opens(t, l, s) /\ Continue(t, Append(s, LeaveFrame(l)))
  /\ ReadyMoves(s)
  /\ Asks(t, l)

LeaveBlock(t, l) ==
  /\ Top(t) = LeaveFrame(l)
  /\ holder' = [holder EXCEPT ![l] = NoTask]
  /\ Continue(t, <<>>)

LockStep(t) ==
  /\ Scheduled(t)
  /\ \/ \E s \in Seq(Frame) : Plain(t, s)
     \/ \E s \in Seq(Frame), l \in Lock : TakesLock(t, l, s)
     \/ \E l \in Lock : LeaveBlock(t, l)

\* Nobody who waits gets any further.
SuspendedStay == \A u \in Task : Suspended(u) => Suspended(u)' /\ UNCHANGED stack[u]

\* What a step of t leaves alone: the other stacks, and the locks of others.
OthersUntouched(t) ==
  /\ \A u \in Task \ {t} : stack'[u] = stack[u]
  /\ running' = IF stack'[t] = <<>> THEN NoTask ELSE t
  /\ \A k \in Lock : (holder[k] # NoTask /\ holder[k] # t) => holder'[k] = holder[k]

-----------------------------------------------------------------------------
(* Every action has one of these shapes.                                   *)

\* Blocks of at most one call, and continuations of at most two.
LEMMA ShortSequences ==
  /\ <<>> \in Seq(Frame) /\ NoBlockEnd(<<>>) /\ ReadyMoves(<<>>)
  /\ \A f \in Frame : (f.do # "leave" /\ (f.do = "move" => CanMove(f))) =>
       /\ <<f>> \in Seq(Frame) /\ NoBlockEnd(<<f>>) /\ ReadyMoves(<<f>>)
       /\ \A l : <<f, LeaveFrame(l)>> = Append(<<f>>, LeaveFrame(l))
       /\ \A g \in Frame : (g.do # "leave" /\ g.do # "move") =>
            <<f, g>> \in Seq(Frame) /\ NoBlockEnd(<<f, g>>) /\ ReadyMoves(<<f, g>>)
  /\ \A l : <<LeaveFrame(l)>> = Append(<<>>, LeaveFrame(l))
  BY DEF NoBlockEnd, ReadyMoves

LEMMA EnterSteps ==
  ASSUME NEW F, FrameSet(F), TypedIn(F), NEW t \in Task,
         \/ AddClientToQueue(t) \/ RemoveClientFromQueue(t)
         \/ UpdateQueuePosition(t) \/ UpdateWaitTimes(t)
         \/ AssignChatToOperator(t) \/ ReleaseOperatorFromChat(t) \/ MoveChat(t)
  PROVE  Scheduled(t) /\ \E s \in Seq(Frame), l \in Lock : TakesLock(t, l, s)
  <1> USE SupportAssumption DEF Runs, Asks
  <1>0. Scheduled(t) /\ Busy(t) /\ Top(t) \in Frame
    BY TopType DEF Methods, Scheduled, AddClientToQueue, RemoveClientFromQueue,
       UpdateQueuePosition, UpdateWaitTimes, AssignChatToOperator,
       ReleaseOperatorFromChat, MoveChat
  <1>a. ASSUME NEW l \in Lock, Asks(t, l), Acquire(t, l), Continue(t, <<LeaveFrame(l)>>)
        PROVE  TakesLock(t, l, <<>>) /\ <<>> \in Seq(Frame)
    BY <1>a, ShortSequences DEF TakesLock, Opens, Replaces, Continue
  <1>b. ASSUME NEW l \in Lock, NEW f \in Frame, f.do # "leave", f.do # "move",
               Asks(t, l), Acquire(t, l), Continue(t, <<f, LeaveFrame(l)>>)
        PROVE  TakesLock(t, l, <<f>>) /\ <<f>> \in Seq(Frame)
    BY <1>b, ShortSequences DEF TakesLock, Opens, Replaces, Continue
  <1>1. CASE AddClientToQueue(t)
    <2>1. [do |-> "tryAssign", client |-> Top(t).client] \in Frame
      BY <1>0, <1>1, FrameArguments, FramesMade DEF AddClientToQueue
    <2> QED BY <1>0, <1>1, <1>a, <1>b, <2>1 DEF AddClientToQueue
  <1>2. CASE RemoveClientFromQueue(t)
    BY <1>0, <1>2, <1>a DEF RemoveClientFromQueue
  <1>3. CASE UpdateQueuePosition(t)
    BY <1>0, <1>3, <1>a DEF UpdateQueuePosition
  <1>4. CASE UpdateWaitTimes(t)
    BY <1>0, <1>4, <1>a DEF UpdateWaitTimes
  <1>5. CASE AssignChatToOperator(t)
    <2>1. [do |-> "remove", client |-> Top(t).client] \in Frame
      BY <1>0, <1>5, FrameArguments, FramesMade DEF AssignChatToOperator
    <2> QED BY <1>0, <1>5, <1>a, <1>b, <2>1 DEF AssignChatToOperator
  <1>6. CASE ReleaseOperatorFromChat(t)
    <2>1. [do |-> "autoAssign"] \in Frame
      BY FramesMade
    <2> QED BY <1>0, <1>6, <1>a, <1>b, <2>1 DEF ReleaseOperatorFromChat
  <1>7. CASE MoveChat(t)
    BY <1>0, <1>7, <1>a DEF MoveChat
  <1> QED BY <1>1, <1>2, <1>3, <1>4, <1>5, <1>6, <1>7

LEMMA PlainSteps ==
  ASSUME NEW F, FrameSet(F), TypedIn(F), NEW t \in Task,
         \/ TransferChat(t) \/ RegisterOperator(t) \/ SetOperatorOnline(t)
         \/ SetOperatorOffline(t) \/ SetOperatorBusy(t) \/ VacateChats(t)
         \/ TransferChatToAvailableOperator(t) \/ TryAutoAssignClients(t)
         \/ AssignEachClient(t) \/ TryAssignOperatorToClient(t)
  PROVE  Scheduled(t) /\ \E s \in Seq(Frame) : Plain(t, s)
  <1> USE DEF Runs, Asks
  <1>0. Scheduled(t) /\ Busy(t) /\ Top(t) \in Frame
    BY TopType DEF Methods, Scheduled, TransferChat, RegisterOperator, SetOperatorOnline,
       SetOperatorOffline, SetOperatorBusy, VacateChats,
       TransferChatToAvailableOperator, TryAutoAssignClients, AssignEachClient,
       TryAssignOperatorToClient
  <1>1. /\ Top(t).do # "leave" /\ \A l \in Lock : ~Asks(t, l)
        /\ UNCHANGED holder
    BY DEF TransferChat, RegisterOperator, SetOperatorOnline,
       SetOperatorOffline, SetOperatorBusy, VacateChats,
       TransferChatToAvailableOperator, TryAutoAssignClients, AssignEachClient,
       TryAssignOperatorToClient
  <1>a. CASE Continue(t, <<>>)
    BY <1>0, <1>1, <1>a, ShortSequences DEF Plain, Keeps, Replaces, Continue
  <1>b. ASSUME NEW f \in Frame, f.do # "leave", f.do = "move" => CanMove(f),
               Continue(t, <<f>>)
        PROVE  \E s \in Seq(Frame) : Plain(t, s)
    BY <1>1, <1>b, ShortSequences DEF Plain, Keeps, Replaces, Continue
  <1>c. ASSUME NEW f \in Frame, f.do # "leave", f.do # "move",
               NEW g \in Frame, g.do # "leave", g.do # "move", Continue(t, <<f, g>>)
        PROVE  \E s \in Seq(Frame) : Plain(t, s)
    BY <1>1, <1>c, ShortSequences DEF Plain, Keeps, Replaces, Continue
  <1> DEFINE f == Top(t)
  <1>2. CASE TransferChat(t)
    <2>1. f.chat \in Chat /\ f.operator \in Operator
      BY <1>0, <1>2, FrameArguments DEF TransferChat
    <2>2. CASE chat_assignments[f.chat] \in Operator
      <3>1. [do |-> "move", chat |-> f.chat, operator |-> f.operator,
             from |-> chat_assignments[f.chat]] \in Frame
        BY <2>1, <2>2, FramesMade
      <3>2. operators' = operators
        BY <1>2 DEF TransferChat, queueVars
      <3> QED BY <1>0, <1>2, <1>a, <1>b, <3>1, <3>2
              DEF TransferChat, Transferable, CanMove, Registered, CanAcceptChat, CanAccept
    <2>3. CASE chat_assignments[f.chat] = NoOperator
      BY <1>0, <1>2, <1>a, <2>3 DEF TransferChat, Transferable
    <2> QED BY <2>1, <2>2, <2>3 DEF TypedIn
  <1>3. CASE RegisterOperator(t) \/ SetOperatorBusy(t)
    BY <1>0, <1>3, <1>a DEF RegisterOperator, SetOperatorBusy
  <1>4. CASE SetOperatorOnline(t)
    <2>1. [do |-> "autoAssign"] \in Frame
      BY FramesMade
    <2> QED BY <1>0, <1>4, <1>b, <2>1 DEF SetOperatorOnline
  <1>5. CASE SetOperatorOffline(t)
    <2>1. f.operator \in Operator
      BY <1>0, <1>5, FrameArguments DEF SetOperatorOffline
    <2>2. operators[f.operator].current_chats \in SUBSET Chat
      BY <2>1 DEF TypedIn, OperatorStatus
    <2>3. [do |-> "vacate", chats |-> operators[f.operator].current_chats] \in Frame
      BY <2>2, FramesMade
    <2> QED BY <1>0, <1>5, <1>a, <1>b, <2>3 DEF SetOperatorOffline
  <1>6. CASE VacateChats(t)
    <2>1. f.chats \in SUBSET Chat
      BY <1>0, <1>6, FrameArguments DEF VacateChats
    <2>2. ASSUME NEW ch \in f.chats
          PROVE  /\ [do |-> "rehome", chat |-> ch] \in Frame
                 /\ [do |-> "vacate", chats |-> f.chats \ {ch}] \in Frame
      <3>1. ch \in Chat /\ f.chats \ {ch} \in SUBSET Chat
        BY <2>1
      <3> QED BY <3>1, FramesMade
    <2>3. CASE Continue(t, <<>>)
      BY <1>0, <1>a, <2>3
    <2>4. CASE \E ch \in f.chats :
                 Continue(t, <<[do |-> "rehome", chat |-> ch],
                               [do |-> "vacate", chats |-> f.chats \ {ch}]>>)
      BY <1>0, <1>c, <2>2, <2>4
    <2> QED BY <1>6, <2>3, <2>4 DEF VacateChats
  <1>7. CASE TransferChatToAvailableOperator(t)
    <2>1. f.chat \in Chat
      BY <1>0, <1>7, FrameArguments DEF TransferChatToAvailableOperator
    <2>2. /\ \A o \in LeastLoaded : [do |-> "transfer", chat |-> f.chat, operator |-> o] \in Frame
          /\ [do |-> "release", chat |-> f.chat] \in Frame
      BY <2>1, FramesMade DEF LeastLoaded, AvailableSupport
    <2> QED BY <1>0, <1>7, <1>a, <1>b, <2>2 DEF TransferChatToAvailableOperator
  <1>8. CASE TryAutoAssignClients(t)
    <2>1. \A s \in SortedClients : [do |-> "assignEach", clients |-> s] \in Frame
      BY SortedClientsType, FramesMade
    <2> QED BY <1>0, <1>8, <1>b, <2>1 DEF TryAutoAssignClients
  <1>9. CASE AssignEachClient(t)
    <2>1. f.clients \in Seq(Client)
      BY <1>0, <1>9, FrameArguments DEF AssignEachClient
    <2>2. CASE f.clients = <<>>
      BY <1>0, <1>9, <1>a, <2>2 DEF AssignEachClient
    <2>3. CASE f.clients # <<>>
      <3>1. Head(f.clients) \in Client /\ Tail(f.clients) \in Seq(Client)
        BY <2>1, <2>3, HeadTailProperties
      <3>2. /\ [do |-> "tryAssign", client |-> Head(f.clients)] \in Frame
            /\ [do |-> "assignEach", clients |-> Tail(f.clients)] \in Frame
        BY <3>1, FramesMade
      <3> QED BY <1>0, <1>9, <1>c, <2>3, <3>2 DEF AssignEachClient
    <2> QED BY <2>2, <2>3
  <1>10. CASE TryAssignOperatorToClient(t)
    <2>1. f.client \in Client
      BY <1>0, <1>10, FrameArguments DEF TryAssignOperatorToClient
    <2>2. ASSUME f.client \in Waiting, NEW o \in LeastLoaded
          PROVE  [do |-> "assign", chat |-> waiting_clients[f.client].chat, operator |-> o,
                  client |-> f.client] \in Frame
      <3>1. waiting_clients[f.client].chat \in Chat /\ o \in Operator
        BY <2>1, <2>2 DEF Waiting, TypedIn, QueuedClient, LeastLoaded, AvailableSupport
      <3> QED BY <2>1, <3>1, FramesMade
    <2> QED BY <1>0, <1>10, <1>a, <1>b, <2>2 DEF TryAssignOperatorToClient
  <1> QED BY <1>2, <1>3, <1>4, <1>5, <1>6, <1>7, <1>8, <1>9, <1>10

LEMMA StepShape ==
  ASSUME NEW F, FrameSet(F), TypedIn(F), NEW t \in Task, Step(t)
  PROVE  LockStep(t) \/ WaitForLock(t)
  <1>1. ASSUME LeaveLock(t) PROVE LockStep(t)
    BY <1>1 DEF LeaveLock, Leave, LockStep, LeaveBlock
  <1> QED BY <1>1, EnterSteps, PlainSteps DEF Step, LockStep

-----------------------------------------------------------------------------
(* What a step leaves of a stack.                                          *)

LEMMA ReplacedFrames ==
  ASSUME NEW F, FrameSet(F), TypedIn(F), NEW t \in Task, Busy(t), NEW s \in Seq(F), Replaces(t, s)
  PROVE  /\ \A u \in Task \ {t} : stack'[u] = stack[u]
         /\ stack'[t] \in Seq(F)
         /\ Len(stack'[t]) = Len(s) + Len(stack[t]) - 1
         /\ \A i \in DOMAIN stack'[t] :
              stack'[t][i] = IF i <= Len(s) THEN s[i] ELSE stack[t][i - Len(s) + 1]
  <1> DEFINE rest == s \o Tail(stack[t])
  <1>1. /\ stack[t] \in Seq(F) /\ stack[t] # <<>>
        /\ Tail(stack[t]) \in Seq(F)
        /\ Len(Tail(stack[t])) = Len(stack[t]) - 1
        /\ \A i \in 1..Len(Tail(stack[t])) : Tail(stack[t])[i] = stack[t][i + 1]
    BY HeadTailProperties DEF TypedIn, Busy
  <1>2. /\ rest \in Seq(F)
        /\ Len(rest) = Len(s) + Len(Tail(stack[t]))
        /\ \A i \in 1..Len(s) + Len(Tail(stack[t])) :
             rest[i] = IF i <= Len(s) THEN s[i] ELSE Tail(stack[t])[i - Len(s)]
    BY <1>1, ConcatProperties
  <1>3. /\ stack'[t] = rest
        /\ \A u \in Task \ {t} : stack'[u] = stack[u]
    BY DEF Replaces, TypedIn
  <1>4. DOMAIN rest = 1..Len(rest) /\ Len(s) \in Nat /\ Len(stack[t]) \in Nat
    BY <1>1, <1>2, LenProperties
  <1>5. ASSUME NEW i \in DOMAIN rest
        PROVE  rest[i] = IF i <= Len(s) THEN s[i] ELSE stack[t][i - Len(s) + 1]
    <2>1. CASE i <= Len(s)
      BY <1>1, <1>2, <1>4, <2>1
    <2>2. CASE ~(i <= Len(s))
      <3>1. i - Len(s) \in 1..Len(Tail(stack[t]))
        BY <1>1, <1>2, <1>4, <2>2
      <3> QED BY <1>1, <1>2, <1>4, <2>2, <3>1
    <2> QED BY <2>1, <2>2
  <1> HIDE DEF rest
  <1> QED BY <1>1, <1>2, <1>3, <1>4, <1>5

LEMMA ContinueFrames ==
  ASSUME NEW F, FrameSet(F), TypedIn(F), NEW t \in Task, Busy(t),
         NEW s \in Seq(F), Continue(t, s)
  PROVE  /\ \A u \in Task \ {t} : stack'[u] = stack[u]
         /\ stack'[t] \in Seq(F)
         /\ Len(stack'[t]) = Len(s) + Len(stack[t]) - 1
         /\ \A i \in DOMAIN stack'[t] :
              stack'[t][i] = IF i <= Len(s) THEN s[i] ELSE stack[t][i - Len(s) + 1]
         /\ running' = IF stack'[t] = <<>> THEN NoTask ELSE t
  <1>1. Replaces(t, s)
    BY DEF Continue, Replaces
  <1>2. running' = IF stack'[t] = <<>> THEN NoTask ELSE t
    BY DEF Continue, TypedIn
  <1> QED BY <1>1, <1>2, ReplacedFrames

\* The domain of a stack.
LEMMA StackDomain ==
  ASSUME NEW F, FrameSet(F), TypedIn(F), NEW t \in Task
  PROVE  /\ Len(stack[t]) \in Nat
         /\ DOMAIN stack[t] = 1..Len(stack[t])
         /\ Busy(t) => 1 \in DOMAIN stack[t] /\ stack[t][1] = Top(t)
         /\ \A i \in DOMAIN stack[t] : Busy(t)
  <1>1. stack[t] \in Seq(F)
    BY DEF TypedIn
  <1>2. Len(stack[t]) \in Nat /\ DOMAIN stack[t] = 1..Len(stack[t])
    BY <1>1, LenProperties
  <1>3. stack[t] # <<>> => Len(stack[t]) \in Nat \ {0}
    BY <1>1, EmptySeq
  <1> QED BY <1>1, <1>2, <1>3 DEF Busy, Top

\* Whoever holds a lock is busy.
LEMMA HolderBusy ==
  ASSUME NEW F, FrameSet(F), TypedIn(F), LockDiscipline, NEW l \in Lock, holder[l] # NoTask
  PROVE  holder[l] \in Task /\ Busy(holder[l])
  <1>1. holder[l] \in Task
    BY DEF TypedIn
  <1> QED BY <1>1, StackDomain DEF LockDiscipline

\* Under the invariant only the running task is able to run, unless none is.
LEMMA OnlyTheRunningSteps ==
  ASSUME TypeOK, LockDiscipline, WaitersStuck, NEW t \in Task, LockStep(t)
  PROVE  running = t
  <1> SUFFICES ASSUME running # t PROVE FALSE
    OBVIOUS
  <1>1. Suspended(t)
    BY DEF LockStep, Scheduled, Suspended
  <1>2. PICK l \in Lock : Asks(t, l) /\ holder[l] # NoTask
    BY <1>1 DEF WaitersStuck
  <1>3. \A k \in Lock : Asks(t, k) => k = l
    BY <1>2 DEF Asks
  <1>4. ~ \E s \in Seq(Frame) : Plain(t, s)
    BY <1>2 DEF Plain
  <1>5. ~ \E s \in Seq(Frame), k \in Lock : TakesLock(t, k, s)
    BY <1>2, <1>3 DEF TakesLock, Opens, Acquire
  <1>6. ~ \E k \in Lock : LeaveBlock(t, k)
    BY <1>2 DEF LeaveBlock, LeaveFrame, Asks
  <1> QED BY <1>4, <1>5, <1>6 DEF LockStep

-----------------------------------------------------------------------------
(* Each shape of step keeps the lock discipline.                           *)

LEMMA KeepsDiscipline ==
  ASSUME NEW F, FrameSet(F), TypedIn(F), LockDiscipline, NEW t \in Task, Busy(t),
         NEW s \in Seq(F), Keeps(t, s)
  PROVE  LockDiscipline'
  <1>0. Len(s) \in Nat /\ DOMAIN s = 1..Len(s)
    BY LenProperties
  <1>1. /\ \A u \in Task \ {t} : stack'[u] = stack[u]
        /\ stack'[t] \in Seq(F)
        /\ Len(stack'[t]) = Len(s) + Len(stack[t]) - 1
        /\ \A i \in DOMAIN stack'[t] :
             stack'[t][i] = IF i <= Len(s) THEN s[i] ELSE stack[t][i - Len(s) + 1]
    BY ReplacedFrames DEF Keeps
  <1>2. DOMAIN stack'[t] = 1..Len(stack'[t])
    BY <1>1, LenProperties
  <1>3. holder' = holder
    BY DEF Keeps
  \* The ends of blocks move by Len(s) - 1 places.
  <1>4. ASSUME NEW l \in Lock, NEW i \in DOMAIN stack'[t], stack'[t][i] = LeaveFrame(l)
        PROVE  i > Len(s) /\ i - Len(s) + 1 \in DOMAIN stack[t]
                 /\ stack[t][i - Len(s) + 1] = LeaveFrame(l)
    <2>1. ~(i <= Len(s))
      BY <1>0, <1>1, <1>2, <1>4 DEF Keeps, NoBlockEnd, LeaveFrame
    <2> QED BY <1>0, <1>1, <1>2, <1>4, <2>1, StackDomain
  <1>5. ASSUME NEW l \in Lock, NEW i \in DOMAIN stack[t], stack[t][i] = LeaveFrame(l)
        PROVE  i + Len(s) - 1 \in DOMAIN stack'[t]
                 /\ stack'[t][i + Len(s) - 1] = LeaveFrame(l)
    <2>1. i # 1
      BY <1>5, StackDomain DEF Keeps, LeaveFrame
    <2>2. i + Len(s) - 1 \in DOMAIN stack'[t] /\ ~(i + Len(s) - 1 <= Len(s))
      BY <1>0, <1>1, <1>2, <2>1, StackDomain
    <2>3. (i + Len(s) - 1) - Len(s) + 1 = i
      BY <1>0, StackDomain
    <2> QED BY <1>1, <1>5, <2>2, <2>3
  <1>6. \A l \in Lock : holder'[l] # NoTask =>
          \E i \in DOMAIN stack'[holder'[l]] : stack'[holder'[l]][i] = LeaveFrame(l)
    <2> SUFFICES ASSUME NEW l \in Lock, holder[l] # NoTask
                 PROVE  \E i \in DOMAIN stack'[holder[l]] : stack'[holder[l]][i] = LeaveFrame(l)
      BY <1>3
    <2>1. PICK i \in DOMAIN stack[holder[l]] : stack[holder[l]][i] = LeaveFrame(l)
      BY DEF LockDiscipline
    <2>2. CASE holder[l] = t
      BY <1>5, <2>1, <2>2
    <2>3. CASE holder[l] # t
      BY <1>1, <2>1, <2>3 DEF TypedIn
    <2> QED BY <2>2, <2>3
  <1>7. ASSUME NEW u \in Task, NEW l \in Lock, NEW i \in DOMAIN stack'[u],
               stack'[u][i] = LeaveFrame(l)
        PROVE  /\ holder'[l] = u
               /\ \A j \in DOMAIN stack'[u] : stack'[u][j] = LeaveFrame(l) => j = i
    <2>1. CASE u = t
      <3>1. holder[l] = t
        BY <1>4, <1>7, <2>1 DEF LockDiscipline
      <3>2. ASSUME NEW j \in DOMAIN stack'[t], stack'[t][j] = LeaveFrame(l) PROVE j = i
        <4>1. j - Len(s) + 1 = i - Len(s) + 1
          BY <1>4, <1>7, <2>1, <3>2 DEF LockDiscipline
        <4> QED BY <1>0, <1>2, <1>7, <2>1, <4>1
      <3> QED BY <1>3, <2>1, <3>1, <3>2
    <2>2. CASE u # t
      BY <1>1, <1>3, <1>7, <2>2 DEF LockDiscipline
    <2> QED BY <2>1, <2>2
  <1> QED BY <1>6, <1>7 DEF LockDiscipline

LEMMA OpensDiscipline ==
  ASSUME NEW F, FrameSet(F), TypedIn(F), LockDiscipline, NEW t \in Task, Busy(t),
         NEW s \in Seq(F), NEW l \in Lock, Opens(t, l, s)
  PROVE  LockDiscipline'
  <1>a. Len(s) \in Nat /\ DOMAIN s = 1..Len(s)
    BY LenProperties
  <1>b. PICK q \in Seq(F), n \in Nat :
          /\ Replaces(t, q)
          /\ n = Len(s) + 1 /\ Len(q) = n
          /\ \A i \in 1..Len(s) : q[i] = s[i]
          /\ q[n] = LeaveFrame(l)
    <2>1. LeaveFrame(l) \in F
      BY FramesMade DEF FrameSet
    <2>2. /\ Append(s, LeaveFrame(l)) \in Seq(F)
          /\ Len(Append(s, LeaveFrame(l))) = Len(s) + 1
          /\ \A i \in 1..Len(s) : Append(s, LeaveFrame(l))[i] = s[i]
          /\ Append(s, LeaveFrame(l))[Len(s) + 1] = LeaveFrame(l)
      BY <2>1, AppendProperties
    <2>3. Replaces(t, Append(s, LeaveFrame(l))) /\ Len(s) + 1 \in Nat
      BY <1>a DEF Opens
    <2> QED BY <2>2, <2>3
  <1>c. \A i \in 1..Len(s) : q[i].do # "leave"
    BY <1>a, <1>b DEF Opens, NoBlockEnd
  <1>0. n \in Nat /\ q[n] = LeaveFrame(l) /\ \A i \in 1..n : i = n \/ q[i].do # "leave"
    BY <1>a, <1>b, <1>c
  <1>1. /\ \A u \in Task \ {t} : stack'[u] = stack[u]
        /\ stack'[t] \in Seq(F)
        /\ Len(stack'[t]) = n + Len(stack[t]) - 1
        /\ \A i \in DOMAIN stack'[t] :
             stack'[t][i] = IF i <= n THEN q[i] ELSE stack[t][i - n + 1]
    <2>1. /\ \A u \in Task \ {t} : stack'[u] = stack[u]
          /\ stack'[t] \in Seq(F)
          /\ Len(stack'[t]) = Len(q) + Len(stack[t]) - 1
          /\ \A i \in DOMAIN stack'[t] :
               stack'[t][i] = IF i <= Len(q) THEN q[i] ELSE stack[t][i - Len(q) + 1]
      BY <1>b, ReplacedFrames
    <2> QED BY <1>b, <2>1
  <1>d. /\ Len(stack[t]) \in Nat \ {0} /\ DOMAIN stack[t] = 1..Len(stack[t])
        /\ stack[t][1] = Top(t)
    BY StackDomain
  <1>2. DOMAIN stack'[t] = 1..Len(stack'[t])
    BY <1>1, LenProperties
  <1>3. /\ holder[l] = NoTask
        /\ holder'[l] = t
        /\ \A k \in Lock \ {l} : holder'[k] = holder[k]
    BY DEF Opens, Acquire, TypedIn
  \* The lock was free: no block of it was open.
  <1>4. \A u \in Task : \A i \in DOMAIN stack[u] : stack[u][i] # LeaveFrame(l)
    BY <1>3, TaskAssumption DEF LockDiscipline
  <1>5. ASSUME NEW k \in Lock, NEW i \in DOMAIN stack'[t], stack'[t][i] = LeaveFrame(k)
        PROVE  \/ k = l /\ i = n
               \/ /\ i > n /\ k # l /\ i - n + 1 \in DOMAIN stack[t]
                  /\ stack[t][i - n + 1] = LeaveFrame(k)
    <2>0. i \in 1..Len(stack'[t])
      BY <1>2
    <2>1. CASE i <= n
      <3>1. i \in 1..n /\ stack'[t][i] = q[i]
        BY <1>0, <1>1, <2>0, <2>1
      <3>2. i = n
        BY <1>0, <1>5, <3>1 DEF LeaveFrame
      <3> QED BY <1>0, <1>5, <3>1, <3>2 DEF LeaveFrame
    <2>2. CASE i > n
      <3>1. i - n + 1 \in DOMAIN stack[t]
        BY <1>0, <1>1, <2>0, <2>2, StackDomain
      <3>3. ~(i <= n)
        BY <1>0, <2>0, <2>2
      <3>2. stack[t][i - n + 1] = LeaveFrame(k)
        BY <1>1, <1>5, <3>3
      <3> QED BY <1>4, <2>2, <3>1, <3>2
    <2> QED BY <1>0, <2>0, <2>1, <2>2
  <1>6. ASSUME NEW k \in Lock, NEW i \in DOMAIN stack[t], stack[t][i] = LeaveFrame(k)
        PROVE  i + n - 1 \in DOMAIN stack'[t] /\ stack'[t][i + n - 1] = LeaveFrame(k)
    <2>1. i # 1 /\ i \in 1..Len(stack[t])
      BY <1>d, <1>6 DEF Opens, LeaveFrame
    <2>2. i + n - 1 \in DOMAIN stack'[t] /\ ~(i + n - 1 <= n)
      BY <1>0, <1>1, <1>2, <1>d, <2>1
    <2>3. (i + n - 1) - n + 1 = i
      BY <1>0, <1>d, <2>1
    <2> QED BY <1>1, <1>6, <2>2, <2>3
  <1>7. ASSUME NEW k \in Lock, holder'[k] # NoTask
        PROVE  \E i \in DOMAIN stack'[holder'[k]] : stack'[holder'[k]][i] = LeaveFrame(k)
    <2>1. CASE k = l
      <3>0. n >= 1 /\ Len(stack'[t]) >= n
        <4>1. n >= 1
          BY <1>a, <1>b
        <4>2. \A L \in Nat \ {0} : n + L - 1 >= n
          BY <1>0
        <4> QED BY <1>1, <1>d, <4>1, <4>2
      <3>1. n \in DOMAIN stack'[t]
        BY <1>0, <1>1, <1>2, <1>d, <3>0
      <3>a. stack'[t][n] = LeaveFrame(l)
        BY <1>0, <1>1, <3>1
      <3> QED BY <1>3, <2>1, <3>1, <3>a
    <2>2. CASE k # l
      <3>1. PICK i \in DOMAIN stack[holder[k]] : stack[holder[k]][i] = LeaveFrame(k)
        BY <1>3, <1>7, <2>2 DEF LockDiscipline
      <3>2. CASE holder[k] = t
        BY <1>3, <1>6, <2>2, <3>1, <3>2
      <3>3. CASE holder[k] # t
        <4>1. holder'[k] = holder[k] /\ holder[k] \in Task \ {t}
          BY <1>3, <1>7, <2>2, <3>3 DEF TypedIn
        <4>2. stack'[holder[k]] = stack[holder[k]]
          BY <1>1, <4>1
        <4> QED BY <3>1, <4>1, <4>2
      <3> QED BY <3>2, <3>3
    <2> QED BY <2>1, <2>2
  <1>8. ASSUME NEW u \in Task, NEW k \in Lock, NEW i \in DOMAIN stack'[u],
               stack'[u][i] = LeaveFrame(k)
        PROVE  /\ holder'[k] = u
               /\ \A j \in DOMAIN stack'[u] : stack'[u][j] = LeaveFrame(k) => j = i
    <2>1. CASE u = t /\ k = l
      BY <1>3, <1>5, <1>8, <2>1
    <2>2. CASE u = t /\ k # l
      <3>1. holder'[k] = t
        BY <1>3, <1>5, <1>8, <2>2 DEF LockDiscipline
      <3>2. ASSUME NEW j \in DOMAIN stack'[t], stack'[t][j] = LeaveFrame(k) PROVE j = i
        <4>1. j - n + 1 = i - n + 1
          BY <1>5, <1>8, <2>2, <3>2 DEF LockDiscipline
        <4> QED BY <1>0, <1>2, <1>8, <2>2, <4>1
      <3> QED BY <2>2, <3>1, <3>2
    <2>3. CASE u # t
      <3>1. k # l
        BY <1>1, <1>4, <1>8, <2>3
      <3> QED BY <1>1, <1>3, <1>8, <2>3, <3>1 DEF LockDiscipline
    <2> QED BY <2>1, <2>2, <2>3
  <1> QED BY <1>7, <1>8 DEF LockDiscipline

LEMMA LeaveDiscipline ==
  ASSUME NEW F, FrameSet(F), TypedIn(F), LockDiscipline, NEW t \in Task, Busy(t), NEW l \in Lock, LeaveBlock(t, l)
  PROVE  LockDiscipline' /\ holder[l] = t
  <1>0. <<>> \in Seq(F) /\ Len(<<>>) = 0
    BY EmptySeq
  <1>1. /\ \A u \in Task \ {t} : stack'[u] = stack[u]
        /\ stack'[t] \in Seq(F)
        /\ Len(stack'[t]) = Len(stack[t]) - 1
        /\ \A i \in DOMAIN stack'[t] : stack'[t][i] = stack[t][i + 1]
    <2>1. /\ \A u \in Task \ {t} : stack'[u] = stack[u]
          /\ stack'[t] \in Seq(F)
          /\ Len(stack'[t]) = 0 + Len(stack[t]) - 1
          /\ \A i \in DOMAIN stack'[t] :
               stack'[t][i] = IF i <= 0 THEN <<>>[i] ELSE stack[t][i - 0 + 1]
      BY <1>0, ContinueFrames DEF LeaveBlock
    <2>2. DOMAIN stack'[t] = 1..Len(stack'[t]) /\ Len(stack'[t]) \in Nat
      BY <2>1, LenProperties
    <2> QED BY <2>1, <2>2, StackDomain
  <1>2. DOMAIN stack'[t] = 1..Len(stack'[t]) /\ Len(stack'[t]) \in Nat
    BY <1>1, LenProperties
  <1>3. /\ holder'[l] = NoTask
        /\ \A k \in Lock \ {l} : holder'[k] = holder[k]
    BY DEF LeaveBlock, TypedIn
  <1>4. 1 \in DOMAIN stack[t] /\ stack[t][1] = LeaveFrame(l)
    BY StackDomain DEF LeaveBlock
  <1>5. holder[l] = t /\ \A i \in DOMAIN stack[t] : stack[t][i] = LeaveFrame(l) => i = 1
    BY <1>4 DEF LockDiscipline
  <1>6. ASSUME NEW k \in Lock, NEW i \in DOMAIN stack'[t], stack'[t][i] = LeaveFrame(k)
        PROVE  k # l /\ i + 1 \in DOMAIN stack[t] /\ stack[t][i + 1] = LeaveFrame(k)
    <2>1. i + 1 \in DOMAIN stack[t] /\ i + 1 # 1
      BY <1>1, <1>2, StackDomain
    <2>2. stack[t][i + 1] = LeaveFrame(k)
      BY <1>1, <1>6
    <2> QED BY <1>5, <2>1, <2>2
  <1>7. ASSUME NEW k \in Lock, holder'[k] # NoTask
        PROVE  \E i \in DOMAIN stack'[holder'[k]] : stack'[holder'[k]][i] = LeaveFrame(k)
    <2>1. k # l
      BY <1>3, <1>7
    <2>2. PICK i \in DOMAIN stack[holder[k]] : stack[holder[k]][i] = LeaveFrame(k)
      BY <1>3, <1>7, <2>1 DEF LockDiscipline
    <2>3. CASE holder[k] = t
      <3>1. i # 1
        BY <1>4, <2>1, <2>2, <2>3 DEF LeaveFrame
      <3>2. i - 1 \in DOMAIN stack'[t] /\ (i - 1) + 1 = i
        BY <1>1, <1>2, <2>3, <3>1, StackDomain
      <3>3. stack'[t][i - 1] = LeaveFrame(k)
        BY <1>1, <2>2, <2>3, <3>2
      <3> QED BY <1>3, <2>1, <2>3, <3>2, <3>3
    <2>4. CASE holder[k] # t
      BY <1>1, <1>3, <1>7, <2>1, <2>2, <2>4 DEF TypedIn
    <2> QED BY <2>3, <2>4
  <1>8. ASSUME NEW u \in Task, NEW k \in Lock, NEW i \in DOMAIN stack'[u],
               stack'[u][i] = LeaveFrame(k)
        PROVE  /\ holder'[k] = u
               /\ \A j \in DOMAIN stack'[u] : stack'[u][j] = LeaveFrame(k) => j = i
    <2>1. CASE u = t
      <3>1. holder'[k] = t
        BY <1>3, <1>6, <1>8, <2>1 DEF LockDiscipline
      <3>2. ASSUME NEW j \in DOMAIN stack'[t], stack'[t][j] = LeaveFrame(k) PROVE j = i
        <4>1. j + 1 = i + 1
          BY <1>6, <1>8, <2>1, <3>2 DEF LockDiscipline
        <4> QED BY <1>2, <1>8, <2>1, <4>1
      <3> QED BY <2>1, <3>1, <3>2
    <2>2. CASE u # t
      <3>1. holder[k] = u
        BY <1>1, <1>8, <2>2 DEF LockDiscipline
      <3>2. k # l
        BY <1>5, <2>2, <3>1
      <3> QED BY <1>1, <1>3, <1>8, <2>2, <3>2 DEF LockDiscipline
    <2> QED BY <2>1, <2>2
  <1> QED BY <1>5, <1>7, <1>8 DEF LockDiscipline

-----------------------------------------------------------------------------
(* Starting a call, and waiting.                                           *)

LEMMA CallKeepsLocks ==
  ASSUME LockInv, NEW t \in Task, Call(t)
  PROVE  /\ LockDiscipline' /\ WaitersStuck' /\ OnlySelfDeadlock'
         /\ ~Suspended(t)
         /\ SuspendedStay
  <1>0. TypeOK /\ LockDiscipline /\ WaitersStuck /\ OnlySelfDeadlock
    BY DEF LockInv
  <1>1. PICK f \in Calls : Start(t, f)
    BY DEF Call
  <1>2. /\ running = NoTask /\ running' = t /\ ~Busy(t)
        /\ holder' = holder
        /\ stack'[t] = <<f>>
        /\ \A u \in Task \ {t} : stack'[u] = stack[u]
    BY <1>0, <1>1 DEF Start, TypeOK
  <1>3. f.do # "leave"
    BY DEF Calls
  <1>4. DOMAIN stack'[t] = {1} /\ stack'[t][1] = f
    BY <1>2
  <1>5. \A l \in Lock : holder[l] # NoTask => holder[l] \in Task \ {t}
    BY <1>0, <1>2, HolderBusy, MethodsAlone
  <1>6. LockDiscipline'
    <2>1. ASSUME NEW l \in Lock, holder'[l] # NoTask
          PROVE  \E i \in DOMAIN stack'[holder'[l]] : stack'[holder'[l]][i] = LeaveFrame(l)
      BY <1>0, <1>2, <1>5, <2>1 DEF LockDiscipline
    <2>2. ASSUME NEW u \in Task, NEW l \in Lock, NEW i \in DOMAIN stack'[u],
                 stack'[u][i] = LeaveFrame(l)
          PROVE  /\ holder'[l] = u
                 /\ \A j \in DOMAIN stack'[u] : stack'[u][j] = LeaveFrame(l) => j = i
      <3>1. u # t
        BY <1>3, <1>4, <2>2 DEF LeaveFrame
      <3> QED BY <1>0, <1>2, <2>2, <3>1 DEF LockDiscipline
    <2> QED BY <2>1, <2>2 DEF LockDiscipline
  <1>7. \A u \in Task : Suspended(u)' <=> Suspended(u)
    BY <1>2, TaskAssumption DEF Suspended, Busy
  <1>8. \A u \in Task, l \in Lock : Suspended(u) => (Asks(u, l)' <=> Asks(u, l))
    BY <1>2 DEF Suspended, Asks, Top
  <1>9. WaitersStuck'
    BY <1>0, <1>2, <1>5, <1>7, <1>8 DEF WaitersStuck
  <1>10. OnlySelfDeadlock'
    BY <1>0, <1>2, <1>7, <1>8 DEF OnlySelfDeadlock
  <1> QED BY <1>2, <1>6, <1>7, <1>9, <1>10 DEF Suspended, Busy, SuspendedStay

LEMMA WaitKeepsLocks ==
  ASSUME LockInv, NEW t \in Task, WaitForLock(t)
  PROVE  /\ LockDiscipline' /\ WaitersStuck' /\ OnlySelfDeadlock'
         /\ SuspendedStay
  <1>0. TypeOK /\ LockDiscipline /\ WaitersStuck /\ OnlySelfDeadlock
    BY DEF LockInv
  <1>1. PICK l \in Lock : Asks(t, l) /\ Wait(t, l)
    BY DEF WaitForLock
  <1>2. /\ running = t /\ holder[l] # NoTask /\ running' = NoTask
        /\ stack' = stack /\ holder' = holder /\ Busy(t)
    BY <1>1 DEF Wait, WaitForLock
  <1>3. LockDiscipline'
    BY <1>0, <1>2 DEF LockDiscipline
  <1>4. \A u \in Task : Suspended(u)' <=> Busy(u)
    BY <1>2, TaskAssumption DEF Suspended, Busy
  <1>5. \A u \in Task : Suspended(u)' <=> Suspended(u) \/ u = t
    BY <1>2, <1>4 DEF Suspended
  <1>6. \A u \in Task, k \in Lock : Asks(u, k)' <=> Asks(u, k)
    BY <1>2 DEF Asks, Top
  <1>7. holder[l] \in Task /\ Busy(holder[l])
    BY <1>0, <1>2, HolderBusy, MethodsAlone
  <1>8. WaitersStuck'
    <2> SUFFICES ASSUME NEW u \in Task, Suspended(u)'
                 PROVE  \E k \in Lock : Asks(u, k) /\ holder[k] # NoTask /\ Suspended(holder[k])'
      BY <1>2, <1>6 DEF WaitersStuck
    <2>1. CASE u = t
      BY <1>1, <1>2, <1>4, <1>7, <2>1
    <2>2. CASE Suspended(u)
      <3>1. PICK k \in Lock : Asks(u, k) /\ holder[k] # NoTask /\ Suspended(holder[k])
        BY <1>0, <2>2 DEF WaitersStuck
      <3>2. holder[k] \in Task
        BY <1>0, <3>1 DEF TypeOK
      <3>3. Suspended(holder[k])'
        BY <1>2, <3>1, <3>2, TaskAssumption DEF Suspended, Busy
      <3> QED BY <3>1, <3>3
    <2> QED BY <1>5, <2>1, <2>2
  \* The first to wait waits for the only busy task, itself.
  <1>9. OnlySelfDeadlock'
    <2>1. CASE \E u \in Task : Suspended(u)
      BY <1>0, <1>2, <1>5, <1>6, <2>1 DEF OnlySelfDeadlock
    <2>2. CASE ~ \E u \in Task : Suspended(u)
      <3>1. holder[l] = t
        BY <1>2, <1>7, <2>2 DEF Suspended
      <3> QED BY <1>1, <1>2, <1>5, <1>6, <3>1 DEF OnlySelfDeadlock
    <2> QED BY <2>1, <2>2
  <1> QED BY <1>2, <1>3, <1>5, <1>8, <1>9 DEF SuspendedStay

-----------------------------------------------------------------------------
(* A step that does not wait.                                              *)

LEMMA LockStepKeepsLocks ==
  ASSUME LockInv, NEW t \in Task, LockStep(t)
  PROVE  /\ LockDiscipline' /\ WaitersStuck' /\ OnlySelfDeadlock'
         /\ running = t
         /\ SuspendedStay
  <1>0. TypeOK /\ LockDiscipline /\ WaitersStuck /\ OnlySelfDeadlock
    BY DEF LockInv
  <1>1. running = t /\ Busy(t)
    BY <1>0, OnlyTheRunningSteps DEF LockStep, Scheduled
  <1>2. LockDiscipline' /\ OthersUntouched(t)
    <2>1. ASSUME NEW s \in Seq(Frame), Plain(t, s)
          PROVE  LockDiscipline' /\ OthersUntouched(t)
      <3>1. LockDiscipline'
        BY <1>0, <1>1, <2>1, KeepsDiscipline, MethodsAlone DEF Plain
      <3>2. OthersUntouched(t)
        <4>1. Continue(t, s) /\ holder' = holder
          BY <2>1 DEF Plain, Keeps
        <4> QED BY <1>0, <1>1, <4>1, ContinueFrames, MethodsAlone DEF OthersUntouched
      <3> QED BY <3>1, <3>2
    <2>2. ASSUME NEW s \in Seq(Frame), NEW l \in Lock, TakesLock(t, l, s)
          PROVE  LockDiscipline' /\ OthersUntouched(t)
      <3>1. LockDiscipline'
        BY <1>0, <1>1, <2>2, OpensDiscipline, MethodsAlone DEF TakesLock
      <3>2. Append(s, LeaveFrame(l)) \in Seq(Frame)
        BY FramesMade, AppendProperties
      <3>3. /\ \A u \in Task \ {t} : stack'[u] = stack[u]
            /\ running' = IF stack'[t] = <<>> THEN NoTask ELSE t
        BY <1>0, <1>1, <2>2, <3>2, ContinueFrames, MethodsAlone DEF TakesLock
      <3>4. \A k \in Lock : holder[k] # NoTask => holder'[k] = holder[k]
        BY <1>0, <2>2 DEF TakesLock, Opens, Acquire, TypeOK
      <3> QED BY <3>1, <3>3, <3>4 DEF OthersUntouched
    <2>3. ASSUME NEW l \in Lock, LeaveBlock(t, l)
          PROVE  LockDiscipline' /\ OthersUntouched(t)
      <3>1. LockDiscipline' /\ holder[l] = t
        BY <1>0, <1>1, <2>3, LeaveDiscipline, MethodsAlone
      <3>2. <<>> \in Seq(Frame)
        BY EmptySeq
      <3>3. /\ \A u \in Task \ {t} : stack'[u] = stack[u]
            /\ running' = IF stack'[t] = <<>> THEN NoTask ELSE t
        BY <1>0, <1>1, <2>3, <3>2, ContinueFrames, MethodsAlone DEF LeaveBlock
      <3>4. \A k \in Lock : holder[k] # t => holder'[k] = holder[k]
        BY <1>0, <2>3, <3>1 DEF LeaveBlock, TypeOK
      <3> QED BY <3>1, <3>3, <3>4 DEF OthersUntouched
    <2> QED BY <2>1, <2>2, <2>3 DEF LockStep
  \* Whoever else is busy is suspended, before and after.
  <1>3. \A u \in Task : Suspended(u) <=> u # t /\ Busy(u)
    BY <1>1 DEF Suspended
  <1>4. \A u \in Task : Suspended(u)' <=> u # t /\ Busy(u)
    BY <1>2, TaskAssumption DEF Suspended, Busy, OthersUntouched
  <1>5. \A u \in Task, k \in Lock : u # t => (Asks(u, k)' <=> Asks(u, k))
    BY <1>2 DEF Asks, Top, OthersUntouched
  <1>6. WaitersStuck'
    <2> SUFFICES ASSUME NEW u \in Task, Suspended(u)'
                 PROVE  \E k \in Lock : Asks(u, k)' /\ holder'[k] # NoTask /\ Suspended(holder[k])'
      BY DEF WaitersStuck
    <2>1. u # t /\ Suspended(u)
      BY <1>3, <1>4
    <2>2. PICK k \in Lock : Asks(u, k) /\ holder[k] # NoTask /\ Suspended(holder[k])
      BY <1>0, <2>1 DEF WaitersStuck
    <2>3. holder[k] \in Task /\ holder[k] # t
      BY <1>0, <1>1, <2>2 DEF TypeOK, Suspended
    <2>4. holder'[k] = holder[k]
      BY <1>2, <2>2, <2>3 DEF OthersUntouched
    <2>5. Suspended(holder[k])'
      BY <1>2, <2>2, <2>3, <2>4, TaskAssumption DEF Suspended, Busy, OthersUntouched
    <2> QED BY <1>5, <2>1, <2>2, <2>4, <2>5
  <1>7. OnlySelfDeadlock'
    <2> SUFFICES ASSUME NEW v \in Task, Suspended(v)'
                 PROVE  \E u \in Task, k \in Lock :
                          Suspended(u)' /\ Asks(u, k)' /\ holder'[k] = u
      BY DEF OnlySelfDeadlock
    <2>1. Suspended(v)
      BY <1>3, <1>4
    <2>2. PICK u \in Task, k \in Lock : Suspended(u) /\ Asks(u, k) /\ holder[k] = u
      BY <1>0, <2>1 DEF OnlySelfDeadlock
    <2>3. u # t /\ Suspended(u)'
      BY <1>3, <1>4, <2>2
    <2>4. holder'[k] = u
      BY <1>2, <2>2, <2>3, TaskAssumption DEF OthersUntouched
    <2> QED BY <1>5, <2>2, <2>3, <2>4
  <1>8. SuspendedStay
    BY <1>2, <1>3, <1>4 DEF SuspendedStay, OthersUntouched
  <1> QED BY <1>1, <1>2, <1>6, <1>7, <1>8

-----------------------------------------------------------------------------
(* The theorems.                                                           *)

LEMMA LocksInit ==
  ASSUME Init
  PROVE  LockInv
  <1>1. LockDiscipline /\ WaitersStuck /\ OnlySelfDeadlock
    BY DEF Init, AsyncInit, LockDiscipline, WaitersStuck, OnlySelfDeadlock, Suspended, Busy
  <1> QED BY <1>1, InitType, MethodsAlone DEF LockInv

\* One step, from a state that satisfies the invariant.
LEMMA NextKeepsLocks ==
  ASSUME LockInv, [Next]_vars
  PROVE  LockInv' /\ SuspendedStay
  <1>0. TypeOK /\ TypeOK'
    BY NextType DEF LockInv
  <1>1. CASE UNCHANGED vars
    <2>1. stack' = stack /\ running' = running /\ holder' = holder
      BY <1>1 DEF vars, asyncVars
    <2> QED BY <1>0, <2>1 DEF LockInv, SuspendedStay, LockDiscipline, WaitersStuck,
              OnlySelfDeadlock, Suspended, Busy, Asks, Top
  <1>2. CASE Next
    <2>1. PICK t \in Task : Call(t) \/ Step(t)
      BY <1>2 DEF Next
    <2>2. LockDiscipline' /\ WaitersStuck' /\ OnlySelfDeadlock' /\ SuspendedStay
      BY <1>0, <2>1, StepShape, MethodsAlone, CallKeepsLocks, WaitKeepsLocks, LockStepKeepsLocks
    <2> QED BY <1>0, <2>2 DEF LockInv
  <1> QED BY <1>1, <1>2

\* A lock is held exactly as long as its block is open, and whoever waits,
\* waits for a task that waits: the invariant the two theorems below rest on.
THEOREM LockInvariant == Spec => []LockInv
  BY LocksInit, NextKeepsLocks, PTL DEF Spec

\* If any task waits for a lock, some task waits for a lock it holds itself:
\* the two locks of SupportQueueManager are never taken in opposite orders by
\* two tasks that then wait for each other.
THEOREM NoMutualDeadlock == Spec => []OnlySelfDeadlock
  <1>1. LockInv => OnlySelfDeadlock
    BY DEF LockInv
  <1> QED BY <1>1, LockInvariant, PTL

\* A task that waits for one of the locks is never woken: every lock a task
\* waits for is held by a task that waits too.
THEOREM WaitsForEver == Spec => SuspendedForever
  <1>1. LockInv /\ [Next]_vars =>
          [\A t \in Task : Suspended(t) => Suspended(t)' /\ UNCHANGED stack[t]]_vars
    BY NextKeepsLocks DEF SuspendedStay
  <1> QED BY <1>1, LockInvariant, PTL DEF Spec, SuspendedForever

(***************************************************************************)
(* The books of SupportQueue: no operator has more chats than his limit,   *)
(* and an assigned chat is among the chats of its operator.                *)
(*                                                                         *)
(* The argument.  Only two steps give an operator a chat.  The one of      *)
(* assign_chat_to_operator checks the operator in the same step.  The one  *)
(* of transfer_chat relies on a check made before the lock was asked for;  *)
(* MoveReady says that the check still holds, because a task that was kept *)
(* waiting for the lock never gets it (WaitersStuck).                      *)
(***************************************************************************)

\* A step that gives operator o a chat finds o ready to take it.
Gains ==
  \A o \in Operator :
    \/ operators'[o].current_chats \subseteq operators[o].current_chats
    \/ /\ Registered(o) /\ CanAcceptChat(o)
       /\ \E ch \in Chat :
            operators'[o].current_chats \subseteq operators[o].current_chats \cup {ch}

\* The books as they were.
SameBooks ==
  /\ \A o \in Operator : operators'[o].current_chats = operators[o].current_chats
  /\ chat_assignments' = chat_assignments

-----------------------------------------------------------------------------
(* What a step of each kind does to the books.                             *)

LEMMA SameBooksKept ==
  ASSUME TypeOK, SameBooks
  PROVE  Gains /\ (AssignedChatIsHeld => AssignedChatIsHeld')
  <1>1. \A ch \in Chat : chat_assignments[ch] # NoOperator => chat_assignments[ch] \in Operator
    BY DEF TypeOK
  <1> QED BY <1>1 DEF SameBooks, Gains, AssignedChatIsHeld

\* The steps that write neither current_chats nor chat_assignments.
LEMMA OtherBooks ==
  ASSUME TypeOK, NEW t \in Task,
         \/ Call(t) \/ WaitForLock(t) \/ LeaveLock(t)
         \/ AddClientToQueue(t) \/ RemoveClientFromQueue(t)
         \/ UpdateQueuePosition(t) \/ UpdateWaitTimes(t) \/ TransferChat(t)
         \/ RegisterOperator(t) \/ SetOperatorOnline(t)
         \/ SetOperatorOffline(t) \/ SetOperatorBusy(t) \/ VacateChats(t)
         \/ TransferChatToAvailableOperator(t) \/ TryAutoAssignClients(t)
         \/ AssignEachClient(t) \/ TryAssignOperatorToClient(t)
  PROVE  SameBooks
  <1>0. operators \in [Operator -> OperatorStatus]
    BY DEF TypeOK
  <1>1. CASE operators' = operators /\ chat_assignments' = chat_assignments
    BY <1>1 DEF SameBooks
  <1>2. CASE RegisterOperator(t)
    BY <1>0, <1>2 DEF RegisterOperator, SameBooks, OperatorStatus
  <1>3. CASE SetOperatorOnline(t)
    BY <1>0, <1>3 DEF SetOperatorOnline, SameBooks, OperatorStatus
  <1>4. CASE SetOperatorOffline(t)
    BY <1>0, <1>4 DEF SetOperatorOffline, SameBooks, OperatorStatus
  <1>5. CASE SetOperatorBusy(t)
    BY <1>0, <1>5 DEF SetOperatorBusy, SameBooks, OperatorStatus
  <1>6. CASE Call(t) \/ WaitForLock(t) \/ LeaveLock(t) \/ UpdateWaitTimes(t)
             \/ TransferChat(t) \/ VacateChats(t)
             \/ TransferChatToAvailableOperator(t) \/ TryAutoAssignClients(t)
             \/ AssignEachClient(t) \/ TryAssignOperatorToClient(t)
    BY <1>1, <1>6 DEF Call, WaitForLock, LeaveLock, UpdateWaitTimes, TransferChat,
       VacateChats, TransferChatToAvailableOperator, TryAutoAssignClients,
       AssignEachClient, TryAssignOperatorToClient, queueVars
  <1>7. CASE AddClientToQueue(t) \/ RemoveClientFromQueue(t) \/ UpdateQueuePosition(t)
    BY <1>1, <1>7 DEF AddClientToQueue, RemoveClientFromQueue, UpdateQueuePosition
  <1> QED BY <1>2, <1>3, <1>4, <1>5, <1>6, <1>7

LEMMA AssignBooks ==
  ASSUME TypeOK, NEW t \in Task, AssignChatToOperator(t)
  PROVE  Gains /\ (AssignedChatIsHeld => AssignedChatIsHeld')
  <1> DEFINE ch == Top(t).chat
             o  == Top(t).operator
  <1>0. ch \in Chat /\ o \in Operator
    <2>1. Busy(t) /\ Top(t) \in Frame /\ Top(t).do = "assign"
      BY TopType, MethodsAlone DEF Methods, AssignChatToOperator, Runs, Scheduled
    <2> QED BY <2>1, FrameArguments
  <1>1. CASE UNCHANGED <<operators, chat_assignments>>
    BY <1>1, SameBooksKept DEF SameBooks
  <1>2. CASE /\ Registered(o) /\ CanAcceptChat(o)
             /\ chat_assignments' = [chat_assignments EXCEPT ![ch] = o]
             /\ operators' = [operators EXCEPT ![o].current_chats = @ \cup {ch}]
    <2>1. /\ operators \in [Operator -> OperatorStatus]
          /\ chat_assignments \in [Chat -> Operator \cup {NoOperator}]
      BY DEF TypeOK
    <2>2. \A p \in Operator : operators'[p].current_chats =
            IF p = o THEN operators[o].current_chats \cup {ch}
            ELSE operators[p].current_chats
      BY <1>0, <1>2, <2>1 DEF OperatorStatus
    <2>3. Gains
      BY <1>0, <1>2, <2>2 DEF Gains
    <2>4. ASSUME AssignedChatIsHeld, NEW d \in Chat, chat_assignments'[d] # NoOperator
          PROVE  d \in operators'[chat_assignments'[d]].current_chats
      <3>1. CASE d = ch
        BY <1>0, <1>2, <2>1, <2>2, <3>1
      <3>2. CASE d # ch
        <4>1. chat_assignments'[d] = chat_assignments[d] /\ chat_assignments[d] \in Operator
          BY <1>0, <1>2, <2>1, <2>4, <3>2
        <4>2. d \in operators[chat_assignments[d]].current_chats
          BY <2>4, <4>1 DEF AssignedChatIsHeld
        <4> QED BY <2>2, <4>1, <4>2
      <3> QED BY <3>1, <3>2
    <2> QED BY <2>3, <2>4 DEF AssignedChatIsHeld
  <1> QED BY <1>1, <1>2 DEF AssignChatToOperator

\* What discarding a chat leaves.
LEMMA DiscardingChats ==
  ASSUME TypeOK, NEW ch \in Chat, NEW o \in Operator \cup {NoOperator}
  PROVE  \A p \in Operator : Discarding(ch, o)[p].current_chats =
           IF p = o THEN operators[p].current_chats \ {ch} ELSE operators[p].current_chats
  <1>1. operators \in [Operator -> OperatorStatus]
    BY DEF TypeOK
  <1> QED BY <1>1, SupportAssumption DEF Discarding, OperatorStatus

LEMMA ReleaseBooks ==
  ASSUME TypeOK, NEW t \in Task, ReleaseOperatorFromChat(t)
  PROVE  Gains /\ (AssignedChatIsHeld => AssignedChatIsHeld')
  <1> DEFINE ch == Top(t).chat
             o  == chat_assignments[ch]
  <1>0. ch \in Chat /\ chat_assignments \in [Chat -> Operator \cup {NoOperator}]
    <2>1. Busy(t) /\ Top(t) \in Frame /\ Top(t).do = "release"
      BY TopType, MethodsAlone DEF Methods, ReleaseOperatorFromChat, Runs, Scheduled
    <2> QED BY <2>1, FrameArguments DEF TypeOK
  <1>1. CASE UNCHANGED <<operators, chat_assignments>>
    BY <1>1, SameBooksKept DEF SameBooks
  <1>2. CASE /\ o # NoOperator
             /\ chat_assignments' = [chat_assignments EXCEPT ![ch] = NoOperator]
             /\ operators' = Discarding(ch, o)
    <2>1. \A p \in Operator : operators'[p].current_chats =
            IF p = o THEN operators[p].current_chats \ {ch} ELSE operators[p].current_chats
      BY <1>0, <1>2, DiscardingChats
    <2>2. Gains
      BY <2>1 DEF Gains
    <2>3. ASSUME AssignedChatIsHeld, NEW d \in Chat, chat_assignments'[d] # NoOperator
          PROVE  d \in operators'[chat_assignments'[d]].current_chats
      <3>1. d # ch /\ chat_assignments'[d] = chat_assignments[d]
              /\ chat_assignments[d] \in Operator
        BY <1>0, <1>2, <2>3
      <3>2. d \in operators[chat_assignments[d]].current_chats
        BY <2>3, <3>1 DEF AssignedChatIsHeld
      <3> QED BY <2>1, <3>1, <3>2
    <2> QED BY <2>2, <2>3 DEF AssignedChatIsHeld
  <1> QED BY <1>1, <1>2 DEF ReleaseOperatorFromChat

LEMMA MoveBooks ==
  ASSUME TypeOK, MoveReady, NEW t \in Task, running = t, MoveChat(t)
  PROVE  Gains /\ (AssignedChatIsHeld => AssignedChatIsHeld')
  <1> DEFINE ch == Top(t).chat
             o  == Top(t).operator
             from == Top(t).from
  <1>0. Busy(t) /\ Top(t) \in Frame /\ Top(t).do = "move"
    BY TopType, MethodsAlone DEF Methods, MoveChat, Runs, Scheduled
  <1>1. /\ ch \in Chat /\ o \in Operator /\ from \in Operator
        /\ operators \in [Operator -> OperatorStatus]
        /\ chat_assignments \in [Chat -> Operator \cup {NoOperator}]
    BY <1>0, FrameArguments DEF TypeOK
  <1>2. Registered(o) /\ CanAcceptChat(o)
    BY <1>0 DEF MoveReady
  <1>3. /\ chat_assignments' = [chat_assignments EXCEPT ![ch] = o]
        /\ operators' = [Discarding(ch, from) EXCEPT ![o].current_chats = @ \cup {ch}]
    BY DEF MoveChat
  <1>4. \A p \in Operator : Discarding(ch, from)[p].current_chats =
          IF p = from THEN operators[p].current_chats \ {ch} ELSE operators[p].current_chats
    BY <1>1, DiscardingChats
  <1>5. Discarding(ch, from) \in [Operator -> OperatorStatus]
    BY <1>1, DiscardingType
  <1>6. \A p \in Operator : operators'[p].current_chats =
          IF p = o THEN Discarding(ch, from)[p].current_chats \cup {ch}
          ELSE Discarding(ch, from)[p].current_chats
    BY <1>1, <1>3, <1>5 DEF OperatorStatus
  <1> HIDE DEF ch, o, from
  <1>7. Gains
    BY <1>1, <1>2, <1>4, <1>6 DEF Gains
  <1>8. ASSUME AssignedChatIsHeld, NEW d \in Chat, chat_assignments'[d] # NoOperator
        PROVE  d \in operators'[chat_assignments'[d]].current_chats
    <2>1. CASE d = ch
      BY <1>1, <1>3, <1>6, <2>1
    <2>2. CASE d # ch
      <3>1. chat_assignments'[d] = chat_assignments[d] /\ chat_assignments[d] \in Operator
        BY <1>1, <1>3, <1>8, <2>2
      <3>2. d \in operators[chat_assignments[d]].current_chats
        BY <1>8, <3>1 DEF AssignedChatIsHeld
      <3> QED BY <1>4, <1>6, <2>2, <3>1, <3>2
    <2> QED BY <2>1, <2>2
  <1> QED BY <1>7, <1>8 DEF AssignedChatIsHeld

LEMMA GainsRespectCapacity ==
  ASSUME TypeOK, CapacityRespected, Gains, TypeOK'
  PROVE  CapacityRespected'
  <1> SUFFICES ASSUME NEW o \in Operator PROVE Load(o)' <= MaxChats[o]
    BY DEF CapacityRespected
  <1> DEFINE old == operators[o].current_chats
             new == operators'[o].current_chats
  <1>1. /\ old \in SUBSET Chat /\ new \in SUBSET Chat /\ MaxChats[o] \in Nat
    BY SupportAssumption DEF TypeOK, OperatorStatus
  <1>2. IsFiniteSet(old) /\ IsFiniteSet(new)
    BY <1>1, FS_Subset, SupportAssumption
  <1>3. Cardinality(old) \in Nat /\ Cardinality(new) \in Nat
    BY <1>2, FS_CardinalityType
  <1>4. Cardinality(old) <= MaxChats[o]
    BY DEF CapacityRespected, Load
  <1>5. CASE new \subseteq old
    <2>1. Cardinality(new) <= Cardinality(old)
      BY <1>2, <1>5, FS_Subset
    <2> QED BY <1>1, <1>3, <1>4, <2>1 DEF Load
  <1>6. CASE CanAcceptChat(o) /\ \E ch \in Chat : new \subseteq old \cup {ch}
    <2>1. Cardinality(old) < MaxChats[o]
      BY <1>6 DEF CanAcceptChat, CanAccept
    <2>2. PICK ch \in Chat : new \subseteq old \cup {ch}
      BY <1>6
    <2>3. /\ IsFiniteSet(old \cup {ch})
          /\ Cardinality(old \cup {ch}) = Cardinality(old)
               \/ Cardinality(old \cup {ch}) = Cardinality(old) + 1
      BY <1>2, FS_AddElement
    <2>4. Cardinality(new) <= Cardinality(old \cup {ch})
      BY <2>2, <2>3, FS_Subset
    <2> HIDE DEF old, new
    <2>5. Cardinality(new) <= MaxChats[o]
      BY <1>1, <1>3, <2>1, <2>3, <2>4
    <2> QED BY <2>5 DEF Load, new
  <1> QED BY <1>5, <1>6 DEF Gains

-----------------------------------------------------------------------------
(* The check made before the lock is asked for stays good.                 *)

LEMMA ContinueMoveReady ==
  ASSUME TypeOK, MoveReady, NEW t \in Task, Busy(t),
         NEW s \in Seq(Frame), ReadyMoves(s), Continue(t, s)
  PROVE  MoveReady'
  <1>0. Len(s) \in Nat /\ DOMAIN s = 1..Len(s)
    BY LenProperties
  <1>1. /\ \A u \in Task \ {t} : stack'[u] = stack[u]
        /\ stack'[t] \in Seq(Frame)
        /\ Len(stack'[t]) = Len(s) + Len(stack[t]) - 1
        /\ \A i \in DOMAIN stack'[t] :
             stack'[t][i] = IF i <= Len(s) THEN s[i] ELSE stack[t][i - Len(s) + 1]
        /\ running' = IF stack'[t] = <<>> THEN NoTask ELSE t
    BY ContinueFrames, MethodsAlone
  <1>2. DOMAIN stack'[t] = 1..Len(stack'[t])
    BY <1>1, LenProperties
  <1>3. ASSUME NEW i \in DOMAIN stack'[t], NEW f, f = stack'[t][i], f.do = "move"
        PROVE  i = 1 /\ CanMove(f)
    <2>1. CASE i <= Len(s)
      <3>1. i \in DOMAIN s /\ f = s[i]
        BY <1>0, <1>1, <1>2, <1>3, <2>1
      <3> QED BY <1>3, <3>1 DEF ReadyMoves
    <2>2. CASE i > Len(s)
      <3>1. i - Len(s) + 1 \in DOMAIN stack[t] /\ i - Len(s) + 1 # 1
        BY <1>0, <1>1, <1>2, <2>2, StackDomain, MethodsAlone
      <3>2. stack[t][i - Len(s) + 1].do = "move"
        BY <1>0, <1>1, <1>2, <1>3, <2>2
      <3> QED BY <3>1, <3>2 DEF MoveReady
    <2> QED BY <1>0, <1>2, <2>1, <2>2
  <1>4. ASSUME NEW u \in Task, NEW i \in DOMAIN stack'[u], stack'[u][i].do = "move"
        PROVE  i = 1
    BY <1>1, <1>3, <1>4 DEF MoveReady
  <1>5. ASSUME NEW u \in Task, running' = u, stack'[u] # <<>>,
               NEW f, f = Head(stack'[u]), f.do = "move"
        PROVE  Registered(f.operator)' /\ CanAcceptChat(f.operator)'
    <2>1. u = t
      BY <1>1, <1>5, TaskAssumption
    <2>2. 1 \in DOMAIN stack'[t] /\ Head(stack'[t]) = stack'[t][1]
      BY <1>1, <1>2, <1>5, <2>1
    <2> QED BY <1>3, <1>5, <2>1, <2>2 DEF CanMove
  <1> QED BY <1>4, <1>5 DEF MoveReady, Busy, Top, Registered, CanAcceptChat, CanAccept

LEMMA CallMoveReady ==
  ASSUME TypeOK, MoveReady, NEW t \in Task, Call(t)
  PROVE  MoveReady'
  <1>1. PICK f \in Calls : Start(t, f)
    BY DEF Call
  <1>2. f.do # "move"
    BY DEF Calls
  <1>3. /\ stack'[t] = <<f>> /\ running' = t
        /\ \A u \in Task \ {t} : stack'[u] = stack[u]
    BY <1>1 DEF Start, TypeOK
  <1>4. DOMAIN stack'[t] = {1} /\ stack'[t][1] = f /\ Head(stack'[t]) = f
    BY <1>3
  <1> QED BY <1>2, <1>3, <1>4 DEF MoveReady, Top

LEMMA WaitMoveReady ==
  ASSUME TypeOK, MoveReady, NEW t \in Task, WaitForLock(t)
  PROVE  MoveReady'
  <1>1. stack' = stack /\ running' = NoTask
    BY DEF WaitForLock, Wait
  <1> QED BY <1>1, TaskAssumption DEF MoveReady

LEMMA LockStepMoveReady ==
  ASSUME TypeOK, MoveReady, NEW t \in Task, LockStep(t)
  PROVE  MoveReady'
  <1>0. Busy(t)
    BY DEF LockStep, Scheduled
  <1>1. ASSUME NEW s \in Seq(Frame), Plain(t, s) PROVE MoveReady'
    BY <1>0, <1>1, ContinueMoveReady DEF Plain
  <1>2. ASSUME NEW s \in Seq(Frame), NEW l \in Lock, TakesLock(t, l, s) PROVE MoveReady'
    <2> DEFINE q == Append(s, LeaveFrame(l))
    <2>0. Len(s) \in Nat /\ DOMAIN s = 1..Len(s) /\ LeaveFrame(l) \in Frame
      BY FramesMade, LenProperties
    <2>1. /\ q \in Seq(Frame) /\ DOMAIN q = 1..Len(s) + 1
          /\ \A i \in 1..Len(s) : q[i] = s[i]
          /\ q[Len(s) + 1].do # "move"
      BY <2>0, AppendProperties, LenProperties DEF LeaveFrame
    <2>2. Continue(t, q) /\ ReadyMoves(s)
      BY <1>2 DEF TakesLock
    <2> HIDE DEF q
    <2>3. ReadyMoves(q)
      BY <2>0, <2>1, <2>2 DEF ReadyMoves, CanMove
    <2> QED BY <1>0, <2>1, <2>2, <2>3, ContinueMoveReady
  <1>3. ASSUME NEW l \in Lock, LeaveBlock(t, l) PROVE MoveReady'
    <2>1. <<>> \in Seq(Frame) /\ ReadyMoves(<<>>)
      BY ShortSequences
    <2> QED BY <1>0, <1>3, <2>1, ContinueMoveReady DEF LeaveBlock
  <1> QED BY <1>1, <1>2, <1>3 DEF LockStep

-----------------------------------------------------------------------------
(* The theorems.                                                           *)

LEMMA BooksInit ==
  ASSUME Init
  PROVE  IInv
  <1>1. LockInv
    BY LocksInit
  <1>2. MoveReady /\ AssignedChatIsHeld
    BY DEF Init, AsyncInit, QueueInit, MoveReady, AssignedChatIsHeld, Busy
  <1>3. CapacityRespected
    <2>1. \A o \in Operator : Load(o) = 0
      BY FS_EmptySet DEF Init, QueueInit, Load
    <2> QED BY <2>1, SupportAssumption DEF CapacityRespected
  <1> QED BY <1>1, <1>2, <1>3 DEF IInv

\* One step, from a state that satisfies the invariant.
LEMMA NextKeepsBooks ==
  ASSUME IInv, [Next]_vars
  PROVE  IInv' /\ Gains
  <1>0. /\ LockInv /\ LockInv' /\ TypeOK /\ TypeOK' /\ LockDiscipline /\ WaitersStuck
        /\ MoveReady /\ CapacityRespected /\ AssignedChatIsHeld
    BY NextKeepsLocks DEF IInv, LockInv
  <1>1. CASE UNCHANGED vars
    <2>1. MoveReady'
      BY <1>0, <1>1 DEF vars, asyncVars, queueVars, MoveReady, Busy, Top, Registered,
         CanAcceptChat, CanAccept
    <2>2. SameBooks
      BY <1>1 DEF vars, queueVars, SameBooks
    <2> QED BY <1>0, <2>1, <2>2, SameBooksKept, GainsRespectCapacity DEF IInv
  <1>2. CASE Next
    <2>1. PICK t \in Task : Call(t) \/ Step(t)
      BY <1>2 DEF Next
    <2>2. MoveReady'
      BY <1>0, <2>1, StepShape, MethodsAlone, CallMoveReady, WaitMoveReady, LockStepMoveReady
    <2>3. CASE MoveChat(t)
      <3>1. LockStep(t)
        BY <1>0, <2>3, EnterSteps, MethodsAlone DEF LockStep
      <3>2. running = t
        BY <1>0, <3>1, OnlyTheRunningSteps
      <3>3. Gains /\ AssignedChatIsHeld'
        BY <1>0, <2>3, <3>2, MoveBooks
      <3> QED BY <1>0, <2>2, <3>3, GainsRespectCapacity DEF IInv
    <2>4. CASE AssignChatToOperator(t) \/ ReleaseOperatorFromChat(t)
      BY <1>0, <2>2, <2>4, AssignBooks, ReleaseBooks, GainsRespectCapacity DEF IInv
    <2>5. CASE Call(t) \/ (Step(t) /\ ~MoveChat(t) /\ ~AssignChatToOperator(t)
                             /\ ~ReleaseOperatorFromChat(t))
      <3>1. SameBooks
        BY <1>0, <2>5, OtherBooks DEF Step
      <3> QED BY <1>0, <2>2, <3>1, SameBooksKept, GainsRespectCapacity DEF IInv
    <2> QED BY <2>1, <2>3, <2>4, <2>5
  <1> QED BY <1>1, <1>2

\* Every reachable state satisfies the inductive invariant of the module.
THEOREM BooksInvariant == Spec => []IInv
  BY BooksInit, NextKeepsBooks, PTL DEF Spec

\* No operator ever holds more chats than his limit, for any number of tasks,
\* operators and chats: the check transfer_chat makes before it has the lock
\* cannot be out of date when it uses it.
THEOREM CapacityIsRespected == Spec => []CapacityRespected
  <1>1. IInv => CapacityRespected
    BY DEF IInv
  <1> QED BY <1>1, BooksInvariant, PTL

\* Every assigned chat is among the current_chats of the operator it is
\* assigned to.
THEOREM AssignedChatsAreHeld == Spec => []AssignedChatIsHeld
  <1>1. IInv => AssignedChatIsHeld
    BY DEF IInv
  <1> QED BY <1>1, BooksInvariant, PTL

\* No step adds a chat to an operator who is offline, unavailable or full when
\* the step starts.
THEOREM GainsAreChecked == Spec => OnlyAcceptingOperatorsGainChats
  <1>1. IInv /\ [Next]_vars =>
          [\A o \in Operator :
             \/ operators'[o].current_chats \subseteq operators[o].current_chats
             \/ (Registered(o) /\ CanAcceptChat(o))]_vars
    BY NextKeepsBooks DEF Gains
  <1> QED BY <1>1, BooksInvariant, PTL DEF Spec, OnlyAcceptingOperatorsGainChats

(***************************************************************************)
(* The turns of SupportQueue: in which order the waiting clients are       *)
(* served, and who leaves the queue.                                       *)
(*                                                                         *)
(* The argument.  The queue is ranked: nobody is before a client that is   *)
(* before him.  A turn of _try_auto_assign_clients starts with everybody   *)
(* who waits, in that order, and is not interrupted: it has either still   *)
(* to go through everybody who waits, or nobody has room any more, and     *)
(* nobody is given room in it.  A task that waits for a lock is out of the *)
(* game (WaitersStuck), so only the task that runs counts.                 *)
(***************************************************************************)

\* Nobody is ahead of himself, no two clients are ahead of each other, and who is
\* ahead of a client waits; what a client waits with is a chat of his.
QueueOK ==
  \A c \in Waiting :
    /\ ClientOf[waiting_clients[c].chat] = c
    /\ waiting_clients[c].ahead \subseteq Waiting
    /\ \A d \in waiting_clients[c].ahead : c \notin waiting_clients[d].ahead

Members(s) == {s[i] : i \in DOMAIN s}
Ranked(s) == \A i, j \in DOMAIN s : i < j => Before(s[i], s[j])

\* What the loop of _try_auto_assign_clients has still to go through: everybody who
\* waits, in order; or nobody can be served any more.
Remaining(s) == AvailableSupport = {} \/ (Waiting = Members(s) /\ Ranked(s))

\* The same, while the loop is at client c.
AtClient(c, s) ==
  /\ Waiting = {c} \cup Members(s) /\ Ranked(s)
  /\ \A d \in Members(s) : Before(c, d)

\* Where a task that runs may be in the loop: i is the position of its frame, s what
\* it has left.
Place(t, i, s) ==
  LET f == stack[t][1] IN
  \/ i = 1 /\ Remaining(s)
  \/ i = 2 /\ f.do = "tryAssign" /\ (AvailableSupport = {} \/ AtClient(f.client, s))
  \/ i = 2 /\ f.do = "assign" /\ AtClient(f.client, s) /\ f.operator \in AvailableSupport
  \/ i = 3 /\ f.do = "remove" /\ stack[t][2].do = "leave" /\ AtClient(f.client, s)
  \/ i = 3 /\ f.do = "leave" /\ stack[t][2].do = "leave" /\ Remaining(s)
  \/ i = 2 /\ f.do = "leave" /\ Remaining(s)

LoopFrame(s) == [do |-> "assignEach", clients |-> s]

InLoop(t) ==
  \A i \in DOMAIN stack[t], s \in Seq(Client) :
    stack[t][i] = LoopFrame(s) => Place(t, i, s)

\* The clients a task that runs is about to assign a chat to, and to take from the
\* queue.
ServesOwn(t) ==
  \A i \in DOMAIN stack[t] :
    /\ stack[t][i].do = "assign" => ClientOf[stack[t][i].chat] = stack[t][i].client
    /\ stack[t][i].do = "remove" =>
         /\ i = 1
         /\ \/ stack[t] = <<stack[t][1]>>
            \/ \E ch \in Chat : /\ ClientOf[ch] = stack[t][1].client
                                /\ chat_assignments[ch] # NoOperator

TurnsOK == \A t \in Task : running = t => Busy(t) /\ InLoop(t) /\ ServesOwn(t)

-----------------------------------------------------------------------------
(* The queue is ranked.                                                    *)

\* Which step writes the queue.
LEMMA WritersOfQueue ==
  ASSUME NEW t \in Task, Call(t) \/ Step(t)
  PROVE  \/ waiting_clients' = waiting_clients
         \/ AddClientToQueue(t) \/ RemoveClientFromQueue(t) \/ UpdateQueuePosition(t)
  BY DEF Call, Step, UpdateWaitTimes, AssignChatToOperator, ReleaseOperatorFromChat, TransferChat,
     MoveChat, RegisterOperator, SetOperatorOnline, SetOperatorOffline, SetOperatorBusy,
     VacateChats, TransferChatToAvailableOperator, TryAutoAssignClients, AssignEachClient,
     TryAssignOperatorToClient, WaitForLock, LeaveLock, queueVars

\* The queue once a client has left it.
LEMMA QueueWithout ==
  ASSUME TypeOK, NEW c \in Client, waiting_clients' = Without(c)
  PROVE  /\ Waiting' = Waiting \ {c}
         /\ \A d \in Waiting' : /\ waiting_clients'[d].chat = waiting_clients[d].chat
                                /\ waiting_clients'[d].priority = waiting_clients[d].priority
                                /\ waiting_clients'[d].ahead = waiting_clients[d].ahead \ {c}
  <1>1. \A d \in Waiting : d \in Client /\ waiting_clients[d] \in QueuedClient
    BY DEF TypeOK, Waiting
  <1>2. \A d \in Client : waiting_clients'[d] =
          IF d = c \/ d \notin Waiting THEN NotWaiting
          ELSE [waiting_clients[d] EXCEPT !.ahead = @ \ {c}]
    BY DEF Without
  <1>3. \A d \in Waiting : [waiting_clients[d] EXCEPT !.ahead = @ \ {c}] \in QueuedClient
    BY <1>1 DEF QueuedClient
  <1>n. \A d \in Waiting : [waiting_clients[d] EXCEPT !.ahead = @ \ {c}] # NotWaiting
    BY <1>3, NotWaitingAssumption
  <1>4. Waiting' = Waiting \ {c}
    BY <1>1, <1>2, <1>n DEF Waiting
  <1>5. \A d \in Waiting' : waiting_clients'[d] = [waiting_clients[d] EXCEPT !.ahead = @ \ {c}]
    BY <1>1, <1>2, <1>4
  <1> QED BY <1>1, <1>4, <1>5 DEF QueuedClient

LEMMA QueueOKNext ==
  ASSUME TypeOK, QueueOK, NEW t \in Task, Call(t) \/ Step(t)
  PROVE  QueueOK'
  <1>0. waiting_clients \in [Client -> QueuedClient \cup {NotWaiting}]
    BY DEF TypeOK
  <1>1. CASE waiting_clients' = waiting_clients
    BY <1>1 DEF QueueOK, Waiting
  <1>2. CASE AddClientToQueue(t)
    <2> DEFINE c == Top(t).client
               new == [chat |-> Top(t).chat, priority |-> 0, ahead |-> Waiting]
    <2>1. Top(t) \in Frame /\ Top(t).do = "add"
      BY <1>2, TopType, MethodsAlone DEF Methods, AddClientToQueue, Runs, Scheduled
    <2>2. Top(t).chat \in Chat /\ c = ClientOf[Top(t).chat] /\ c \in Client
      BY <2>1, SupportAssumption DEF Frame, Calls
    <2>3. new \in QueuedClient /\ new # NotWaiting
      BY <2>2, SupportAssumption, NotWaitingAssumption DEF QueuedClient, Waiting
    <2>4. /\ new.chat = Top(t).chat /\ new.ahead = Waiting
      OBVIOUS
    <2> HIDE DEF new
    <2>5. waiting_clients' = waiting_clients
            \/ (c \notin Waiting /\ waiting_clients' = [waiting_clients EXCEPT ![c] = new])
      BY <1>2 DEF AddClientToQueue, new
    <2>6. CASE c \notin Waiting /\ waiting_clients' = [waiting_clients EXCEPT ![c] = new]
      <3>1. \A d \in Client : waiting_clients'[d] = IF d = c THEN new ELSE waiting_clients[d]
        BY <1>0, <2>2, <2>6
      <3>2. Waiting' = Waiting \cup {c}
        BY <2>2, <2>3, <3>1 DEF Waiting
      <3>3. Waiting \subseteq Client
        BY DEF Waiting
      <3>4. ASSUME NEW d \in Waiting'
            PROVE  /\ ClientOf[waiting_clients'[d].chat] = d
                   /\ waiting_clients'[d].ahead \subseteq Waiting'
                   /\ \A e \in waiting_clients'[d].ahead : d \notin waiting_clients'[e].ahead
        <4>1. CASE d = c
          BY <2>2, <2>4, <2>6, <3>1, <3>2, <3>3, <4>1 DEF QueueOK
        <4>2. CASE d # c
          <5>1. d \in Waiting /\ d \in Client /\ waiting_clients'[d] = waiting_clients[d]
            BY <3>1, <3>2, <3>3, <4>2
          <5>2. \A e \in waiting_clients[d].ahead :
                  e \in Waiting /\ waiting_clients'[e] = waiting_clients[e]
            BY <2>6, <3>1, <3>3, <5>1 DEF QueueOK
          <5> QED BY <3>2, <5>1, <5>2 DEF QueueOK
        <4> QED BY <4>1, <4>2
      <3> QED BY <3>4 DEF QueueOK
    <2> QED BY <1>1, <2>5, <2>6
  <1>3. CASE RemoveClientFromQueue(t)
    <2>1. Top(t).client \in Client /\ waiting_clients' = Without(Top(t).client)
      BY <1>3, TopType, MethodsAlone, FrameArguments
        DEF Methods, RemoveClientFromQueue, Runs, Scheduled
    <2>2. /\ Waiting' = Waiting \ {Top(t).client}
          /\ \A d \in Waiting' :
               /\ waiting_clients'[d].chat = waiting_clients[d].chat
               /\ waiting_clients'[d].ahead = waiting_clients[d].ahead \ {Top(t).client}
      BY <2>1, QueueWithout
    <2> QED BY <2>2 DEF QueueOK
  <1>4. CASE UpdateQueuePosition(t)
    <2> DEFINE c == Top(t).client
    <2>1. c \in Client /\ Top(t).priority \in Priority
      BY <1>4, TopType, MethodsAlone, FrameArguments
        DEF Methods, UpdateQueuePosition, Runs, Scheduled
    <2>2. waiting_clients' = waiting_clients
            \/ (c \in Waiting
                /\ waiting_clients' = [waiting_clients EXCEPT ![c].priority = Top(t).priority])
      BY <1>4 DEF UpdateQueuePosition
    <2>3. CASE /\ c \in Waiting
               /\ waiting_clients' = [waiting_clients EXCEPT ![c].priority = Top(t).priority]
      <3>1. waiting_clients[c] \in QueuedClient
        BY <1>0, <2>1, <2>3 DEF Waiting
      <3>2. [waiting_clients[c] EXCEPT !.priority = Top(t).priority] \in QueuedClient
        BY <2>1, <3>1 DEF QueuedClient
      <3>3. \A d \in Client : waiting_clients'[d] =
              IF d = c THEN [waiting_clients[c] EXCEPT !.priority = Top(t).priority]
              ELSE waiting_clients[d]
        BY <1>0, <2>1, <2>3
      <3>4. Waiting' = Waiting
        BY <2>1, <2>3, <3>2, <3>3, NotWaitingAssumption DEF Waiting
      <3>5. \A d \in Waiting : /\ waiting_clients'[d].chat = waiting_clients[d].chat
                               /\ waiting_clients'[d].ahead = waiting_clients[d].ahead
        BY <3>1, <3>3 DEF Waiting, QueuedClient
      <3> QED BY <3>4, <3>5 DEF QueueOK
    <2> QED BY <1>1, <2>2, <2>3
  <1> QED BY <1>1, <1>2, <1>3, <1>4, WritersOfQueue

\* Of two clients one is not before the other and after him.
LEMMA BeforeAsymmetric ==
  ASSUME TypeOK, QueueOK, NEW c \in Waiting, NEW d \in Waiting, Before(c, d)
  PROVE  ~Before(d, c)
  <1>1. waiting_clients[c].priority \in Nat /\ waiting_clients[d].priority \in Nat
    BY SupportAssumption DEF TypeOK, Waiting, QueuedClient
  <1> QED BY <1>1 DEF Before, QueueOK

\* The sorted snapshot has everybody who waits in it.
LEMMA SortedIsAll ==
  ASSUME TypeOK, QueueOK, NEW s \in SortedClients
  PROVE  Waiting = Members(s) /\ Ranked(s)
  <1>1. IsFiniteSet(Waiting) /\ Cardinality(Waiting) \in Nat
    BY SupportAssumption, FS_Subset, FS_CardinalityType DEF Waiting
  <1>2. PICK n \in Nat : n = Cardinality(Waiting)
    BY <1>1
  <1>3. s \in [1..n -> Waiting] /\ Ranked(s)
    BY <1>2 DEF SortedClients, Ranked
  <1>4. ASSUME NEW i \in 1..n, NEW j \in 1..n, s[i] = s[j]
        PROVE  i = j
    <2>1. \A k, l \in 1..n : k < l => s[k] # s[l]
      BY <1>3, BeforeAsymmetric DEF Ranked
    <2> QED BY <1>4, <2>1
  <1>5. s \in Injection(1..n, Waiting)
    BY <1>3, <1>4 DEF Injection, IsInjective
  <1>6. Cardinality(1..n) = n
    BY FS_Interval
  <1>7. s \in Surjection(1..n, Waiting)
    BY <1>1, <1>2, <1>5, <1>6, FS_Injection
  <1> QED BY <1>3, <1>7 DEF Surjection, Members

-----------------------------------------------------------------------------
(* What a step leaves of the stack, frame by frame.                        *)

LEMMA PopStack ==
  ASSUME TypeOK, NEW t \in Task, Busy(t), Continue(t, <<>>)
  PROVE  \A i \in DOMAIN stack'[t] :
           /\ i \in Nat /\ i >= 1
           /\ i + 1 \in DOMAIN stack[t]
           /\ stack'[t][i] = stack[t][i + 1]
  <1>1. <<>> \in Seq(Frame) /\ Len(<<>>) = 0
    BY EmptySeq
  <1>2. /\ stack'[t] \in Seq(Frame)
        /\ Len(stack'[t]) = 0 + Len(stack[t]) - 1
        /\ \A i \in DOMAIN stack'[t] :
             stack'[t][i] = IF i <= 0 THEN <<>>[i] ELSE stack[t][i - 0 + 1]
    BY <1>1, ContinueFrames, MethodsAlone
  <1>3. PICK n \in Nat : n = Len(stack[t]) /\ DOMAIN stack[t] = 1..n
    BY StackDomain, MethodsAlone
  <1>4. DOMAIN stack'[t] = 1..(n - 1)
    BY <1>2, <1>3, LenProperties
  <1> QED BY <1>2, <1>3, <1>4

LEMMA PushOne ==
  ASSUME TypeOK, NEW t \in Task, Busy(t), NEW f \in Frame, Continue(t, <<f>>)
  PROVE  /\ stack'[t][1] = f
         /\ \A i \in DOMAIN stack'[t] :
              \/ i = 1
              \/ i \in Nat /\ i >= 2 /\ i \in DOMAIN stack[t] /\ stack'[t][i] = stack[t][i]
  <1> DEFINE s == <<f>>
  <1>1. s \in Seq(Frame) /\ Len(s) = 1 /\ s[1] = f
    OBVIOUS
  <1>c. Continue(t, s)
    OBVIOUS
  <1> HIDE DEF s
  <1>2. /\ stack'[t] \in Seq(Frame)
        /\ Len(stack'[t]) = 1 + Len(stack[t]) - 1
        /\ \A i \in DOMAIN stack'[t] :
             stack'[t][i] = IF i <= 1 THEN s[i] ELSE stack[t][i - 1 + 1]
    BY <1>1, <1>c, ContinueFrames, MethodsAlone
  <1>3. PICK n \in Nat : n = Len(stack[t]) /\ DOMAIN stack[t] = 1..n /\ n >= 1
    BY StackDomain, MethodsAlone
  <1>4. DOMAIN stack'[t] = 1..n
    BY <1>2, <1>3, LenProperties
  <1> QED BY <1>1, <1>2, <1>3, <1>4

LEMMA PushTwo ==
  ASSUME TypeOK, NEW t \in Task, Busy(t), NEW f \in Frame, NEW g \in Frame,
         Continue(t, <<f, g>>)
  PROVE  /\ stack'[t][1] = f /\ stack'[t][2] = g
         /\ \A i \in DOMAIN stack'[t] :
              \/ i = 1 \/ i = 2
              \/ i \in Nat /\ i >= 3 /\ i - 1 \in DOMAIN stack[t] /\ stack'[t][i] = stack[t][i - 1]
  <1> DEFINE s == <<f, g>>
  <1>k. PICK k \in Nat : k = 2 /\ k = 1 + 1
    OBVIOUS
  <1>1. s \in Seq(Frame) /\ Len(s) = k /\ s[1] = f /\ s[2] = g
    BY <1>k
  <1>c. Continue(t, s)
    OBVIOUS
  <1> HIDE DEF s
  <1>2. /\ stack'[t] \in Seq(Frame)
        /\ Len(stack'[t]) = k + Len(stack[t]) - 1
        /\ \A i \in DOMAIN stack'[t] :
             stack'[t][i] = IF i <= k THEN s[i] ELSE stack[t][i - k + 1]
    BY <1>1, <1>c, ContinueFrames, MethodsAlone
  <1>3. PICK n \in Nat : n = Len(stack[t]) /\ DOMAIN stack[t] = 1..n /\ n >= 1
    BY StackDomain, MethodsAlone
  <1>4. DOMAIN stack'[t] = 1..(n + 1)
    BY <1>k, <1>2, <1>3, LenProperties
  <1>5. 1 \in DOMAIN stack'[t] /\ k \in DOMAIN stack'[t]
    BY <1>k, <1>3, <1>4
  <1>6. stack'[t][1] = f /\ stack'[t][2] = g
    BY <1>k, <1>1, <1>2, <1>5
  <1>7. ASSUME NEW i \in DOMAIN stack'[t], i # 1, i # 2
        PROVE  i \in Nat /\ i >= 3 /\ i - 1 \in DOMAIN stack[t] /\ stack'[t][i] = stack[t][i - 1]
    <2>1. i \in Nat /\ i >= 3 /\ i - 1 \in DOMAIN stack[t] /\ ~(i <= k) /\ i - k + 1 = i - 1
      BY <1>k, <1>3, <1>4, <1>7
    <2> QED BY <1>2, <2>1
  <1> QED BY <1>6, <1>7

-----------------------------------------------------------------------------
(* Steps of a task that is not in the loop.                                *)

NoLoop(t) == \A i \in DOMAIN stack[t] : stack[t][i].do # "assignEach"

\* A task outside of the loop has nothing to show for it.
LEMMA OutOfLoop ==
  ASSUME NEW t \in Task
  PROVE  NoLoop(t) => InLoop(t)
  BY DEF NoLoop, InLoop, LoopFrame

\* The frames of the loop.
LEMMA LoopFrames ==
  ASSUME TypeOK, NEW t \in Task, NEW i \in DOMAIN stack[t], stack[t][i].do = "assignEach"
  PROVE  \E s \in Seq(Client) : stack[t][i] = LoopFrame(s)
  <1>1. stack[t][i] \in Frame
    BY DEF TypeOK
  <1> QED BY <1>1 DEF Frame, Calls, LoopFrame

\* What the loop is in the middle of is told by the frame on top.
LEMMA TopOfLoop ==
  ASSUME TypeOK, NEW t \in Task, Busy(t), InLoop(t)
  PROVE  \/ NoLoop(t)
         \/ Top(t).do \in {"assignEach", "tryAssign", "assign", "remove", "leave"}
  <1>1. stack[t][1] = Top(t)
    BY StackDomain, MethodsAlone
  <1> QED BY <1>1, LoopFrames DEF NoLoop, InLoop, Place, LoopFrame

\* The clients a task is to serve stay the same when a frame makes way for others.
LEMMA OwnKept ==
  ASSUME TypeOK, NEW t \in Task, Busy(t), ServesOwn(t), NEW s \in Seq(Frame), Continue(t, s),
         \A i \in DOMAIN s :
           /\ s[i].do # "remove"
           /\ s[i].do = "assign" => ClientOf[s[i].chat] = s[i].client
  PROVE  ServesOwn(t)'
  <1>1. /\ stack'[t] \in Seq(Frame)
        /\ Len(stack'[t]) = Len(s) + Len(stack[t]) - 1
        /\ \A i \in DOMAIN stack'[t] :
             stack'[t][i] = IF i <= Len(s) THEN s[i] ELSE stack[t][i - Len(s) + 1]
    BY ContinueFrames, MethodsAlone
  <1>2. PICK n \in Nat : n = Len(stack[t]) /\ DOMAIN stack[t] = 1..n
    BY StackDomain, MethodsAlone
  <1>3. PICK m \in Nat : m = Len(s) /\ DOMAIN s = 1..m
    BY LenProperties
  <1>4. DOMAIN stack'[t] = 1..(m + n - 1)
    BY <1>1, <1>2, <1>3, LenProperties
  <1>5. ASSUME NEW i \in DOMAIN stack'[t]
        PROVE  /\ stack'[t][i].do # "remove"
               /\ stack'[t][i].do = "assign" =>
                    ClientOf[stack'[t][i].chat] = stack'[t][i].client
    <2>1. CASE i <= m
      <3>1. i \in DOMAIN s /\ stack'[t][i] = s[i]
        BY <1>1, <1>3, <1>4, <2>1
      <3> QED BY <3>1
    <2>2. CASE ~(i <= m)
      <3>1. i - m + 1 \in DOMAIN stack[t] /\ i - m + 1 # 1
        BY <1>2, <1>4, <2>2
      <3>2. stack'[t][i] = stack[t][i - m + 1]
        BY <1>1, <1>3, <2>2
      <3>3. PICK j \in DOMAIN stack[t] : j # 1 /\ stack'[t][i] = stack[t][j]
        BY <3>1, <3>2
      <3> QED BY <3>3 DEF ServesOwn
    <2> QED BY <2>1, <2>2
  <1> QED BY <1>5 DEF ServesOwn

Quiet(f) == f.do \notin {"assignEach", "assign", "remove"}

\* A task outside of the loop that does nothing of it stays outside.
LEMMA QuietTurn ==
  ASSUME TypeOK, NEW t \in Task, Busy(t), NoLoop(t), ServesOwn(t),
         \/ Continue(t, <<>>)
         \/ \E f \in Frame : Quiet(f) /\ Continue(t, <<f>>)
         \/ \E f, g \in Frame : Quiet(f) /\ Quiet(g) /\ Continue(t, <<f, g>>)
  PROVE  InLoop(t)' /\ ServesOwn(t)'
  <1>0. NoLoop(t)' => InLoop(t)'
    BY DEF NoLoop, InLoop, LoopFrame
  <1>1. CASE Continue(t, <<>>)
    <2>1. <<>> \in Seq(Frame) /\ DOMAIN <<>> = {}
      BY EmptySeq
    <2>2. ServesOwn(t)'
      BY <1>1, <2>1, OwnKept
    <2>3. NoLoop(t)'
      BY <1>1, PopStack DEF NoLoop
    <2> QED BY <1>0, <2>2, <2>3
  <1>2. ASSUME NEW f \in Frame, Quiet(f), Continue(t, <<f>>)
        PROVE  InLoop(t)' /\ ServesOwn(t)'
    <2>1. <<f>> \in Seq(Frame) /\ \A i \in DOMAIN <<f>> : <<f>>[i] = f
      OBVIOUS
    <2>2. ServesOwn(t)'
      BY <1>2, <2>1, OwnKept DEF Quiet
    <2>3. NoLoop(t)'
      BY <1>2, PushOne DEF NoLoop, Quiet
    <2> QED BY <1>0, <2>2, <2>3
  <1>3. ASSUME NEW f \in Frame, NEW g \in Frame, Quiet(f), Quiet(g), Continue(t, <<f, g>>)
        PROVE  InLoop(t)' /\ ServesOwn(t)'
    <2>1. <<f, g>> \in Seq(Frame) /\ \A i \in DOMAIN <<f, g>> : <<f, g>>[i] \in {f, g}
      OBVIOUS
    <2>2. ServesOwn(t)'
      BY <1>3, <2>1, OwnKept DEF Quiet
    <2>3. NoLoop(t)'
      BY <1>3, PushTwo DEF NoLoop, Quiet
    <2> QED BY <1>0, <2>2, <2>3
  <1> QED BY <1>1, <1>2, <1>3

\* The methods that only call others of no concern to the loop, or none.
LEMMA QuietSteps ==
  ASSUME TypeOK, NEW t \in Task,
         \/ AddClientToQueue(t) \/ UpdateQueuePosition(t) \/ UpdateWaitTimes(t)
         \/ ReleaseOperatorFromChat(t) \/ TransferChat(t) \/ MoveChat(t)
         \/ RegisterOperator(t) \/ SetOperatorOnline(t) \/ SetOperatorOffline(t)
         \/ SetOperatorBusy(t) \/ VacateChats(t) \/ TransferChatToAvailableOperator(t)
  PROVE  /\ Busy(t)
         /\ Top(t).do \notin {"assignEach", "tryAssign", "assign", "remove", "leave"}
         /\ \/ Continue(t, <<>>)
            \/ \E f \in Frame : Quiet(f) /\ Continue(t, <<f>>)
            \/ \E f, g \in Frame : Quiet(f) /\ Quiet(g) /\ Continue(t, <<f, g>>)
  <1> USE DEF Runs, Scheduled
  <1> DEFINE f == Top(t)
             Goes == \/ Continue(t, <<>>)
                     \/ \E a \in Frame : Quiet(a) /\ Continue(t, <<a>>)
                     \/ \E a, b \in Frame : Quiet(a) /\ Quiet(b) /\ Continue(t, <<a, b>>)
  <1>0. Busy(t) /\ Top(t) \in Frame
        /\ Top(t).do \notin {"assignEach", "tryAssign", "assign", "remove", "leave"}
    BY TopType, MethodsAlone DEF Methods, AddClientToQueue,
       UpdateQueuePosition, UpdateWaitTimes, ReleaseOperatorFromChat, TransferChat, MoveChat,
       RegisterOperator, SetOperatorOnline, SetOperatorOffline, SetOperatorBusy, VacateChats,
       TransferChatToAvailableOperator
  <1>l. \A l \in Lock : LeaveFrame(l) \in Frame /\ Quiet(LeaveFrame(l))
    BY FramesMade DEF Quiet, LeaveFrame
  <1>q. "queue" \in Lock /\ "assignment" \in Lock
    BY SupportAssumption
  <1>1. CASE UpdateQueuePosition(t) \/ UpdateWaitTimes(t)
    <2>1. Continue(t, <<LeaveFrame("queue")>>)
      BY <1>1 DEF UpdateQueuePosition, UpdateWaitTimes
    <2> QED BY <1>0, <1>l, <1>q, <2>1
  <1>2. CASE AddClientToQueue(t)
    <2> DEFINE new == [do |-> "tryAssign", client |-> f.client]
    <2>1. new \in Frame /\ Quiet(new)
      BY <1>0, <1>2, FrameArguments, FramesMade DEF AddClientToQueue, Quiet
    <2>2. Continue(t, <<LeaveFrame("queue")>>) \/ Continue(t, <<new, LeaveFrame("queue")>>)
      BY <1>2 DEF AddClientToQueue
    <2> HIDE DEF new
    <2> QED BY <1>0, <1>l, <1>q, <2>1, <2>2
  <1>3. CASE MoveChat(t)
    <2>1. Continue(t, <<LeaveFrame("assignment")>>)
      BY <1>3 DEF MoveChat
    <2> QED BY <1>0, <1>l, <1>q, <2>1
  <1>4. CASE ReleaseOperatorFromChat(t)
    <2> DEFINE new == [do |-> "autoAssign"]
    <2>1. new \in Frame /\ Quiet(new)
      BY FramesMade DEF Quiet
    <2>2. Continue(t, <<LeaveFrame("assignment")>>)
            \/ Continue(t, <<new, LeaveFrame("assignment")>>)
      BY <1>4 DEF ReleaseOperatorFromChat
    <2> HIDE DEF new
    <2> QED BY <1>0, <1>l, <1>q, <2>1, <2>2
  <1>5. CASE TransferChat(t)
    <2> DEFINE new == [do |-> "move", chat |-> f.chat, operator |-> f.operator,
                       from |-> chat_assignments[f.chat]]
    <2>1. f.chat \in Chat /\ f.operator \in Operator
      BY <1>0, <1>5, FrameArguments DEF TransferChat
    <2>2. Quiet(new) /\ (chat_assignments[f.chat] # NoOperator => new \in Frame)
      <3>1. chat_assignments[f.chat] # NoOperator => chat_assignments[f.chat] \in Operator
        BY <2>1 DEF TypeOK
      <3> QED BY <2>1, <3>1, FramesMade DEF Quiet
    <2>3. \/ Continue(t, <<>>)
          \/ chat_assignments[f.chat] # NoOperator /\ Continue(t, <<new>>)
      BY <1>5 DEF TransferChat, Transferable
    <2> HIDE DEF new
    <2> QED BY <1>0, <2>2, <2>3
  <1>6. CASE RegisterOperator(t) \/ SetOperatorBusy(t)
    BY <1>0, <1>6 DEF RegisterOperator, SetOperatorBusy
  <1>7. CASE SetOperatorOnline(t)
    <2> DEFINE new == [do |-> "autoAssign"]
    <2>1. new \in Frame /\ Quiet(new)
      BY FramesMade DEF Quiet
    <2>2. Continue(t, <<new>>)
      BY <1>7 DEF SetOperatorOnline
    <2> HIDE DEF new
    <2> QED BY <1>0, <2>1, <2>2
  <1>8. CASE SetOperatorOffline(t)
    <2> DEFINE new == [do |-> "vacate", chats |-> operators[f.operator].current_chats]
    <2>1. f.operator \in Operator
      BY <1>0, <1>8, FrameArguments DEF SetOperatorOffline
    <2>2. operators[f.operator].current_chats \in SUBSET Chat
      BY <2>1 DEF TypeOK, OperatorStatus
    <2>3. new \in Frame /\ Quiet(new)
      BY <2>2, FramesMade DEF Quiet
    <2>4. Continue(t, <<>>) \/ Continue(t, <<new>>)
      BY <1>8 DEF SetOperatorOffline
    <2> HIDE DEF new
    <2> QED BY <1>0, <2>3, <2>4
  <1>9. CASE VacateChats(t)
    <2>1. f.chats \in SUBSET Chat
      BY <1>0, <1>9, FrameArguments DEF VacateChats
    <2>2. ASSUME NEW ch \in f.chats,
                 Continue(t, <<[do |-> "rehome", chat |-> ch],
                               [do |-> "vacate", chats |-> f.chats \ {ch}]>>)
          PROVE  Goes
      <3> DEFINE a == [do |-> "rehome", chat |-> ch]
                 b == [do |-> "vacate", chats |-> f.chats \ {ch}]
      <3>1. ch \in Chat /\ f.chats \ {ch} \in SUBSET Chat
        BY <2>1
      <3>2. a \in Frame /\ Quiet(a) /\ b \in Frame /\ Quiet(b)
        BY <3>1, FramesMade DEF Quiet
      <3>3. Continue(t, <<a, b>>)
        BY <2>2
      <3> HIDE DEF a, b
      <3> QED BY <3>2, <3>3
    <2>3. Goes
      BY <1>9, <2>2 DEF VacateChats
    <2> QED BY <1>0, <2>3
  <1>10. CASE TransferChatToAvailableOperator(t)
    <2>1. f.chat \in Chat
      BY <1>0, <1>10, FrameArguments DEF TransferChatToAvailableOperator
    <2>2. ASSUME NEW o \in LeastLoaded,
                 Continue(t, <<[do |-> "transfer", chat |-> f.chat, operator |-> o]>>)
          PROVE  Goes
      <3> DEFINE a == [do |-> "transfer", chat |-> f.chat, operator |-> o]
      <3>1. a \in Frame /\ Quiet(a)
        BY <2>1, FramesMade DEF LeastLoaded, AvailableSupport, Quiet
      <3>2. Continue(t, <<a>>)
        BY <2>2
      <3> HIDE DEF a
      <3> QED BY <3>1, <3>2
    <2>3. ASSUME Continue(t, <<[do |-> "release", chat |-> f.chat]>>)
          PROVE  Goes
      <3> DEFINE a == [do |-> "release", chat |-> f.chat]
      <3>1. a \in Frame /\ Quiet(a)
        BY <2>1, FramesMade DEF Quiet
      <3>2. Continue(t, <<a>>)
        BY <2>3
      <3> HIDE DEF a
      <3> QED BY <3>1, <3>2
    <2>4. Goes
      BY <1>10, <2>2, <2>3 DEF TransferChatToAvailableOperator
    <2> QED BY <1>0, <2>4
  <1> QED BY <1>1, <1>2, <1>3, <1>4, <1>5, <1>6, <1>7, <1>8, <1>9, <1>10

-----------------------------------------------------------------------------
(* Steps of the loop.                                                      *)

\* As long as neither the queue nor the operators change, who is to be served and by
\* whom stays the same.
LEMMA SameQueue ==
  ASSUME waiting_clients' = waiting_clients
  PROVE  /\ Waiting' = Waiting
         /\ \A c, s : AtClient(c, s)' <=> AtClient(c, s)
         /\ operators' = operators =>
              /\ AvailableSupport' = AvailableSupport
              /\ \A s : Remaining(s)' <=> Remaining(s)
  BY DEF Waiting, AtClient, Remaining, Ranked, Members, Before, AvailableSupport, CanAcceptChat,
     CanAccept

\* The first of those who remain, and the others.
LEMMA NextInLoop ==
  ASSUME NEW s \in Seq(Client), s # <<>>, Remaining(s)
  PROVE  /\ Head(s) \in Client /\ Tail(s) \in Seq(Client)
         /\ AvailableSupport = {} \/ AtClient(Head(s), Tail(s))
  <1>1. /\ Head(s) = s[1] /\ Head(s) \in Client
        /\ Tail(s) \in Seq(Client)
        /\ Len(Tail(s)) = Len(s) - 1
        /\ \A i \in 1..Len(Tail(s)) : Tail(s)[i] = s[i + 1]
    BY HeadTailProperties
  <1>2. PICK n \in Nat : n = Len(s) /\ n >= 1 /\ DOMAIN s = 1..n
    BY EmptySeq, LenProperties
  <1>3. DOMAIN Tail(s) = 1..(n - 1)
    BY <1>1, <1>2, LenProperties
  <1>4. \A i \in 1..(n - 1) : i + 1 \in 1..n /\ 1 < i + 1 /\ Tail(s)[i] = s[i + 1]
    BY <1>1, <1>2
  <1>5. 1 \in 1..n /\ \A i \in 1..n : i = 1 \/ (i - 1 \in 1..(n - 1) /\ (i - 1) + 1 = i)
    BY <1>2
  <1>6. Members(s) = {Head(s)} \cup Members(Tail(s))
    <2>1. Members(Tail(s)) \subseteq Members(s) /\ Head(s) \in Members(s)
      BY <1>1, <1>2, <1>3, <1>4, <1>5 DEF Members
    <2>2. ASSUME NEW i \in 1..n PROVE s[i] = Head(s) \/ s[i] \in Members(Tail(s))
      <3>1. i # 1 => i - 1 \in DOMAIN Tail(s) /\ Tail(s)[i - 1] = s[i]
        BY <1>3, <1>4, <1>5
      <3> QED BY <1>1, <3>1 DEF Members
    <2> QED BY <1>2, <2>1, <2>2 DEF Members
  <1>7. ASSUME Ranked(s)
        PROVE  Ranked(Tail(s)) /\ \A d \in Members(Tail(s)) : Before(Head(s), d)
    <2>1. \A i, j \in 1..n : i < j => Before(s[i], s[j])
      BY <1>2, <1>7 DEF Ranked
    <2>2. \A i \in 1..(n - 1) : Before(Head(s), Tail(s)[i])
      BY <1>1, <1>4, <1>5, <2>1
    <2>3. ASSUME NEW i \in 1..(n - 1), NEW j \in 1..(n - 1), i < j
          PROVE  Before(Tail(s)[i], Tail(s)[j])
      <3>1. i + 1 \in 1..n /\ j + 1 \in 1..n /\ i + 1 < j + 1
        BY <2>3, <1>4
      <3> QED BY <1>4, <2>1, <3>1
    <2> QED BY <1>3, <2>2, <2>3 DEF Ranked, Members
  <1> QED BY <1>1, <1>6, <1>7 DEF Remaining, AtClient

\* The loop starts, with everybody who waits.
LEMMA LoopStarts ==
  ASSUME TypeOK, QueueOK, NEW t \in Task, InLoop(t), ServesOwn(t), TryAutoAssignClients(t)
  PROVE  InLoop(t)' /\ ServesOwn(t)'
  <1>0. Busy(t) /\ Top(t).do = "autoAssign"
    BY DEF TryAutoAssignClients, Runs, Scheduled
  <1>1. PICK s \in SortedClients : Continue(t, <<LoopFrame(s)>>)
    BY DEF TryAutoAssignClients, LoopFrame
  <1>2. s \in Seq(Client) /\ LoopFrame(s) \in Frame
    BY SortedClientsType, FramesMade DEF LoopFrame
  <1>3. NoLoop(t)
    BY <1>0, TopOfLoop
  <1>4. Remaining(s)'
    <2>1. Remaining(s)
      BY SortedIsAll DEF Remaining
    <2> QED BY <2>1, SameQueue DEF TryAutoAssignClients, queueVars
  <1>5. InLoop(t)'
    <2> SUFFICES ASSUME NEW i \in DOMAIN stack'[t], NEW r \in Seq(Client),
                        stack'[t][i] = LoopFrame(r)
                 PROVE  Place(t, i, r)'
      BY DEF InLoop
    <2>1. i = 1
      BY <1>0, <1>1, <1>2, <1>3, PushOne DEF NoLoop, LoopFrame
    <2>2. r = s
      BY <1>0, <1>1, <1>2, <2>1, PushOne DEF LoopFrame
    <2> QED BY <1>4, <2>1, <2>2 DEF Place
  <1>6. ServesOwn(t)'
    <2> DEFINE q == <<LoopFrame(s)>>
    <2>1. q \in Seq(Frame) /\ \A i \in DOMAIN q : q[i] = LoopFrame(s)
      BY <1>2
    <2>2. Continue(t, q)
      BY <1>1
    <2>3. \A i \in DOMAIN q : q[i].do # "remove" /\ q[i].do # "assign"
      BY <2>1 DEF LoopFrame
    <2> HIDE DEF q
    <2> QED BY <1>0, <2>1, <2>2, <2>3, OwnKept
  <1> QED BY <1>5, <1>6

\* The loop is left, or comes to its next client.
LEMMA LoopTurns ==
  ASSUME TypeOK, NEW t \in Task, InLoop(t), ServesOwn(t), AssignEachClient(t)
  PROVE  InLoop(t)' /\ ServesOwn(t)'
  <1>0. Busy(t) /\ Top(t).do = "assignEach" /\ 1 \in DOMAIN stack[t] /\ stack[t][1] = Top(t)
    BY StackDomain, MethodsAlone DEF AssignEachClient, Runs, Scheduled
  <1>1. PICK s \in Seq(Client) : Top(t) = LoopFrame(s)
    BY <1>0, LoopFrames
  <1>2. \A i \in DOMAIN stack[t] : i # 1 => stack[t][i].do # "assignEach"
    BY <1>0, LoopFrames DEF InLoop, Place
  <1>3. Remaining(s)
    BY <1>0, <1>1, <1>2 DEF InLoop, Place, LoopFrame
  <1>4. Top(t).clients = s
    BY <1>1 DEF LoopFrame
  <1>5. CASE s = <<>>
    <2>1. Continue(t, <<>>)
      BY <1>4, <1>5 DEF AssignEachClient
    <2>2. NoLoop(t)'
      BY <1>0, <1>2, <2>1, PopStack DEF NoLoop
    <2>3. InLoop(t)'
      BY <2>2 DEF NoLoop, InLoop, LoopFrame
    <2>4. <<>> \in Seq(Frame) /\ DOMAIN <<>> = {}
      BY EmptySeq
    <2> QED BY <1>0, <2>1, <2>3, <2>4, OwnKept
  <1>6. CASE s # <<>>
    <2> DEFINE a == [do |-> "tryAssign", client |-> Head(s)]
               b == LoopFrame(Tail(s))
    <2>1. /\ Head(s) \in Client /\ Tail(s) \in Seq(Client)
          /\ AvailableSupport = {} \/ AtClient(Head(s), Tail(s))
      BY <1>3, <1>6, NextInLoop
    <2>2. /\ a \in Frame /\ a.do = "tryAssign" /\ a.client = Head(s)
          /\ b \in Frame /\ b.do = "assignEach"
      BY <2>1, FramesMade DEF LoopFrame
    <2>3. Continue(t, <<a, b>>)
      BY <1>4, <1>6 DEF AssignEachClient, LoopFrame
    <2>4. \A r : b = LoopFrame(r) => r = Tail(s)
      BY DEF LoopFrame
    <2> HIDE DEF a, b
    <2>5. /\ stack'[t][1] = a /\ stack'[t][2] = b
          /\ \A i \in DOMAIN stack'[t] :
               \/ i = 1 \/ i = 2
               \/ i \in Nat /\ i >= 3 /\ i - 1 \in DOMAIN stack[t] /\ stack'[t][i] = stack[t][i - 1]
      BY <1>0, <2>2, <2>3, PushTwo
    <2>6. InLoop(t)'
      <3> SUFFICES ASSUME NEW i \in DOMAIN stack'[t], NEW r \in Seq(Client),
                          stack'[t][i] = LoopFrame(r)
                   PROVE  Place(t, i, r)'
        BY DEF InLoop
      <3>0. stack'[t][i].do = "assignEach"
        BY DEF LoopFrame
      <3>1. i = 2
        <4>1. i # 1
          BY <2>2, <2>5, <3>0
        <4>2. ~(i \in Nat /\ i >= 3 /\ i - 1 \in DOMAIN stack[t] /\ stack'[t][i] = stack[t][i - 1])
          BY <1>2, <3>0
        <4> QED BY <2>5, <4>1, <4>2
      <3>2. r = Tail(s)
        BY <2>4, <2>5, <3>1
      <3>3. AvailableSupport' = {} \/ AtClient(Head(s), Tail(s))'
        <4>1. waiting_clients' = waiting_clients /\ operators' = operators
          BY DEF AssignEachClient, queueVars
        <4>2. \/ AvailableSupport' = {}
              \/ \E c, q : c = Head(s) /\ q = Tail(s) /\ AtClient(c, q)'
          BY <2>1, <4>1, SameQueue
        <4> QED BY <4>2
      <3> QED BY <2>2, <2>5, <3>1, <3>2, <3>3 DEF Place
    <2>7. ServesOwn(t)'
      <3> DEFINE q == <<a, b>>
      <3>1. q \in Seq(Frame) /\ \A i \in DOMAIN q : q[i] \in {a, b}
        BY <2>2
      <3>2. Continue(t, q)
        BY <2>3
      <3>3. \A i \in DOMAIN q : q[i].do # "remove" /\ q[i].do # "assign"
        BY <2>2, <3>1
      <3> HIDE DEF q
      <3> QED BY <1>0, <3>1, <3>2, <3>3, OwnKept
    <2> QED BY <2>6, <2>7
  <1> QED BY <1>5, <1>6

\* The client the loop is at gets nobody, or the operator who is to have him.
LEMMA LoopTries ==
  ASSUME TypeOK, QueueOK, NEW t \in Task, InLoop(t), ServesOwn(t), TryAssignOperatorToClient(t)
  PROVE  InLoop(t)' /\ ServesOwn(t)'
  <1>a. /\ Busy(t) /\ Top(t).do = "tryAssign" /\ stack[t][1] = Top(t)
        /\ Top(t) \in Frame /\ Top(t).client \in Client
    BY StackDomain, TopType, MethodsAlone, FrameArguments
      DEF Methods, TryAssignOperatorToClient, Runs, Scheduled
  <1>0. PICK c \in Client : c = Top(t).client
    BY <1>a
  <1>1. waiting_clients' = waiting_clients /\ operators' = operators
    BY DEF TryAssignOperatorToClient, queueVars
  <1>2. \A i \in DOMAIN stack[t], s \in Seq(Client) :
          stack[t][i] = LoopFrame(s) => i = 2 /\ (AvailableSupport = {} \/ AtClient(c, s))
    BY <1>a, <1>0 DEF InLoop, Place, LoopFrame
  <1>3. CASE (c \notin Waiting \/ AvailableSupport = {}) /\ Continue(t, <<>>)
    <2>1. InLoop(t)'
      <3> SUFFICES ASSUME NEW i \in DOMAIN stack'[t], NEW r \in Seq(Client),
                          stack'[t][i] = LoopFrame(r)
                   PROVE  Place(t, i, r)'
        BY DEF InLoop
      <3>1. i \in Nat /\ i + 1 \in DOMAIN stack[t] /\ stack[t][i + 1] = LoopFrame(r)
        BY <1>a, <1>0, <1>3, PopStack
      <3>2. i + 1 = 2 /\ (AvailableSupport = {} \/ AtClient(c, r))
        BY <1>2, <3>1
      <3>3. i = 1
        BY <3>1, <3>2
      <3>4. AvailableSupport = {}
        BY <1>3, <3>2 DEF AtClient
      <3> QED BY <1>1, <3>3, <3>4, SameQueue DEF Place, Remaining
    <2>2. <<>> \in Seq(Frame) /\ DOMAIN <<>> = {}
      BY EmptySeq
    <2> QED BY <1>a, <1>0, <1>3, <2>1, <2>2, OwnKept
  <1>4. ASSUME c \in Waiting, NEW o \in LeastLoaded,
               Continue(t, <<[do |-> "assign", chat |-> waiting_clients[c].chat,
                              operator |-> o, client |-> c]>>)
        PROVE  InLoop(t)' /\ ServesOwn(t)'
    <2>1. /\ o \in AvailableSupport /\ o \in Operator
          /\ waiting_clients[c].chat \in Chat
          /\ ClientOf[waiting_clients[c].chat] = c
      BY <1>a, <1>0, <1>4 DEF LeastLoaded, AvailableSupport, QueueOK, TypeOK, Waiting, QueuedClient
    <2>2. PICK a \in Frame : a = [do |-> "assign", chat |-> waiting_clients[c].chat,
                                   operator |-> o, client |-> c]
      BY <2>1, FramesMade
    <2>3. a.do = "assign" /\ a.client = c /\ a.operator = o /\ ClientOf[a.chat] = a.client
      BY <2>1, <2>2
    <2>4. Continue(t, <<a>>)
      BY <1>4, <2>2
    <2>5. /\ stack'[t][1] = a
          /\ \A i \in DOMAIN stack'[t] :
               \/ i = 1
               \/ i \in DOMAIN stack[t] /\ stack'[t][i] = stack[t][i]
      BY <1>a, <1>0, <2>2, <2>4, PushOne
    <2>6. InLoop(t)'
      <3> SUFFICES ASSUME NEW i \in DOMAIN stack'[t], NEW r \in Seq(Client),
                          stack'[t][i] = LoopFrame(r)
                   PROVE  Place(t, i, r)'
        BY DEF InLoop
      <3>1. i # 1
        BY <2>3, <2>5 DEF LoopFrame
      <3>2. i = 2 /\ AtClient(c, r)
        BY <1>2, <2>1, <2>5, <3>1
      <3>3. AtClient(a.client, r)'
        <4>1. AtClient(c, r)'
          BY <1>1, <3>2, SameQueue
        <4> QED BY <2>3, <4>1
      <3>4. a.operator \in AvailableSupport'
        BY <1>1, <2>1, <2>3, SameQueue
      <3> QED BY <2>3, <2>5, <3>2, <3>3, <3>4 DEF Place
    <2>7. ServesOwn(t)'
      <3> DEFINE q == <<a>>
      <3>1. q \in Seq(Frame) /\ \A i \in DOMAIN q : q[i] = a
        BY <2>2
      <3>2. Continue(t, q)
        BY <2>4
      <3>3. \A i \in DOMAIN q : q[i].do # "remove" /\ ClientOf[q[i].chat] = q[i].client
        BY <2>3, <3>1
      <3> HIDE DEF q
      <3> QED BY <1>a, <1>0, <3>1, <3>2, <3>3, OwnKept
    <2> QED BY <2>6, <2>7
  <1> QED BY <1>0, <1>3, <1>4 DEF TryAssignOperatorToClient

\* The operator the loop found for its client can still take him.
LEMMA LoopAssigns ==
  ASSUME TypeOK, NEW t \in Task, InLoop(t), ServesOwn(t), AssignChatToOperator(t)
  PROVE  InLoop(t)' /\ ServesOwn(t)'
  <1>1. /\ Busy(t) /\ Top(t).do = "assign" /\ stack[t][1] = Top(t) /\ 1 \in DOMAIN stack[t]
        /\ Top(t) \in Frame /\ Top(t).client \in Client /\ Top(t).chat \in Chat
        /\ Top(t).operator \in Operator
    BY StackDomain, TopType, MethodsAlone, FrameArguments
      DEF Methods, AssignChatToOperator, Runs, Scheduled
  <1>2. PICK f \in Frame : f = Top(t)
    BY <1>1
  <1>3. PICK l \in Frame : l = LeaveFrame("assignment") /\ l.do = "leave"
    BY FramesMade, SupportAssumption DEF LeaveFrame
  <1>4. \A i \in DOMAIN stack[t], s \in Seq(Client) :
          stack[t][i] = LoopFrame(s) =>
            i = 2 /\ AtClient(f.client, s) /\ f.operator \in AvailableSupport
    BY <1>1, <1>2 DEF InLoop, Place, LoopFrame
  <1>5. ClientOf[f.chat] = f.client
    BY <1>1, <1>2 DEF ServesOwn
  <1>6. CASE ~(Registered(f.operator) /\ CanAcceptChat(f.operator)) /\ Continue(t, <<l>>)
    <2>1. f.operator \notin AvailableSupport
      BY <1>6, SupportAssumption DEF AvailableSupport, Registered
    <2>2. NoLoop(t)
      BY <1>4, <2>1, LoopFrames DEF NoLoop
    <2>3. Quiet(l)
      BY <1>3 DEF Quiet
    <2> QED BY <1>1, <1>6, <2>2, <2>3, QuietTurn
  <1>7. CASE /\ Registered(f.operator) /\ CanAcceptChat(f.operator)
             /\ chat_assignments' = [chat_assignments EXCEPT ![f.chat] = f.operator]
             /\ Continue(t, <<[do |-> "remove", client |-> f.client], l>>)
    <2>1. PICK a \in Frame : /\ a = [do |-> "remove", client |-> f.client]
                             /\ a.do = "remove" /\ a.client = f.client
      BY <1>1, <1>2, FramesMade
    <2>2. Continue(t, <<a, l>>)
      BY <1>7, <2>1
    <2>3. /\ stack'[t][1] = a /\ stack'[t][2] = l
          /\ \A i \in DOMAIN stack'[t] :
               \/ i = 1 \/ i = 2
               \/ i \in Nat /\ i >= 3 /\ i - 1 \in DOMAIN stack[t] /\ stack'[t][i] = stack[t][i - 1]
      BY <1>1, <2>2, PushTwo
    <2>4. waiting_clients' = waiting_clients
      BY DEF AssignChatToOperator
    <2>5. InLoop(t)'
      <3> SUFFICES ASSUME NEW i \in DOMAIN stack'[t], NEW r \in Seq(Client),
                          stack'[t][i] = LoopFrame(r)
                   PROVE  Place(t, i, r)'
        BY DEF InLoop
      <3>1. i # 1 /\ i # 2
        BY <1>3, <2>1, <2>3 DEF LoopFrame
      <3>2. i \in Nat /\ i - 1 = 2 /\ AtClient(f.client, r)
        BY <1>4, <2>3, <3>1
      <3>3. i = 3
        BY <3>2
      <3>4. AtClient(f.client, r)'
        BY <2>4, <3>2, SameQueue
      <3>5. AtClient(a.client, r)'
        BY <2>1, <3>4
      <3> QED BY <1>3, <2>1, <2>3, <3>3, <3>5 DEF Place
    <2>6. ServesOwn(t)'
      <3>1. chat_assignments'[f.chat] = f.operator
        BY <1>1, <1>2, <1>7 DEF TypeOK
      <3>2. chat_assignments'[f.chat] # NoOperator
        BY <1>1, <1>2, <3>1, SupportAssumption
      <3>3. \A i \in DOMAIN stack'[t] : i # 1 =>
              /\ stack'[t][i].do # "remove"
              /\ stack'[t][i].do = "assign" => ClientOf[stack'[t][i].chat] = stack'[t][i].client
        <4> SUFFICES ASSUME NEW i \in DOMAIN stack'[t], i # 1, i # 2
                     PROVE  /\ stack'[t][i].do # "remove"
                            /\ stack'[t][i].do = "assign" =>
                                 ClientOf[stack'[t][i].chat] = stack'[t][i].client
          BY <1>3, <2>3
        <4>1. i \in Nat /\ i >= 3 /\ i - 1 \in DOMAIN stack[t] /\ stack'[t][i] = stack[t][i - 1]
          BY <2>3
        <4>2. PICK j \in DOMAIN stack[t] : j # 1 /\ stack'[t][i] = stack[t][j]
          BY <4>1
        <4> QED BY <4>2 DEF ServesOwn
      <3>4. stack'[t][1].do = "remove" /\ stack'[t][1].client = f.client
        BY <2>1, <2>3
      <3>5. \E ch \in Chat : ClientOf[ch] = f.client /\ chat_assignments'[ch] # NoOperator
        BY <1>1, <1>2, <1>5, <3>2
      <3> QED BY <3>3, <3>4, <3>5 DEF ServesOwn
    <2> QED BY <2>5, <2>6
  <1> QED BY <1>2, <1>3, <1>6, <1>7 DEF AssignChatToOperator

\* The client the loop is at has been served and leaves the queue.
LEMMA LoopRemoves ==
  ASSUME TypeOK, QueueOK, NEW t \in Task, InLoop(t), ServesOwn(t), RemoveClientFromQueue(t)
  PROVE  InLoop(t)' /\ ServesOwn(t)'
  <1>1. /\ Busy(t) /\ Top(t).do = "remove" /\ stack[t][1] = Top(t) /\ 1 \in DOMAIN stack[t]
        /\ Top(t) \in Frame /\ Top(t).client \in Client
    BY StackDomain, TopType, MethodsAlone, FrameArguments
      DEF Methods, RemoveClientFromQueue, Runs, Scheduled
  <1>2. PICK c \in Client : c = Top(t).client
    BY <1>1
  <1>3. PICK l \in Frame : l = LeaveFrame("queue") /\ l.do = "leave"
    BY FramesMade, SupportAssumption DEF LeaveFrame
  <1>4. Continue(t, <<l>>) /\ waiting_clients' = Without(c) /\ operators' = operators
    BY <1>2, <1>3 DEF RemoveClientFromQueue
  <1>5. /\ stack'[t][1] = l
        /\ \A i \in DOMAIN stack'[t] :
             \/ i = 1
             \/ i \in Nat /\ i >= 2 /\ i \in DOMAIN stack[t] /\ stack'[t][i] = stack[t][i]
    BY <1>1, <1>4, PushOne
  <1>6. \A i \in DOMAIN stack[t], s \in Seq(Client) :
          stack[t][i] = LoopFrame(s) => i = 3 /\ stack[t][2].do = "leave" /\ AtClient(c, s)
    BY <1>1, <1>2 DEF InLoop, Place, LoopFrame
  <1>7. /\ Waiting' = Waiting \ {c}
        /\ \A d \in Waiting' : /\ waiting_clients'[d].priority = waiting_clients[d].priority
                               /\ waiting_clients'[d].ahead = waiting_clients[d].ahead \ {c}
    BY <1>4, QueueWithout
  <1>8. \A d, e \in Waiting' : Before(d, e) => Before(d, e)'
    BY <1>7 DEF Before
  <1>9. ASSUME NEW r \in Seq(Client), AtClient(c, r)
        PROVE  Remaining(r)'
    <2>1. \A i \in DOMAIN r : r[i] \in Members(r)
      BY DEF Members
    <2>2. c \in Waiting /\ Members(r) \subseteq Waiting
      BY <1>9 DEF AtClient
    <2>3. c \notin Members(r)
      BY <1>9, <2>2, BeforeAsymmetric DEF AtClient
    <2>4. Waiting' = Members(r)
      BY <1>7, <1>9, <2>2, <2>3 DEF AtClient
    <2>5. ASSUME NEW i \in DOMAIN r, NEW j \in DOMAIN r, i < j
          PROVE  Before(r[i], r[j])'
      <3>1. Before(r[i], r[j])
        BY <1>9, <2>5 DEF AtClient, Ranked
      <3> QED BY <1>8, <2>1, <2>4, <3>1
    <2>6. Ranked(r)'
      BY <2>5 DEF Ranked
    <2>7. Members(r)' = Members(r)
      BY DEF Members
    <2> QED BY <2>4, <2>6, <2>7 DEF Remaining
  <1>10. InLoop(t)'
    <2> SUFFICES ASSUME NEW i \in DOMAIN stack'[t], NEW r \in Seq(Client),
                        stack'[t][i] = LoopFrame(r)
                 PROVE  Place(t, i, r)'
      BY DEF InLoop
    <2>1. i # 1
      BY <1>3, <1>5 DEF LoopFrame
    <2>2. i = 3 /\ stack[t][2].do = "leave" /\ AtClient(c, r)
      BY <1>5, <1>6, <2>1
    <2>3. stack'[t][2] = stack[t][2]
      <3>1. \A n \in Nat : 3 \in 1..n => 2 \in 1..n
        OBVIOUS
      <3>2. PICK n \in Nat : DOMAIN stack'[t] = 1..n
        <4> DEFINE q == <<l>>
        <4>1. q \in Seq(Frame) /\ Continue(t, q)
          BY <1>4
        <4> HIDE DEF q
        <4> QED BY <1>1, <4>1, ContinueFrames, MethodsAlone, LenProperties
      <3> QED BY <1>5, <2>2, <3>1, <3>2
    <2> QED BY <1>3, <1>5, <1>9, <2>2, <2>3 DEF Place
  <1>11. ServesOwn(t)'
    <2> DEFINE q == <<l>>
    <2>1. q \in Seq(Frame) /\ \A i \in DOMAIN q : q[i] = l
      OBVIOUS
    <2>2. Continue(t, q)
      BY <1>4
    <2>3. \A i \in DOMAIN q : q[i].do # "remove" /\ q[i].do # "assign"
      BY <1>3, <2>1
    <2> HIDE DEF q
    <2> QED BY <1>1, <2>1, <2>2, <2>3, OwnKept
  <1> QED BY <1>10, <1>11

\* A block ends, of the loop or not.
LEMMA LoopLeaves ==
  ASSUME TypeOK, NEW t \in Task, InLoop(t), ServesOwn(t), LeaveLock(t)
  PROVE  InLoop(t)' /\ ServesOwn(t)'
  <1>1. /\ Busy(t) /\ Top(t).do = "leave" /\ stack[t][1] = Top(t)
        /\ Continue(t, <<>>)
    BY StackDomain, MethodsAlone DEF LeaveLock, Leave, Scheduled, LeaveFrame
  <1>2. waiting_clients' = waiting_clients /\ operators' = operators
    BY DEF LeaveLock, queueVars
  <1>3. \A i \in DOMAIN stack[t], s \in Seq(Client) :
          stack[t][i] = LoopFrame(s) => /\ i = 2 \/ (i = 3 /\ stack[t][2].do = "leave")
                                        /\ Remaining(s)
    BY <1>1 DEF InLoop, Place, LoopFrame
  <1>4. InLoop(t)'
    <2> SUFFICES ASSUME NEW i \in DOMAIN stack'[t], NEW r \in Seq(Client),
                        stack'[t][i] = LoopFrame(r)
                 PROVE  Place(t, i, r)'
      BY DEF InLoop
    <2>1. i \in Nat /\ i >= 1 /\ i + 1 \in DOMAIN stack[t] /\ stack[t][i + 1] = LoopFrame(r)
      BY <1>1, PopStack
    <2>2. Remaining(r)'
      BY <1>2, <1>3, <2>1, SameQueue
    <2>3. CASE i + 1 = 2
      <3>1. i = 1
        BY <2>1, <2>3
      <3> QED BY <2>2, <3>1 DEF Place
    <2>4. CASE i + 1 = 3 /\ stack[t][2].do = "leave"
      <3>1. i = 2
        BY <2>1, <2>4
      <3>2. stack'[t][1] = stack[t][1 + 1] /\ 1 + 1 = 2
        <4>1. \A n \in Nat : 2 \in 1..n => 1 \in 1..n
          OBVIOUS
        <4>2. PICK n \in Nat : DOMAIN stack'[t] = 1..n
          BY <1>1, EmptySeq, ContinueFrames, MethodsAlone, LenProperties
        <4> QED BY <1>1, <3>1, <4>1, <4>2, PopStack
      <3> QED BY <2>2, <2>4, <3>1, <3>2 DEF Place
    <2> QED BY <1>3, <2>1, <2>3, <2>4
  <1>5. <<>> \in Seq(Frame) /\ DOMAIN <<>> = {}
    BY EmptySeq
  <1> QED BY <1>1, <1>4, <1>5, OwnKept

-----------------------------------------------------------------------------
(* The theorems about the turns.                                           *)

\* A call puts one frame on an idle task: no loop, and a client to withdraw, if any,
\* is withdrawn by it.
LEMMA CallTurns ==
  ASSUME TypeOK, NEW t \in Task, Call(t)
  PROVE  InLoop(t)' /\ ServesOwn(t)'
  <1>1. PICK f \in Calls : Start(t, f)
    BY DEF Call
  <1>2. stack'[t] = <<f>>
    BY <1>1 DEF Start, TypeOK
  <1>3. DOMAIN stack'[t] = {1} /\ stack'[t][1] = f /\ stack'[t] = <<stack'[t][1]>>
    BY <1>2
  <1>4. /\ f.do # "assignEach"
        /\ f.do = "assign" => ClientOf[f.chat] = f.client
    BY DEF Calls
  <1>5. InLoop(t)'
    BY <1>3, <1>4 DEF InLoop, LoopFrame
  <1>6. ServesOwn(t)'
    BY <1>3, <1>4 DEF ServesOwn
  <1> QED BY <1>5, <1>6

LEMMA StepTurns ==
  ASSUME TypeOK, QueueOK, NEW t \in Task, InLoop(t), ServesOwn(t), Step(t), ~WaitForLock(t)
  PROVE  InLoop(t)' /\ ServesOwn(t)'
  <1>1. CASE \/ AddClientToQueue(t) \/ UpdateQueuePosition(t) \/ UpdateWaitTimes(t)
             \/ ReleaseOperatorFromChat(t) \/ TransferChat(t) \/ MoveChat(t)
             \/ RegisterOperator(t) \/ SetOperatorOnline(t) \/ SetOperatorOffline(t)
             \/ SetOperatorBusy(t) \/ VacateChats(t) \/ TransferChatToAvailableOperator(t)
    <2>1. /\ Busy(t)
          /\ Top(t).do \notin {"assignEach", "tryAssign", "assign", "remove", "leave"}
          /\ \/ Continue(t, <<>>)
             \/ \E f \in Frame : Quiet(f) /\ Continue(t, <<f>>)
             \/ \E f, g \in Frame : Quiet(f) /\ Quiet(g) /\ Continue(t, <<f, g>>)
      BY <1>1, QuietSteps
    <2>2. NoLoop(t)
      BY <2>1, TopOfLoop
    <2> QED BY <2>1, <2>2, QuietTurn
  <1> QED BY <1>1, LoopStarts, LoopTurns, LoopTries, LoopAssigns, LoopRemoves, LoopLeaves
          DEF Step

LEMMA NextKeepsTurns ==
  ASSUME LockInv, QueueOK, TurnsOK, [Next]_vars
  PROVE  QueueOK' /\ TurnsOK'
  <1>0. TypeOK /\ LockDiscipline /\ WaitersStuck
    BY DEF LockInv
  <1>1. CASE UNCHANGED vars
    <2>1. /\ stack' = stack /\ running' = running
          /\ waiting_clients' = waiting_clients /\ operators' = operators
          /\ chat_assignments' = chat_assignments
      BY <1>1 DEF vars, asyncVars, queueVars
    <2>2. QueueOK'
      BY <2>1 DEF QueueOK, Waiting
    <2>3. \A t \in Task : InLoop(t) => InLoop(t)'
      BY <2>1, SameQueue DEF InLoop, Place
    <2>4. \A t \in Task : ServesOwn(t) => ServesOwn(t)'
      BY <2>1 DEF ServesOwn
    <2>5. \A t \in Task : Busy(t) => Busy(t)'
      BY <2>1 DEF Busy
    <2>6. TurnsOK'
      BY <2>1, <2>3, <2>4, <2>5 DEF TurnsOK
    <2> QED BY <2>2, <2>6
  <1>2. CASE Next
    <2>1. PICK t \in Task : Call(t) \/ Step(t)
      BY <1>2 DEF Next
    <2>2. QueueOK'
      BY <1>0, <2>1, QueueOKNext
    <2>3. CASE Call(t)
      <3>1. running' = t /\ Busy(t)'
        BY <1>0, <2>3 DEF Call, Start, TypeOK, Busy
      <3> QED BY <1>0, <2>2, <2>3, <3>1, CallTurns DEF TurnsOK
    <2>4. CASE WaitForLock(t)
      <3>1. running' = NoTask
        BY <2>4 DEF WaitForLock, Wait
      <3> QED BY <2>2, <3>1, TaskAssumption DEF TurnsOK
    <2>5. CASE Step(t) /\ ~WaitForLock(t)
      <3>1. LockStep(t)
        BY <1>0, <2>5, StepShape, MethodsAlone
      <3>2. running = t
        BY <1>0, <3>1, OnlyTheRunningSteps
      <3>3. InLoop(t)' /\ ServesOwn(t)'
        BY <1>0, <2>5, <3>2, StepTurns DEF TurnsOK
      <3>4. running' = NoTask \/ (running' = t /\ Busy(t)')
        <4>1. \E q : Continue(t, q)
          BY <3>1 DEF LockStep, Plain, TakesLock, LeaveBlock
        <4> QED BY <1>0, <4>1 DEF Continue, TypeOK, Busy
      <3> QED BY <2>2, <3>3, <3>4, TaskAssumption DEF TurnsOK
    <2> QED BY <2>1, <2>3, <2>4, <2>5
  <1> QED BY <1>1, <1>2

\* The queue is ranked, and a turn of the loop goes through it as it stands.
THEOREM TurnsInvariant == Spec => [](LockInv /\ QueueOK /\ TurnsOK)
  <1>1. Init => LockInv /\ QueueOK /\ TurnsOK
    <2>1. ASSUME Init PROVE QueueOK /\ TurnsOK
      <3>1. Waiting = {} /\ running = NoTask
        BY <2>1 DEF Init, AsyncInit, QueueInit, Waiting
      <3> QED BY <3>1, TaskAssumption DEF QueueOK, TurnsOK
    <2> QED BY <2>1, LocksInit
  <1>2. LockInv /\ QueueOK /\ TurnsOK /\ [Next]_vars => (LockInv /\ QueueOK /\ TurnsOK)'
    BY NextKeepsLocks, NextKeepsTurns
  <1> QED BY <1>1, <1>2, PTL DEF Spec

\* The loop of _try_auto_assign_clients serves nobody while somebody waits who should be
\* served earlier: the sorted copy it runs over is still the order of the queue.
THEOREM NobodyIsOvertaken == Spec => []NoOvertaking
  <1>1. ASSUME LockInv, QueueOK, TurnsOK
        PROVE  NoOvertaking
    <2> SUFFICES ASSUME NEW t \in Task, running = t, AutoAssigning(t), Top(t).do = "assign",
                        NEW d \in Waiting
                 PROVE  ~Before(d, Top(t).client)
      BY DEF NoOvertaking
    <2>0. TypeOK
      BY <1>1 DEF LockInv
    <2>1. PICK i \in DOMAIN stack[t] : stack[t][i].do = "assignEach"
      BY DEF AutoAssigning
    <2>2. PICK s \in Seq(Client) : stack[t][i] = LoopFrame(s)
      BY <2>0, <2>1, LoopFrames
    <2>3. stack[t][1] = Top(t)
      BY <2>0, <2>1, StackDomain, MethodsAlone
    <2>4. AtClient(Top(t).client, s)
      BY <1>1, <2>2, <2>3 DEF TurnsOK, InLoop, Place, LoopFrame
    <2>5. /\ Top(t).client \in Waiting
          /\ d = Top(t).client \/ (d \in Waiting /\ Before(Top(t).client, d))
      BY <2>4 DEF AtClient
    <2>6. CASE d = Top(t).client
      BY <1>1, <2>0, <2>5, <2>6, BeforeAsymmetric
    <2>7. CASE Before(Top(t).client, d)
      BY <1>1, <2>0, <2>5, <2>7, BeforeAsymmetric
    <2> QED BY <2>5, <2>6, <2>7
  <1> QED BY <1>1, TurnsInvariant, PTL

\* The loop of _try_auto_assign_clients ends with nobody waiting or no support operator
\* with room: it misses no match.
THEOREM LoopsAreExhaustive == Spec => []AutoAssignExhaustive
  <1>1. ASSUME LockInv, QueueOK, TurnsOK
        PROVE  AutoAssignExhaustive
    <2> SUFFICES ASSUME NEW t \in Task, running = t, Top(t).do = "assignEach",
                        Top(t).clients = <<>>
                 PROVE  Waiting = {} \/ AvailableSupport = {}
      BY DEF AutoAssignExhaustive
    <2>1. TypeOK /\ Busy(t) /\ InLoop(t)
      BY <1>1 DEF LockInv, TurnsOK
    <2>2. 1 \in DOMAIN stack[t] /\ stack[t][1] = Top(t)
      BY <2>1, StackDomain, MethodsAlone
    <2>3. PICK s \in Seq(Client) : stack[t][1] = LoopFrame(s)
      BY <2>1, <2>2, LoopFrames
    <2>a. s = <<>>
      BY <2>2, <2>3 DEF LoopFrame
    <2>b. Place(t, 1, s)
      BY <2>1, <2>2, <2>3 DEF InLoop
    <2>4. s = <<>> /\ Remaining(s)
      BY <2>2, <2>3, <2>a, <2>b DEF Place, LoopFrame
    <2>5. Members(s) = {}
      BY <2>4 DEF Members
    <2> QED BY <2>4, <2>5 DEF Remaining
  <1> QED BY <1>1, TurnsInvariant, PTL

\* A client leaves the queue only because he is withdrawn, or because a chat of his
\* has been given to an operator.
THEOREM LeaversAreServed == Spec => ServedOrWithdrawn
  <1>1. ASSUME LockInv, QueueOK, TurnsOK, [Next]_vars, NEW c \in Waiting, c \notin Waiting'
        PROVE  \/ \E ch \in Chat : ClientOf[ch] = c /\ chat_assignments[ch] # NoOperator
               \/ \E t \in Task : stack[t] = <<[do |-> "remove", client |-> c]>>
    <2>0. TypeOK /\ LockDiscipline /\ WaitersStuck
      BY <1>1 DEF LockInv
    <2>1. waiting_clients' # waiting_clients /\ c \in Client
      BY <1>1 DEF Waiting
    <2>2. PICK t \in Task : Call(t) \/ Step(t)
      BY <1>1, <2>1 DEF Next, vars, queueVars
    <2>3. RemoveClientFromQueue(t)
      <3>1. ASSUME AddClientToQueue(t) PROVE FALSE
        <4>1. Top(t) \in Frame /\ Top(t).client \in Client /\ Top(t).chat \in Chat
          BY <2>0, <3>1, TopType, MethodsAlone, FrameArguments
            DEF Methods, AddClientToQueue, Runs, Scheduled
        <4>2. [chat |-> Top(t).chat, priority |-> 0, ahead |-> Waiting] \in QueuedClient
          BY <4>1, SupportAssumption DEF QueuedClient, Waiting
        <4>3. waiting_clients'[c] # NotWaiting
          BY <1>1, <2>0, <2>1, <3>1, <4>2, NotWaitingAssumption
            DEF AddClientToQueue, TypeOK, Waiting
        <4> QED BY <1>1, <2>1, <4>3 DEF Waiting
      <3>2. ASSUME UpdateQueuePosition(t) PROVE FALSE
        <4>1. Top(t).client \in Client /\ Top(t).priority \in Priority
          BY <2>0, <3>2, TopType, MethodsAlone, FrameArguments
            DEF Methods, UpdateQueuePosition, Runs, Scheduled
        <4>2. waiting_clients[c] \in QueuedClient
          BY <1>1, <2>0, <2>1 DEF TypeOK, Waiting
        <4>3. [waiting_clients[c] EXCEPT !.priority = Top(t).priority] \in QueuedClient
          BY <4>1, <4>2 DEF QueuedClient
        <4>4. \/ waiting_clients'[c] = waiting_clients[c]
              \/ waiting_clients'[c] = [waiting_clients[c] EXCEPT !.priority = Top(t).priority]
          BY <2>0, <2>1, <3>2, <4>1 DEF UpdateQueuePosition, TypeOK
        <4> QED BY <1>1, <2>1, <4>2, <4>3, <4>4, NotWaitingAssumption DEF Waiting
      <3> QED BY <2>1, <2>2, <3>1, <3>2, WritersOfQueue
    <2>4. /\ Busy(t) /\ Top(t).do = "remove" /\ Top(t) \in Frame /\ Top(t).client \in Client
          /\ 1 \in DOMAIN stack[t] /\ stack[t][1] = Top(t)
      BY <2>0, <2>3, StackDomain, TopType, MethodsAlone, FrameArguments
        DEF Methods, RemoveClientFromQueue, Runs, Scheduled
    <2>5. Top(t).client = c
      <3>1. Waiting' = Waiting \ {Top(t).client}
        BY <2>0, <2>3, <2>4, QueueWithout DEF RemoveClientFromQueue
      <3> QED BY <1>1, <3>1
    <2>6. running = t
      <3>1. LockStep(t)
        BY <2>0, <2>3, EnterSteps, MethodsAlone DEF LockStep
      <3> QED BY <2>0, <3>1, OnlyTheRunningSteps
    <2>7. \/ stack[t] = <<stack[t][1]>>
          \/ \E ch \in Chat : ClientOf[ch] = c /\ chat_assignments[ch] # NoOperator
      BY <1>1, <2>4, <2>5, <2>6 DEF TurnsOK, ServesOwn
    <2>8. Top(t) = [do |-> "remove", client |-> c]
      BY <2>4, <2>5 DEF Frame, Calls
    <2> QED BY <2>4, <2>7, <2>8
  <1>2. LockInv /\ QueueOK /\ TurnsOK /\ [Next]_vars =>
          [\A c \in Waiting : c \in Waiting' \/
             \/ \E ch \in Chat : ClientOf[ch] = c /\ chat_assignments[ch] # NoOperator
             \/ \E t \in Task : stack[t] = <<[do |-> "remove", client |-> c]>>]_vars
    BY <1>1
  <1> QED BY <1>2, TurnsInvariant, PTL DEF Spec, ServedOrWithdrawn
================================================================================
