------------------------------ MODULE ChatEvents ------------------------------
(***************************************************************************)
(* The chat system with KAFKA_ENABLED on: the events the managers and the  *)
(* end points send (utils/kafka_producer.py), the topics they go through,  *)
(* and the handlers that are called for them (utils/kafka_consumer.py).    *)
(*                                                                         *)
(* Each topic has one consumer, a task that handles one event after the    *)
(* other; it is named for its topic.  Some handlers do what the sender of  *)
(* the event has done already, with a manager of their own, and so send    *)
(* the event again.  Others only tell the users who are connected: what    *)
(* they do is in WebSocketManager, and their events are not kept here.     *)
(***************************************************************************)
EXTENDS ChatAssignment

CONSTANTS Caller,        \* the tasks of requests and sessions
          MaxCalls,      \* bound of the calls from outside
          MaxLost        \* bound of the events that are refused

\* The topics something is sent to; nothing is ever sent to "support_queue".
Topic == {"chat_events", "operator_events", "chat_assignments", "admin_actions"}

ASSUME EventsAssumption ==
  /\ KafkaEnabled
  /\ Task = Caller \cup Topic /\ Caller \cap Topic = {}
  /\ MaxCalls \in Nat /\ MaxLost \in Nat

VARIABLES topics,    \* topics[topic]: the events not yet read
          calls,     \* the calls from outside so far
          lost       \* history: the events that were refused

kafkaVars == <<topics, calls, lost>>
eventsVars == <<allVars, kafkaVars>>

EventsInit ==
  /\ AssignmentInit
  /\ topics = [topic \in Topic |-> <<>>]
  /\ calls = 0 /\ lost = {}

TopicOf(e) ==
  CASE e.event \in {"chat_created", "chat_closed"} -> "chat_events"
    [] e.event \in {"operator_online", "operator_offline", "operator_accept_chat"}
         -> "operator_events"
    [] e.event = "lawyer_assigned" -> "chat_assignments"
    [] e.event = "force_transfer"  -> "admin_actions"

IsNotice(e) == e.event \in {"chat_assigned", "chat_transferred"}

\* The topics once event e has reached the broker.
Arrived(e) == IF IsNotice(e) THEN topics ELSE [topics EXCEPT ![TopicOf(e)] = Append(@, e)]

-----------------------------------------------------------------------------
(* Sending: _send_event.                                                   *)

\* The task waits for the broker.
AwaitBroker(t) ==
  /\ running = t
  /\ Top(t).do = "send"
  /\ running' = NoTask
  /\ UNCHANGED <<stack, holder, queueVars, assignmentVars, kafkaVars>>

\* The frame stays, with nothing more to send.
FaultySendEvent(t) ==
  LET f == Top(t) IN
  /\ running = NoTask
  /\ Runs(t, "send")
  /\ topics' = Arrived(Head(f.events))
  /\ stack' = [stack EXCEPT ![t] = <<[f EXCEPT !.events = Tail(@)]>> \o Tail(@)]
  /\ UNCHANGED <<running, holder, queueVars, assignmentVars, calls, lost>>

\* Sent, and sent again after an error.
RetriedSendEvent(t) ==
  LET f    == Top(t)
      rest == Tail(f.events)
  IN
  /\ running = NoTask
  /\ Runs(t, "send")
  /\ \/ /\ topics' = Arrived(Head(f.events))
        /\ stack' = [stack EXCEPT ![t] =
             (IF rest = <<>> THEN <<>> ELSE <<[f EXCEPT !.events = rest]>>) \o Tail(@)]
     \/ /\ topics' \in {topics, Arrived(Head(f.events))}
        /\ UNCHANGED stack
  /\ UNCHANGED <<running, holder, queueVars, assignmentVars, calls, lost>>

\* The event is in its topic, or an error is raised, which does not mean that
\* it is not.
SendEvent(t) ==
  LET f    == Top(t)
      e    == Head(f.events)
      rest == Tail(f.events)
  IN
  /\ running = NoTask
  /\ Runs(t, "send")
  /\ \/ /\ topics' = Arrived(e)
        /\ stack' = [stack EXCEPT ![t] =
             (IF rest = <<>> THEN <<>> ELSE <<[f EXCEPT !.events = rest]>>) \o Tail(@)]
        /\ UNCHANGED lost
     \/ /\ Cardinality(lost) < MaxLost
        /\ topics' \in {topics, Arrived(e)}
        /\ stack' = [stack EXCEPT ![t] = IF f.throws THEN f.undo ELSE f.undo \o Tail(@)]
        /\ lost' = lost \cup {e}
  /\ UNCHANGED <<running, holder, queueVars, assignmentVars, calls>>

-----------------------------------------------------------------------------
(* The handlers.                                                           *)

\* _consume_messages: an event is read once the one before it is handled.
ConsumeMessage(topic) ==
  /\ topics[topic] # <<>>
  /\ Start(topic, [do |-> "handle", event |-> Head(topics[topic])])
  /\ topics' = [topics EXCEPT ![topic] = Tail(@)]
  /\ UNCHANGED <<queueVars, assignmentVars, calls, lost>>

\* The handler of chat_closed only tells the users.
FaultyHandlerFrames(e) ==
  IF e.event = "operator_accept_chat"
  THEN <<[do |-> "managerAssign", manager |-> "events", chat |-> e.chat,
          operator |-> e.operator]>>
  ELSE <<Io>>

\* Io stands for a notice to the users who are connected.
LawyerFrames(e) ==
  <<Io, [do |-> "lawyerChat", client |-> e.client, lawyer |-> e.lawyer], Io>>

ForceFrames(e) ==
  <<[do |-> "managerTransfer", manager |-> "events", chat |-> e.chat,
     operator |-> e.operator, forced |-> TRUE]>>

HandlerFrames(e) ==
  CASE e.event = "chat_created" ->
         <<[do |-> "add", client |-> ClientOf[e.chat], chat |-> e.chat], Io>>
    [] e.event = "chat_closed" -> <<Io, [do |-> "managerRelease", chat |-> e.chat]>>
    [] e.event = "operator_online" ->
         <<[do |-> "goOnline", operator |-> e.operator, session |-> FALSE]>>
    [] e.event = "operator_offline" -> <<OfflineFrame(e.operator)>>
    [] e.event = "operator_accept_chat" ->
         <<[do |-> "managerAssign", manager |-> "events", chat |-> e.chat,
            operator |-> e.operator]>>
    [] e.event = "force_transfer"  -> ForceFrames(e)
    [] e.event = "lawyer_assigned" -> LawyerFrames(e)

Handle(t) ==
  /\ Runs(t, "handle")
  /\ Passes(t, HandlerFrames(Top(t).event))
  /\ UNCHANGED kafkaVars

\* create_lawyer_chat: unless the client has a chat with the lawyer.
CreateLawyerChatOnce(t) ==
  LET f == Top(t) IN
  /\ Runs(t, "lawyerChat")
  /\ lawyer_chats' \in (IF "ok" \in DbOutcome
                        THEN {[lawyer_chats EXCEPT ![f.client] = @ \cup {f.lawyer}]} ELSE {})
                       \cup (IF "error" \in DbOutcome THEN {lawyer_chats} ELSE {})
  /\ Continue(t, <<>>)
  /\ UNCHANGED <<holder, queueVars, returned, chat_operator, participants, closed, lawyers,
                 lawyer_assignments, kafkaVars>>

-----------------------------------------------------------------------------
(* The system.                                                             *)

\* A client without a chat connects, and one is made for him.
OpenChat(t) ==
  LET ch == Top(t).chat IN
  /\ Runs(t, "openChat")
  /\ Passes(t, Send(<<ChatEvent("chat_created", ch)>>,
                    IF OwnOperator[ClientOf[ch]] = NoOperator THEN <<>>
                    ELSE <<OfflineFrame(OwnOperator[ClientOf[ch]])>>, TRUE)
               \o <<[do |-> "connect", chat |-> ch]>>)
  /\ UNCHANGED kafkaVars

EventCalls == EntryCalls \cup [do : {"openChat"}, chat : Chat]

EnterCall(t) ==
  /\ calls < MaxCalls
  /\ calls' = calls + 1
  /\ \E f \in {g \in EventCalls : g.do \in Entries} : Start(t, f)
  /\ UNCHANGED <<queueVars, assignmentVars, topics, lost>>

EventStep(t) ==
  \/ AwaitBroker(t) \/ SendEvent(t) \/ Handle(t) \/ CreateLawyerChatOnce(t) \/ OpenChat(t)

TaskStep(t) ==
  \/ (QueueStep(t) \/ ManagerStep(t)) /\ UNCHANGED kafkaVars
  \/ EventStep(t)

EventsNext ==
  \/ \E t \in Caller : EnterCall(t)
  \/ \E topic \in Topic : ConsumeMessage(topic)
  \/ \E t \in Task : TaskStep(t)

EventsSpec == EventsInit /\ [][EventsNext]_eventsVars

\* The event loop, the locks and the topics are served in order, and the
\* database and the broker answer: a task that can go on again and again does.
\* Only of the callers and of the consumer of chat_events that much is asked.
EventsFairSpec ==
  /\ EventsSpec
  /\ \A t \in Caller \cup {"chat_events"} : SF_eventsVars(TaskStep(t))
  /\ \A t \in Topic \ {"chat_events"} : WF_eventsVars(TaskStep(t))
  /\ SF_eventsVars(ConsumeMessage("chat_events"))

-----------------------------------------------------------------------------
(* Properties.                                                             *)

EventsFrame ==
     AssignmentFrame
  \cup [do : {"openChat"}, chat : Chat]
  \cup [do : {"handle"}, event : Event]
  \cup [do : {"lawyerChat"}, client : Client, lawyer : Operator]

\* Every table holds what it can hold, every frame the arguments its code expects,
\* with something to send where something is sent, and every topic the events
\* that belong to it.
EventsTypeOK ==
  /\ StorageTypeOK
  /\ stack \in [Task -> Seq(EventsFrame)]
  /\ \A t \in Task : Busy(t) /\ Top(t).do = "send" => Top(t).events # <<>>
  /\ topics \in [Topic -> Seq(Event)]
  /\ \A topic \in Topic : \A i \in DOMAIN topics[topic] : TopicOf(topics[topic][i]) = topic
  /\ calls \in 0..MaxCalls
  /\ lost \subseteq Event

Handled == {Top(t).event : t \in {u \in Task : Busy(u) /\ Top(u).do = "handle"}}
Unread  == UNION {{topics[topic][i] : i \in DOMAIN topics[topic]} : topic \in Topic}

\* Whoever reads an event finds in the database what it says: a chat is closed,
\* a client has his lawyer and a chat with him, before anybody is told.
AnnouncedIsStored ==
  \A e \in Handled \cup Unread :
    /\ e.event = "chat_closed" => e.chat \in closed
    /\ e.event = "lawyer_assigned" =>
         e.lawyer \in lawyers[e.client] /\ e.lawyer \in lawyer_chats[e.client]

\* Handlers send again what they have read, for ever; they do not send more of
\* it, even if an event that was refused has arrived: no event that goes round
\* piles up beyond the calls that came from outside.
EventsDoNotMultiply ==
  \A topic \in Topic : \A e \in Event :
    Cardinality({i \in DOMAIN topics[topic] : topics[topic][i] = e}) <= calls

\* Once an end point is to tell that a chat is closed, the operator the chat
\* has is released ("Освобождаем оператора"), although the handlers beside that
\* of chat_closed never come to rest; unless the event is refused.
ClosedChatReleased ==
  \A ch \in Chat :
    (\E t \in Task : /\ Busy(t) /\ Top(t).do = "send"
                    /\ ChatEvent("chat_closed", ch) \in {Top(t).events[i] : i \in DOMAIN Top(t).events})
      ~> chat_assignments[ch] = NoOperator \/ ChatEvent("chat_closed", ch) \in lost
=============================================================================
