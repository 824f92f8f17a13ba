--------------------------- MODULE ChatEvents_proofs ---------------------------
(***************************************************************************)
(* What is proved of ChatEvents, for any sets of callers, clients, chats   *)
(* and operators and any number of calls and refused events: its types,    *)
(* that the database holds what the events say, and that no event that     *)
(* goes round piles up.                                                    *)
(*                                                                         *)
(* The argument.  An event is made in the step that stores what it says,   *)
(* or in a later one of the same method; from there it goes through a      *)
(* frame that sends it, a topic and a frame that handles it.  Chats are    *)
(* never opened again and lawyers are never taken away, so what it says    *)
(* stays true on the way.  What the tasks do besides is proved in          *)
(* ChatAssignment_proofs, for stacks with any frames beside its own.       *)
(*                                                                         *)
(* That events do not pile up is shown by counting, for each event, its    *)
(* places in its topic and the tasks that may still send it: every call    *)
(* makes such a task, and every other step but trades the one for the      *)
(* other.  A task counts once, so the invariant has to say that its stack  *)
(* sends nothing twice (AllOnce): no frame sends what one below it sends,  *)
(* and what undoes a call is sent only in place of the rest of it.         *)
(***************************************************************************)
EXTENDS ChatEvents, ChatAssignment_proofs

\* The events a consumer may read: no mere notice, and what it says is stored.
Readable(e, cl, la, lc) == ~IsNotice(e) /\ StoredEvent(e, cl, la, lc)

ReadableTopics ==
  \A topic \in Topic : \A i \in DOMAIN topics[topic] :
    /\ TopicOf(topics[topic][i]) = topic
    /\ Readable(topics[topic][i], closed, lawyers, lawyer_chats)

ReadableHandled ==
  \A t \in Task : \A i \in DOMAIN stack[t] :
    stack[t][i].do = "handle" => Readable(stack[t][i].event, closed, lawyers, lawyer_chats)

KafkaTypeOK ==
  /\ topics \in [Topic -> Seq(Event)]
  /\ calls \in 0..MaxCalls
  /\ lost \subseteq Event

EventsInv == StorageInv(EventsFrame) /\ KafkaTypeOK /\ ReadableTopics /\ ReadableHandled

-----------------------------------------------------------------------------
(* Frames and events.                                                      *)

LEMMA EventsHosts == HostSet(EventsFrame)
  <1>1. AssignmentFrame \subseteq EventsFrame /\ Frame \subseteq EventsFrame
    BY DEF EventsFrame, AssignmentFrame
  <1>2. \A f \in EventsFrame : f \in AssignmentFrame \/ f.do \in {"openChat", "handle", "lawyerChat"}
    BY DEF EventsFrame
  <1>3. \A f \in EventsFrame : f.do \in Methods \cup ManagerMethods => f \in AssignmentFrame
    BY <1>2 DEF Methods, ManagerMethods
  <1> QED BY <1>1, <1>3, AssignmentHosts DEF HostSet, FrameSet

\* The arguments of the frames that are not ChatAssignment's.
LEMMA EventsArguments ==
  ASSUME NEW f \in EventsFrame
  PROVE  /\ f.do = "openChat" => f.chat \in Chat
         /\ f.do = "handle" => f.event \in Event
         /\ f.do = "lawyerChat" => f.client \in Client /\ f.lawyer \in Operator
         /\ f.do = "send" => f \in SendFrame
  <1>1. CASE f \in AssignmentFrame
    <2>1. f \in Frame \/ f \in SendFrame \/ f \in EntryCalls \/ f \notin Frame \cup SendFrame \cup EntryCalls
      OBVIOUS
    <2>2. f.do \notin {"openChat", "handle", "lawyerChat"}
      <3>1. f \in Frame => f.do \notin {"openChat", "handle", "lawyerChat"}
        BY OnlyMethods DEF Methods
      <3>2. f \in EntryCalls => f.do \notin {"openChat", "handle", "lawyerChat"}
        BY DEF EntryCalls, PriorityCalls, RemovalCalls
      <3>3. f \in SendFrame => f.do \notin {"openChat", "handle", "lawyerChat"}
        BY DEF SendFrame
      <3>4. f \notin Frame \cup SendFrame \cup EntryCalls =>
              f.do \notin {"openChat", "handle", "lawyerChat"}
        BY <1>1 DEF AssignmentFrame, Io
      <3> QED BY <3>1, <3>2, <3>3, <3>4
    <2> QED BY <1>1, <2>2, HostArguments
  <1>2. CASE f \notin AssignmentFrame
    BY <1>2 DEF EventsFrame
  <1> QED BY <1>1, <1>2

LEMMA NoHandlers == \A f \in AssignmentFrame : f.do # "handle"
  <1>1. \A f \in Frame : f.do # "handle"
    BY OnlyMethods DEF Methods
  <1>2. \A f \in EntryCalls \cup SendFrame : f.do # "handle"
    BY DEF EntryCalls, PriorityCalls, RemovalCalls, SendFrame
  <1>3. \A f \in AssignmentFrame \ (Frame \cup EntryCalls \cup SendFrame) : f.do # "handle"
    BY DEF AssignmentFrame, Io
  <1> QED BY <1>1, <1>2, <1>3

\* The topic an event belongs to.
LEMMA EventTopic ==
  ASSUME NEW e \in Event, ~IsNotice(e)
  PROVE  /\ e.event \in {"chat_created", "chat_closed", "operator_online", "operator_offline",
                         "operator_accept_chat", "force_transfer", "lawyer_assigned"}
         /\ TopicOf(e) \in Topic
  <1>1. e.event \in {"chat_created", "chat_closed", "operator_online", "operator_offline",
                     "operator_accept_chat", "force_transfer", "lawyer_assigned"}
    BY DEF Event, IsNotice
  <1> QED BY <1>1 DEF TopicOf, Topic

\* The arguments of an event.
LEMMA EventArguments ==
  ASSUME NEW e \in Event
  PROVE  /\ e.event \in {"chat_created", "chat_closed", "operator_accept_chat", "force_transfer"}
              => e.chat \in Chat
         /\ e.event \in {"operator_online", "operator_offline", "operator_accept_chat",
                         "force_transfer"} => e.operator \in Operator
         /\ e.event = "lawyer_assigned" => e.client \in Client /\ e.lawyer \in Operator
  BY DEF Event

LEMMA ReadableStays ==
  ASSUME NEW e \in Event, Grows, Readable(e, closed, lawyers, lawyer_chats)
  PROVE  Readable(e, closed', lawyers', lawyer_chats')
  BY StoredStays DEF Readable

\* An event that arrives can be read.
LEMMA ArrivedReadable ==
  ASSUME KafkaTypeOK, ReadableTopics, NEW e \in Event,
         StoredEvent(e, closed, lawyers, lawyer_chats)
  PROVE  /\ Arrived(e) \in [Topic -> Seq(Event)]
         /\ \A topic \in Topic : \A i \in DOMAIN Arrived(e)[topic] :
              /\ TopicOf(Arrived(e)[topic][i]) = topic
              /\ Readable(Arrived(e)[topic][i], closed, lawyers, lawyer_chats)
  <1>1. CASE IsNotice(e)
    BY <1>1 DEF Arrived, KafkaTypeOK, ReadableTopics
  <1>2. CASE ~IsNotice(e)
    <2> DEFINE p == TopicOf(e)
               q == Append(topics[p], e)
    <2>1. p \in Topic
      BY <1>2, EventTopic
    <2>2. topics[p] \in Seq(Event) /\ topics \in [Topic -> Seq(Event)]
      BY <2>1 DEF KafkaTypeOK
    <2>3. /\ q \in Seq(Event) /\ DOMAIN q = 1..Len(topics[p]) + 1
          /\ DOMAIN topics[p] = 1..Len(topics[p]) /\ Len(topics[p]) \in Nat
          /\ \A i \in 1..Len(topics[p]) : q[i] = topics[p][i]
          /\ q[Len(topics[p]) + 1] = e
      BY <2>2, AppendProperties, LenProperties
    <2>4. Arrived(e) = [topics EXCEPT ![p] = q]
      BY <1>2 DEF Arrived
    <2>5. \A i \in DOMAIN q : q[i] = e \/ \E j \in DOMAIN topics[p] : q[i] = topics[p][j]
      <3> HIDE DEF q
      <3>1. \A i \in 1..Len(topics[p]) + 1 : i \in 1..Len(topics[p]) \/ i = Len(topics[p]) + 1
        BY <2>3
      <3> QED BY <2>3, <3>1
    <2>6. Readable(e, closed, lawyers, lawyer_chats) /\ TopicOf(e) = p
      BY <1>2 DEF Readable
    <2> HIDE DEF p, q
    <2>7. \A i \in DOMAIN q : TopicOf(q[i]) = p /\ Readable(q[i], closed, lawyers, lawyer_chats)
      BY <2>1, <2>5, <2>6 DEF ReadableTopics
    <2>8. /\ Arrived(e) \in [Topic -> Seq(Event)]
          /\ Arrived(e)[p] = q
          /\ \A topic \in Topic \ {p} : Arrived(e)[topic] = topics[topic]
      BY <2>1, <2>2, <2>3, <2>4
    <2> QED BY <2>7, <2>8 DEF ReadableTopics
  <1> QED BY <1>1, <1>2

-----------------------------------------------------------------------------
(* One step.                                                               *)

\* What the topics and the frames of the consumers hold stays readable, if the
\* step touches neither topics nor those frames.
LEMMA TopicsKept ==
  ASSUME EventsInv, Grows, UNCHANGED topics
  PROVE  ReadableTopics'
  <1>1. \A topic \in Topic : \A i \in DOMAIN topics[topic] : topics[topic][i] \in Event
    BY DEF EventsInv, KafkaTypeOK
  <1> QED BY <1>1, ReadableStays DEF EventsInv, ReadableTopics, Readable

\* Frames of G take the place of the one on top, and none of them handles an
\* event.
LEMMA HandledKept ==
  ASSUME EventsInv, Grows, NEW G \in SUBSET EventsFrame, \A f \in G : f.do # "handle",
         NEW t \in Task, StackStep(G, t)
  PROVE  ReadableHandled'
  <1>0. HostSet(EventsFrame) /\ FrameSet(EventsFrame) /\ TypedIn(EventsFrame)
    BY EventsHosts DEF HostSet, EventsInv, StorageInv
  <1>1. ASSUME NEW u \in Task, NEW i \in DOMAIN stack[u], stack[u][i].do = "handle"
        PROVE  Readable(stack[u][i].event, closed', lawyers', lawyer_chats')
    <2>1. stack[u][i].event \in Event
      BY <1>0, <1>1, EventsArguments DEF TypedIn
    <2> QED BY <1>1, <2>1, ReadableStays DEF EventsInv, ReadableHandled
  <1>2. CASE UNCHANGED stack
    BY <1>1, <1>2 DEF ReadableHandled
  <1>3. CASE \E s \in Seq(G) : Replaces(t, s)
    <2>1. PICK s \in Seq(G) : Replaces(t, s)
      BY <1>3
    <2>2. s \in Seq(EventsFrame) /\ Busy(t)
      BY <2>1, LargerSet DEF StackStep
    <2>3. /\ \A u \in Task \ {t} : stack'[u] = stack[u]
          /\ stack'[t] \in Seq(EventsFrame)
          /\ Len(stack'[t]) = Len(s) + Len(stack[t]) - 1
          /\ \A i \in DOMAIN stack'[t] :
               stack'[t][i] = IF i <= Len(s) THEN s[i] ELSE stack[t][i - Len(s) + 1]
      BY <1>0, <2>1, <2>2, ReplacedFrames
    <2>4. /\ DOMAIN stack'[t] = 1..Len(stack'[t]) /\ DOMAIN s = 1..Len(s) /\ Len(s) \in Nat
          /\ DOMAIN stack[t] = 1..Len(stack[t]) /\ Len(stack[t]) \in Nat
          /\ \A i \in DOMAIN s : s[i] \in G
      BY <1>0, <2>1, <2>3, StackDomain, LenProperties
    <2>5. ASSUME NEW i \in DOMAIN stack'[t], stack'[t][i].do = "handle"
          PROVE  Readable(stack'[t][i].event, closed', lawyers', lawyer_chats')
      <3>1. CASE i <= Len(s)
        BY <2>3, <2>4, <2>5, <3>1
      <3>2. CASE ~(i <= Len(s))
        <4>1. i - Len(s) + 1 \in DOMAIN stack[t] /\ stack'[t][i] = stack[t][i - Len(s) + 1]
          BY <2>3, <2>4, <2>5, <3>2
        <4> QED BY <1>1, <2>5, <4>1
      <3> QED BY <3>1, <3>2
    <2> QED BY <1>1, <2>3, <2>5 DEF ReadableHandled
  <1> QED BY <1>2, <1>3 DEF StackStep

\* The frames of one stack are others, none of which handles an event.
LEMMA StackReset ==
  ASSUME EventsInv, NEW t \in Task, NEW s \in Seq(EventsFrame),
         stack' = [stack EXCEPT ![t] = s], UNCHANGED <<running, holder, queueVars, assignmentVars>>,
         \A i \in DOMAIN s : s[i].do \notin {"handle", "storeLawyer", "send"}
  PROVE  StorageInv(EventsFrame)' /\ ReadableHandled'
  <1>1. /\ stack' \in [Task -> Seq(EventsFrame)]
        /\ stack'[t] = s /\ \A u \in Task \ {t} : stack'[u] = stack[u]
    BY DEF EventsInv, StorageInv, TypedIn
  <1>2. TypedIn(EventsFrame)'
    BY <1>1 DEF EventsInv, StorageInv, TypedIn, queueVars
  <1>3. AllGrounded'
    BY <1>1 DEF EventsInv, StorageInv, AllGrounded, Grounded, assignmentVars, storageVars
  <1>4. ReadableHandled'
    BY <1>1 DEF EventsInv, ReadableHandled, assignmentVars, storageVars
  <1> QED BY <1>2, <1>3, <1>4 DEF EventsInv, StorageInv, StorageTypeOK, LawyersStored,
       assignmentVars, storageVars

\* A step of a task that makes calls of G, where the tables only grow.
LEMMA CallsKeepEvents ==
  ASSUME EventsInv, NEW G \in SUBSET EventsFrame, \A f \in G : f.do # "handle",
         NEW t \in Task, StackStep(G, t), Grows, StorageTypeOK', LawyersStored',
         running' \in Task \cup {NoTask}, UNCHANGED <<holder, queueVars>>
  PROVE  StorageInv(EventsFrame)' /\ ReadableHandled'
  <1>0. HostSet(EventsFrame) /\ FrameSet(EventsFrame) /\ TypedIn(EventsFrame) /\ AllGrounded
    BY EventsHosts DEF HostSet, EventsInv, StorageInv
  <1>1. stack' \in [Task -> Seq(EventsFrame)]
    <2>1. CASE UNCHANGED stack
      BY <1>0, <2>1 DEF TypedIn
    <2>2. CASE \E s \in Seq(G) : Replaces(t, s)
      <3>1. PICK s \in Seq(G) : Replaces(t, s)
        BY <2>2
      <3>2. s \in Seq(EventsFrame) /\ Busy(t)
        BY <3>1, LargerSet DEF StackStep
      <3>3. s \o Tail(stack[t]) \in Seq(EventsFrame)
        BY <1>0, <3>2, HeadTailProperties, ConcatProperties DEF TypedIn, Busy
      <3> QED BY <1>0, <3>1, <3>3 DEF TypedIn, Replaces
    <2> QED BY <2>1, <2>2 DEF StackStep
  <1>2. TypedIn(EventsFrame)'
    BY <1>0, <1>1 DEF TypedIn, queueVars
  <1>3. AllGrounded'
    BY <1>0, StackStepGrounded
  <1> QED BY <1>2, <1>3, HandledKept DEF StorageInv

\* An event is read, and its handler started.
LEMMA ConsumeKeeps ==
  ASSUME EventsInv, NEW topic \in Topic, ConsumeMessage(topic)
  PROVE  EventsInv'
  <1> DEFINE e == Head(topics[topic])
             f == [do |-> "handle", event |-> e]
             rest == Tail(topics[topic])
  <1>1. /\ topics[topic] \in Seq(Event) /\ topics[topic] # <<>>
        /\ e \in Event /\ Readable(e, closed, lawyers, lawyer_chats)
        /\ rest \in Seq(Event) /\ DOMAIN rest = 1..Len(topics[topic]) - 1
        /\ \A i \in DOMAIN rest : i + 1 \in DOMAIN topics[topic] /\ rest[i] = topics[topic][i + 1]
    <2>1. topics[topic] \in Seq(Event) /\ topics[topic] # <<>>
      BY DEF EventsInv, KafkaTypeOK, ConsumeMessage
    <2>2. PICK n \in Nat : n = Len(topics[topic]) /\ DOMAIN topics[topic] = 1..n /\ n # 0
      BY <2>1, LenProperties, EmptySeq
    <2>3. /\ e = topics[topic][1] /\ 1 \in 1..n
          /\ rest \in Seq(Event) /\ Len(rest) = n - 1
          /\ \A i \in 1..(n - 1) : rest[i] = topics[topic][i + 1]
      BY <2>1, <2>2, HeadTailProperties
    <2>4. DOMAIN rest = 1..(n - 1) /\ \A i \in 1..(n - 1) : i + 1 \in 1..n
      BY <2>2, <2>3, LenProperties
    <2>5. e \in Event /\ Readable(e, closed, lawyers, lawyer_chats)
      BY <2>1, <2>2, <2>3 DEF EventsInv, ReadableTopics
    <2> HIDE DEF rest, e
    <2> QED BY <2>1, <2>2, <2>3, <2>4, <2>5
  <1>2. /\ Start(topic, f) /\ topics' = [topics EXCEPT ![topic] = rest]
        /\ UNCHANGED <<queueVars, assignmentVars, calls, lost>>
    BY DEF ConsumeMessage
  <1> HIDE DEF rest, e
  <1>3. topic \in Task
    BY EventsAssumption
  <1>4. f \in EventsFrame /\ f.do \notin {"storeLawyer", "send"}
    BY <1>1 DEF EventsFrame
  <1>5. StorageInv(EventsFrame)'
    BY <1>2, <1>3, <1>4, StartKeepsStorage DEF EventsInv
  <1>6. /\ KafkaTypeOK'
        /\ topics'[topic] = rest /\ \A q \in Topic \ {topic} : topics'[q] = topics[q]
    BY <1>1, <1>2 DEF EventsInv, KafkaTypeOK
  <1>7. ReadableTopics'
    BY <1>1, <1>2, <1>6 DEF EventsInv, ReadableTopics, assignmentVars, storageVars
  <1>8. ReadableHandled'
    <2>1. stack'[topic] = <<f>> /\ \A u \in Task \ {topic} : stack'[u] = stack[u]
      BY <1>2, <1>3 DEF Start, EventsInv, StorageInv, TypedIn
    <2> QED BY <1>1, <1>2, <2>1 DEF EventsInv, ReadableHandled, assignmentVars, storageVars
  <1> QED BY <1>5, <1>6, <1>7, <1>8 DEF EventsInv

LEMMA EnterKeeps ==
  ASSUME EventsInv, NEW t \in Caller, EnterCall(t)
  PROVE  EventsInv'
  <1>1. PICK f \in EventCalls : Start(t, f)
    BY DEF EnterCall
  <1>2. t \in Task
    BY EventsAssumption
  <1>3. f \in EventsFrame /\ f.do \notin {"storeLawyer", "send", "handle"}
    BY DEF EventCalls, EventsFrame, AssignmentFrame, EntryCalls, PriorityCalls, RemovalCalls
  <1>4. UNCHANGED <<queueVars, assignmentVars, topics, lost>> /\ calls < MaxCalls /\ calls' = calls + 1
    BY DEF EnterCall
  <1>5. StorageInv(EventsFrame)'
    BY <1>1, <1>2, <1>3, <1>4, StartKeepsStorage DEF EventsInv
  <1>6. KafkaTypeOK' /\ ReadableTopics'
    BY <1>4, EventsAssumption DEF EventsInv, KafkaTypeOK, ReadableTopics, assignmentVars, storageVars
  <1>7. ReadableHandled'
    <2>1. stack'[t] = <<f>> /\ \A u \in Task \ {t} : stack'[u] = stack[u]
      BY <1>1, <1>2 DEF Start, EventsInv, StorageInv, TypedIn
    <2> QED BY <1>3, <1>4, <2>1 DEF EventsInv, ReadableHandled, assignmentVars, storageVars
  <1> QED BY <1>5, <1>6, <1>7 DEF EventsInv

\* An event is sent, or refused, on the way or once it has arrived.
LEMMA SendKeeps ==
  ASSUME EventsInv, NEW t \in Task, SendEvent(t)
  PROVE  EventsInv'
  <1> DEFINE f == Top(t)
             e == Head(f.events)
             rest == Tail(f.events)
             g == [f EXCEPT !.events = rest]
  <1>0. /\ HostSet(EventsFrame) /\ FrameSet(EventsFrame) /\ TypedIn(EventsFrame)
        /\ AllGrounded /\ Busy(t) /\ f.do = "send"
        /\ UNCHANGED <<running, holder, queueVars, assignmentVars, calls>>
    BY EventsHosts DEF HostSet, EventsInv, StorageInv, SendEvent, Runs, Scheduled
  <1>1. f \in SendFrame /\ Grounded(f, closed, lawyers, lawyer_chats)
    BY <1>0, TopType, StackDomain, EventsArguments DEF AllGrounded
  <1>2. /\ f.events \in Seq(Event) /\ f.events # <<>>
        /\ f.undo \in {<<>>} \cup {<<RollbackFrame(ch)>> : ch \in Chat}
                             \cup {<<OfflineFrame(o)>> : o \in Operator}
        /\ \A i \in DOMAIN f.events : StoredEvent(f.events[i], closed, lawyers, lawyer_chats)
    BY <1>0, <1>1 DEF Grounded, SendFrame
  <1>3. /\ e \in Event /\ StoredEvent(e, closed, lawyers, lawyer_chats)
        /\ rest \in Seq(Event)
        /\ \A i \in DOMAIN rest : StoredEvent(rest[i], closed, lawyers, lawyer_chats)
    <2>1. PICK n \in Nat : n = Len(f.events) /\ DOMAIN f.events = 1..n /\ n # 0
      BY <1>2, LenProperties, EmptySeq
    <2>2. /\ e = f.events[1] /\ 1 \in 1..n
          /\ rest \in Seq(Event) /\ Len(rest) = n - 1
          /\ \A i \in 1..(n - 1) : rest[i] = f.events[i + 1]
      BY <1>2, <2>1, HeadTailProperties
    <2>3. DOMAIN rest = 1..(n - 1) /\ \A i \in 1..(n - 1) : i + 1 \in 1..n
      BY <2>1, <2>2, LenProperties
    <2>4. f.events[1] \in Event
      BY <1>2, <2>1, <2>2
    <2> HIDE DEF f, rest, e
    <2> QED BY <1>2, <2>1, <2>2, <2>3, <2>4
  <1>4. g \in SendFrame /\ (rest # <<>> => Grounded(g, closed, lawyers, lawyer_chats))
    BY <1>1, <1>2, <1>3 DEF SendFrame, Grounded
  <1>5. g \in AssignmentFrame
    BY <1>4 DEF AssignmentFrame
  <1>6. /\ f.undo \in Seq(AssignmentFrame)
        /\ \A i \in DOMAIN f.undo : f.undo[i].do \notin {"handle", "storeLawyer", "send"}
    <2>1. PICK h \in AssignmentFrame :
            /\ f.undo = <<>> \/ f.undo = <<h>>
            /\ h.do \notin {"handle", "storeLawyer", "send"}
      <3>1. CASE f.undo \in {<<RollbackFrame(ch)>> : ch \in Chat}
        BY <3>1, HostFramesMade DEF RollbackFrame
      <3>2. CASE f.undo \in {<<OfflineFrame(o)>> : o \in Operator}
        BY <3>2, HostFramesMade DEF OfflineFrame
      <3>3. CASE f.undo = <<>>
        <4>1. Io \in AssignmentFrame /\ Io.do = "io"
          BY HostFramesMade DEF Io
        <4> QED BY <3>3, <4>1
      <3> QED BY <1>2, <3>1, <3>2, <3>3
    <2> HIDE DEF f
    <2>2. CASE f.undo = <<>>
      BY <2>2
    <2>3. CASE f.undo = <<h>>
      <3>1. <<h>> \in Seq(AssignmentFrame) /\ \A i \in DOMAIN <<h>> : <<h>>[i] = h
        OBVIOUS
      <3> QED BY <2>1, <2>3, <3>1
    <2> QED BY <2>1, <2>2, <2>3
  <1>7. Arrived(e) \in [Topic -> Seq(Event)] /\ topics \in [Topic -> Seq(Event)]
    BY <1>3, ArrivedReadable DEF EventsInv, KafkaTypeOK
  <1>8. /\ topics' \in {topics, Arrived(e)}
        /\ lost' \in {lost, lost \cup {e}}
        /\ \/ Replaces(t, IF rest = <<>> THEN <<>> ELSE <<g>>)
           \/ Replaces(t, f.undo)
           \/ stack' = [stack EXCEPT ![t] = f.undo]
    BY DEF SendEvent, Replaces
  <1> HIDE DEF f, e, rest, g
  <1>9. KafkaTypeOK'
    BY <1>0, <1>3, <1>7, <1>8 DEF EventsInv, KafkaTypeOK
  <1>10. ReadableTopics'
    BY <1>0, <1>3, <1>8, ArrivedReadable DEF EventsInv, ReadableTopics, assignmentVars, storageVars
  <1>11. ASSUME StackStep(AssignmentFrame, t) PROVE StorageInv(EventsFrame)' /\ ReadableHandled'
    <2>1. /\ Grows /\ StorageTypeOK' /\ LawyersStored' /\ running' \in Task \cup {NoTask}
          /\ AssignmentFrame \in SUBSET EventsFrame
      BY <1>0 DEF EventsInv, StorageInv, StorageTypeOK, LawyersStored, Grows, assignmentVars,
         storageVars, TypedIn, HostSet
    <2> QED BY <1>0, <1>11, <2>1, NoHandlers, CallsKeepEvents
  <1>12. ASSUME Replaces(t, IF rest = <<>> THEN <<>> ELSE <<g>>)
         PROVE  StorageInv(EventsFrame)' /\ ReadableHandled'
    <2> DEFINE s == IF rest = <<>> THEN <<>> ELSE <<g>>
    <2>1. s \in Seq(AssignmentFrame) /\ \A i \in DOMAIN s : Sound(s[i])
      BY <1>0, <1>4, <1>5 DEF Sound, assignmentVars, storageVars
    <2> QED BY <1>0, <1>11, <1>12, <2>1 DEF StackStep
  <1>13. ASSUME Replaces(t, f.undo) PROVE StorageInv(EventsFrame)' /\ ReadableHandled'
    <2>1. \A i \in DOMAIN f.undo : Sound(f.undo[i])
      BY <1>6, MostSound
    <2> QED BY <1>0, <1>6, <1>11, <1>13, <2>1 DEF StackStep
  <1>14. ASSUME stack' = [stack EXCEPT ![t] = f.undo]
         PROVE  StorageInv(EventsFrame)' /\ ReadableHandled'
    <2>1. f.undo \in Seq(EventsFrame)
      BY <1>0, <1>6, HostSequences
    <2>2. StorageInv(EventsFrame)' /\ ReadableHandled'
      BY <1>0, <1>6, <1>14, <2>1, StackReset
    <2> QED BY <2>2
  <1>15. StorageInv(EventsFrame)' /\ ReadableHandled'
    BY <1>8, <1>12, <1>13, <1>14
  <1> QED BY <1>9, <1>10, <1>15 DEF EventsInv

\* A step of a task that only makes the calls s, none of which handles an event.
LEMMA PassingKeepsEvents ==
  ASSUME EventsInv, NEW t \in Task, Scheduled(t), NEW s \in Seq(EventsFrame), Passes(t, s),
         \A i \in DOMAIN s : s[i].do # "handle" /\ Sound(s[i]), UNCHANGED kafkaVars
  PROVE  EventsInv'
  <1> DEFINE G == {f \in EventsFrame : f.do # "handle"}
  <1>1. s \in Seq(G)
    <2>1. s \in [1..Len(s) -> G] /\ Len(s) \in Nat
      BY LenProperties
    <2> QED BY <2>1
  <1>2. StackStep(G, t)
    BY <1>1 DEF StackStep, Passes, Continue, Replaces, Scheduled
  <1> HIDE DEF G
  <1>3. G \in SUBSET EventsFrame /\ \A f \in G : f.do # "handle"
    BY DEF G
  <1>4. /\ UNCHANGED <<holder, queueVars, assignmentVars, kafkaVars>>
        /\ running' \in Task \cup {NoTask}
    BY DEF Passes, Continue
  <1>5. Grows /\ StorageTypeOK' /\ LawyersStored'
    BY <1>4 DEF EventsInv, StorageInv, StorageTypeOK, LawyersStored, Grows, assignmentVars,
       storageVars
  <1>6. StorageInv(EventsFrame)' /\ ReadableHandled'
    BY <1>2, <1>3, <1>4, <1>5, CallsKeepEvents
  <1>7. KafkaTypeOK' /\ ReadableTopics'
    BY <1>4, <1>5, TopicsKept DEF kafkaVars, EventsInv, KafkaTypeOK
  <1> QED BY <1>6, <1>7 DEF EventsInv

\* The handlers: each of them starts with what it is told to do.
LEMMA HandleKeeps ==
  ASSUME EventsInv, NEW t \in Task, Handle(t)
  PROVE  EventsInv'
  <1> DEFINE e == Top(t).event
             s == HandlerFrames(e)
  <1>0. /\ HostSet(EventsFrame) /\ FrameSet(EventsFrame) /\ TypedIn(EventsFrame)
        /\ Scheduled(t) /\ Busy(t) /\ Top(t).do = "handle"
        /\ Passes(t, s) /\ UNCHANGED kafkaVars
    BY EventsHosts DEF HostSet, EventsInv, StorageInv, Handle, Runs, Scheduled
  <1>1. e \in Event /\ ~IsNotice(e)
    BY <1>0, TopType, StackDomain, EventsArguments DEF EventsInv, ReadableHandled, Readable
  <1>2. /\ Io \in EventsFrame /\ Io.do = "io"
        /\ AssignmentFrame \subseteq EventsFrame /\ Calls \subseteq EventsFrame
    BY <1>0, HostFramesMade DEF HostSet, FrameSet, Frame, Io
  <1>3. "events" \in Manager
    BY EventsAssumption DEF Manager
  <1> HIDE DEF e
  <1>4. s \in Seq(EventsFrame) /\ \A i \in DOMAIN s : s[i].do \notin {"handle", "storeLawyer", "send"}
    <2>1. CASE e.event = "chat_created"
      <3> DEFINE a == [do |-> "add", client |-> ClientOf[e.chat], chat |-> e.chat]
      <3>1. a \in EventsFrame /\ a.do = "add"
        BY <1>1, <1>2, <2>1, EventArguments, HostCallsMade
      <3>2. s = <<a, Io>>
        BY <2>1 DEF HandlerFrames
      <3> HIDE DEF a, s
      <3> QED BY <1>2, <3>1, <3>2
    <2>2. CASE e.event = "chat_closed"
      <3> DEFINE a == [do |-> "managerRelease", chat |-> e.chat]
      <3>1. a \in EventsFrame /\ a.do = "managerRelease"
        BY <1>1, <1>2, <2>2, EventArguments, HostFramesMade
      <3>2. s = <<Io, a>>
        BY <2>2 DEF HandlerFrames
      <3> HIDE DEF a, s
      <3> QED BY <1>2, <3>1, <3>2
    <2>3. CASE e.event = "operator_online"
      <3> DEFINE a == [do |-> "goOnline", operator |-> e.operator, session |-> FALSE]
      <3>1. a \in EventsFrame /\ a.do = "goOnline"
        BY <1>1, <1>2, <2>3, EventArguments, HostFramesMade
      <3>2. s = <<a>>
        BY <2>3 DEF HandlerFrames
      <3> HIDE DEF a, s
      <3> QED BY <3>1, <3>2
    <2>4. CASE e.event = "operator_offline"
      <3>1. OfflineFrame(e.operator) \in EventsFrame /\ OfflineFrame(e.operator).do = "goOffline"
        BY <1>1, <1>2, <2>4, EventArguments, HostFramesMade DEF OfflineFrame
      <3>2. s = <<OfflineFrame(e.operator)>>
        BY <2>4 DEF HandlerFrames
      <3> HIDE DEF s
      <3> QED BY <3>1, <3>2
    <2>5. CASE e.event = "operator_accept_chat"
      <3> DEFINE a == [do |-> "managerAssign", manager |-> "events", chat |-> e.chat,
                       operator |-> e.operator]
      <3>1. a \in EventsFrame /\ a.do = "managerAssign"
        BY <1>1, <1>2, <1>3, <2>5, EventArguments, HostFramesMade
      <3>2. s = <<a>>
        BY <2>5 DEF HandlerFrames
      <3> HIDE DEF a, s
      <3> QED BY <3>1, <3>2
    <2>6. CASE e.event = "force_transfer"
      <3> DEFINE a == [do |-> "managerTransfer", manager |-> "events", chat |-> e.chat,
                       operator |-> e.operator, forced |-> TRUE]
      <3>1. a \in EventsFrame /\ a.do = "managerTransfer"
        BY <1>1, <1>2, <1>3, <2>6, EventArguments, HostFramesMade
      <3>2. s = <<a>>
        BY <2>6 DEF HandlerFrames, ForceFrames
      <3> HIDE DEF a, s
      <3> QED BY <3>1, <3>2
    <2>7. CASE e.event = "lawyer_assigned"
      <3> DEFINE a == [do |-> "lawyerChat", client |-> e.client, lawyer |-> e.lawyer]
      <3>1. a \in EventsFrame /\ a.do = "lawyerChat"
        BY <1>1, <2>7, EventArguments DEF EventsFrame
      <3>2. s = <<Io, a, Io>>
        BY <2>7 DEF HandlerFrames, LawyerFrames
      <3> HIDE DEF a, s
      <3> QED BY <1>2, <3>1, <3>2
    <2> QED BY <1>1, <2>1, <2>2, <2>3, <2>4, <2>5, <2>6, <2>7, EventTopic
  <1> HIDE DEF s
  <1>5. \A i \in DOMAIN s : Sound(s[i])
    BY <1>4, MostSound
  <1> QED BY <1>0, <1>4, <1>5, PassingKeepsEvents

\* A chat is made, and the event for it sent.
LEMMA OpenKeeps ==
  ASSUME EventsInv, NEW t \in Task, OpenChat(t)
  PROVE  EventsInv'
  <1> DEFINE ch == Top(t).chat
             e == ChatEvent("chat_created", ch)
             undo == IF OwnOperator[ClientOf[ch]] = NoOperator THEN <<>>
                     ELSE <<OfflineFrame(OwnOperator[ClientOf[ch]])>>
             f == [do |-> "send", events |-> <<e>>, undo |-> undo, throws |-> TRUE]
             g == [do |-> "connect", chat |-> ch]
  <1>0. /\ HostSet(EventsFrame) /\ FrameSet(EventsFrame) /\ TypedIn(EventsFrame)
        /\ Scheduled(t) /\ Busy(t) /\ Top(t).do = "openChat" /\ UNCHANGED kafkaVars
    BY EventsHosts DEF HostSet, EventsInv, StorageInv, OpenChat, Runs, Scheduled
  <1>1. ch \in Chat
    BY <1>0, TopType, EventsArguments
  <1>2. Passes(t, <<f>> \o <<g>>)
    BY EventsAssumption DEF OpenChat, Send
  <1>3. undo \in {<<>>} \cup {<<OfflineFrame(o)>> : o \in Operator}
    BY <1>1, SupportAssumption, ManagerAssumption
  <1>4. e \in Event /\ e.event = "chat_created"
    BY <1>1 DEF Event, ChatEvent
  <1> HIDE DEF e, undo
  <1>5. /\ f \in EventsFrame /\ g \in EventsFrame
        /\ f.do # "handle" /\ g.do # "handle" /\ Sound(g)
    <2>1. g \in AssignmentFrame /\ g.do # "handle" /\ Sound(g)
      BY <1>1, HostFramesMade, MostSound
    <2>2. <<e>> \in Seq(Event)
      BY <1>4
    <2>3. f \in SendFrame
      BY <1>3, <2>2 DEF SendFrame
    <2>4. f \in AssignmentFrame /\ f.do # "handle"
      BY <2>3 DEF AssignmentFrame
    <2> QED BY <1>0, <2>1, <2>4 DEF HostSet
  <1>6. Sound(f)
    BY <1>4 DEF Sound, Grounded, StoredEvent
  <1> HIDE DEF f, g
  <1> DEFINE s == <<f>> \o <<g>>
  <1>7. /\ s \in Seq(EventsFrame)
        /\ \A i \in DOMAIN s : s[i] \in {f, g}
    <2>1. s \in Seq({f, g})
      OBVIOUS
    <2> HIDE DEF s
    <2>2. s \in [1..Len(s) -> {f, g}]
      BY <2>1, LenProperties
    <2> QED BY <1>5, <2>1, <2>2, LargerSet
  <1> HIDE DEF s
  <1>8. \A i \in DOMAIN s : s[i].do # "handle" /\ Sound(s[i])
    BY <1>5, <1>6, <1>7
  <1>9. Passes(t, s)
    BY <1>2 DEF s
  <1> QED BY <1>0, <1>7, <1>8, <1>9, PassingKeepsEvents

\* The handler makes a chat with the lawyer unless there is one.
LEMMA LawyerChatKeeps ==
  ASSUME EventsInv, NEW t \in Task, CreateLawyerChatOnce(t)
  PROVE  EventsInv'
  <1> DEFINE f == Top(t)
  <1>0. /\ HostSet(EventsFrame) /\ FrameSet(EventsFrame) /\ TypedIn(EventsFrame)
        /\ Busy(t) /\ f.do = "lawyerChat"
        /\ UNCHANGED <<holder, queueVars, returned, chat_operator, participants, closed, lawyers,
                       lawyer_assignments, kafkaVars>>
        /\ StorageTypeOK /\ LawyersStored
    BY EventsHosts DEF HostSet, EventsInv, StorageInv, CreateLawyerChatOnce, Runs, Scheduled
  <1>1. f.client \in Client /\ f.lawyer \in Operator
    BY <1>0, TopType, EventsArguments
  <1>2. /\ Continue(t, <<>>)
        /\ lawyer_chats' \in {lawyer_chats, [lawyer_chats EXCEPT ![f.client] = @ \cup {f.lawyer}]}
    BY DEF CreateLawyerChatOnce
  <1>3. /\ lawyer_chats' \in [Client -> SUBSET Operator]
        /\ \A c \in Client : lawyer_chats[c] \subseteq lawyer_chats'[c]
    BY <1>0, <1>1, <1>2 DEF StorageTypeOK
  <1> HIDE DEF f
  <1>4. Grows /\ StorageTypeOK' /\ LawyersStored'
    BY <1>0, <1>3 DEF Grows, StorageTypeOK, LawyersStored
  <1>5. StackStep(AssignmentFrame, t) /\ running' \in Task \cup {NoTask}
    <2>1. <<>> \in Seq(AssignmentFrame) /\ \A i \in DOMAIN <<>> : Sound(<<>>[i])
      BY ShortMade DEF Outer
    <2>2. Replaces(t, <<>>) /\ running' \in Task \cup {NoTask}
      BY <1>2 DEF Continue, Replaces
    <2> QED BY <1>0, <2>1, <2>2 DEF StackStep
  <1>6. StorageInv(EventsFrame)' /\ ReadableHandled'
    BY <1>0, <1>4, <1>5, NoHandlers, CallsKeepEvents DEF HostSet
  <1>7. KafkaTypeOK' /\ ReadableTopics'
    BY <1>0, <1>4, TopicsKept DEF kafkaVars, EventsInv, KafkaTypeOK
  <1> QED BY <1>6, <1>7 DEF EventsInv

LEMMA EventsStart ==
  ASSUME EventsInit
  PROVE  EventsInv
  <1>1. StorageInv(EventsFrame)
    BY StorageStart DEF EventsInit
  <1>2. KafkaTypeOK
    BY EventsAssumption DEF EventsInit, KafkaTypeOK
  <1>3. ReadableTopics /\ ReadableHandled
    BY DEF EventsInit, AssignmentInit, Init, AsyncInit, ReadableTopics, ReadableHandled
  <1> QED BY <1>1, <1>2, <1>3 DEF EventsInv

LEMMA EventsStep ==
  ASSUME EventsInv, [EventsNext]_eventsVars
  PROVE  EventsInv'
  <1>1. CASE UNCHANGED eventsVars
    BY <1>1 DEF eventsVars, allVars, vars, asyncVars, queueVars, assignmentVars, storageVars,
       kafkaVars, EventsInv, StorageInv, TypedIn, StorageTypeOK, AllGrounded, LawyersStored,
       KafkaTypeOK, ReadableTopics, ReadableHandled
  <1>2. ASSUME NEW t \in Task, QueueStep(t) \/ ManagerStep(t), UNCHANGED kafkaVars
        PROVE  EventsInv'
    <2>1. HostSet(EventsFrame) /\ AssignmentFrame \in SUBSET EventsFrame
      BY EventsHosts DEF HostSet
    <2>2. StorageInv(EventsFrame)' /\ Grows /\ StackStep(AssignmentFrame, t)
      BY <1>2, <2>1, TaskKeepsStorage DEF EventsInv
    <2>3. ReadableHandled'
      BY <2>1, <2>2, NoHandlers, HandledKept
    <2>4. KafkaTypeOK' /\ ReadableTopics'
      BY <1>2, <2>2, TopicsKept DEF kafkaVars, EventsInv, KafkaTypeOK
    <2> QED BY <2>2, <2>3, <2>4 DEF EventsInv
  <1>3. ASSUME NEW t \in Task, AwaitBroker(t) PROVE EventsInv'
    BY <1>3 DEF AwaitBroker, queueVars, assignmentVars, storageVars, kafkaVars, EventsInv,
       StorageInv, TypedIn, StorageTypeOK, AllGrounded, LawyersStored, KafkaTypeOK,
       ReadableTopics, ReadableHandled
  <1>4. ASSUME NEW t \in Task, TaskStep(t) PROVE EventsInv'
    BY <1>2, <1>3, <1>4, SendKeeps, HandleKeeps, LawyerChatKeeps, OpenKeeps
    DEF TaskStep, EventStep
  <1> QED BY <1>1, <1>4, ConsumeKeeps, EnterKeeps DEF EventsNext

\* Every reachable state satisfies the invariant of the events.
THEOREM EventsInvariant == EventsSpec => []EventsInv
  BY EventsStart, EventsStep, PTL DEF EventsSpec

\* With any number of consumers' tasks and calls, every table, frame and topic
\* holds what belongs there, and there is something to send where something is
\* sent.
THEOREM EventsTypeCorrect == EventsSpec => []EventsTypeOK
  <1>1. EventsInv => EventsTypeOK
    <2> SUFFICES ASSUME EventsInv PROVE EventsTypeOK
      OBVIOUS
    <2>1. \A t \in Task : Busy(t) /\ Top(t).do = "send" => Top(t).events # <<>>
      BY EventsHosts, StackDomain DEF EventsInv, StorageInv, AllGrounded, Grounded, HostSet
    <2> QED BY <2>1 DEF EventsInv, StorageInv, TypedIn, KafkaTypeOK, ReadableTopics, EventsTypeOK
  <1> QED BY <1>1, EventsInvariant, PTL

\* Whoever reads an event finds in the database what it says, in whatever order
\* the topics are read and whatever is refused or sent twice on the way.
THEOREM EventsAreStored == EventsSpec => []AnnouncedIsStored
  <1>1. EventsInv => AnnouncedIsStored
    <2> SUFFICES ASSUME EventsInv, NEW e \in Handled \cup Unread
                 PROVE  StoredEvent(e, closed, lawyers, lawyer_chats)
      BY DEF AnnouncedIsStored, StoredEvent
    <2>1. CASE e \in Handled
      <3>1. PICK t \in Task : Busy(t) /\ Top(t).do = "handle" /\ e = Top(t).event
        BY <2>1 DEF Handled
      <3>2. 1 \in DOMAIN stack[t] /\ stack[t][1] = Top(t)
        BY <3>1, EventsHosts, StackDomain DEF EventsInv, StorageInv, HostSet
      <3> QED BY <3>1, <3>2 DEF EventsInv, ReadableHandled, Readable
    <2>2. CASE e \in Unread
      BY <2>2 DEF Unread, EventsInv, ReadableTopics, Readable
    <2> QED BY <2>1, <2>2
  <1> QED BY <1>1, EventsInvariant, PTL

\* The handlers and their manager keep to it too: a manager only remembers a
\* lawyer who is stored as the client's, and he has a chat with the client.
THEOREM LawyersAreStoredWithEvents == EventsSpec => []LawyersStored
  <1>1. EventsInv => LawyersStored
    BY DEF EventsInv, StorageInv
  <1> QED BY <1>1, EventsInvariant, PTL

-----------------------------------------------------------------------------
(* What a frame may still send.                                            *)

AssignFrames == {"accept", "managerAssign", "storeAssignment", "updateChat", "addParticipant"}
TransferFrames == {"adminTransfer", "operatorTransfer", "managerTransfer", "storeTransfer",
  "transferStored"}
CloseFrames == {"operatorClose", "adminClose", "closeChat"}
LawyerSenders == {"operatorLawyer", "adminLawyer", "readLawyer", "managerLawyer",
  "createLawyerChat", "storeLawyer"}

Senders == AssignFrames \cup TransferFrames \cup CloseFrames \cup LawyerSenders
             \cup {"send", "handle", "openChat", "connect", "goOnline", "goOffline"}

Silent(f) == f.do \notin Senders

Own(ch) == OwnOperator[ClientOf[ch]]

\* Event e goes to its topic if all goes well with frame f.
Sends(f, e) ==
  \/ f.do = "send" /\ ~IsNotice(e) /\ \E i \in DOMAIN f.events : f.events[i] = e
  \/ f.do = "handle" /\ e = f.event
  \/ f.do = "openChat" /\ e = ChatEvent("chat_created", f.chat)
  \/ f.do \in {"openChat", "connect"} /\ e = OperatorEvent("operator_online", Own(f.chat))
  \/ f.do = "goOnline" /\ e = OperatorEvent("operator_online", f.operator)
  \/ f.do = "goOffline" /\ e = OperatorEvent("operator_offline", f.operator)
  \/ f.do \in AssignFrames /\ e = AssignedEvent("operator_accept_chat", f.chat, f.operator)
  \/ f.do \in TransferFrames /\ e = AssignedEvent("force_transfer", f.chat, f.operator)
  \/ f.do \in CloseFrames /\ e = ChatEvent("chat_closed", f.chat)
  \/ f.do \in LawyerSenders
       /\ e = [event |-> "lawyer_assigned", client |-> f.client, lawyer |-> f.lawyer]

\* Event e is sent by what follows if an event of frame f is refused.
Undoes(f, e) ==
  \/ f.do = "send" /\ \E o \in Operator : /\ f.undo = <<OfflineFrame(o)>>
                                         /\ e = OperatorEvent("operator_offline", o)
  \/ f.do = "goOnline" /\ f.session /\ e = OperatorEvent("operator_offline", f.operator)
  \/ f.do \in {"openChat", "connect"} /\ e = OperatorEvent("operator_offline", Own(f.chat))

MaySend(f, e) == Sends(f, e) \/ Undoes(f, e)

\* What a frame sends it sends once, and what undoes it is something else and ends
\* the call.
SendsOnce(f) ==
  /\ \A i, j \in DOMAIN f.events : i < j /\ f.events[i] = f.events[j] => IsNotice(f.events[i])
  /\ \A e \in Event : Undoes(f, e) => ~Sends(f, e) /\ f.throws

\* What a frame sends no frame below it sends again.
Once(s) ==
  /\ \A i, j \in DOMAIN s : i < j => \A e \in Event : ~(Sends(s[i], e) /\ MaySend(s[j], e))
  /\ \A i \in DOMAIN s : s[i].do = "send" => SendsOnce(s[i])

AllOnce == \A t \in Task : Once(stack[t])

\* Frame g sends nothing that frame f does not.
Within(g, f) ==
  /\ \A e \in Event : (Sends(g, e) => Sends(f, e)) /\ (Undoes(g, e) => Undoes(f, e))
  /\ g.do = "send" => SendsOnce(g)

IsSequence(s) == \E S : s \in Seq(S)

\* The frames s send nothing that frame f does not, and all of it once.
Spares(f, s) ==
  /\ IsSequence(s)
  /\ \A i \in DOMAIN s : Within(s[i], f)
  /\ \A i, j \in DOMAIN s : i < j => \A e \in Event : ~(Sends(s[i], e) /\ MaySend(s[j], e))

Mute(s) == IsSequence(s) /\ \A i \in DOMAIN s : Silent(s[i])

LEMMA SilentFrames ==
  ASSUME NEW f, Silent(f)
  PROVE  /\ \A e : ~Sends(f, e) /\ ~Undoes(f, e)
         /\ \A g : Within(f, g)
  <1>1. \A e : ~Sends(f, e) /\ ~Undoes(f, e)
    BY DEF Silent, Sends, Undoes, Senders
  <1>2. f.do # "send"
    BY DEF Silent, Senders
  <1> QED BY <1>1, <1>2 DEF Within

LEMMA QuietSpares ==
  ASSUME NEW s, Mute(s), NEW f
  PROVE  Spares(f, s)
  BY SilentFrames DEF Mute, Spares, MaySend

LEMMA ShortQuiet ==
  /\ Mute(<<>>)
  /\ \A f : Silent(f) => /\ Mute(<<f>>)
                         /\ \A g : Silent(g) => /\ Mute(<<f, g>>)
                                                /\ \A h : Silent(h) => Mute(<<f, g, h>>)
  <1>1. Mute(<<>>)
    BY DEF Mute, IsSequence
  <1>2. ASSUME NEW f, Silent(f) PROVE Mute(<<f>>)
    <2>1. PICK S : S = {f}
      OBVIOUS
    <2>2. <<f>> \in Seq(S)
      BY <2>1
    <2> QED BY <1>2, <2>2 DEF Mute, IsSequence
  <1>3. ASSUME NEW f, NEW g, Silent(f), Silent(g) PROVE Mute(<<f, g>>)
    <2>1. PICK S : S = {f, g}
      OBVIOUS
    <2>2. <<f, g>> \in Seq(S)
      BY <2>1
    <2> QED BY <1>3, <2>2 DEF Mute, IsSequence
  <1>4. ASSUME NEW f, NEW g, NEW h, Silent(f), Silent(g), Silent(h) PROVE Mute(<<f, g, h>>)
    <2>1. PICK S : S = {f, g, h}
      OBVIOUS
    <2>2. <<f, g, h>> \in Seq(S)
      BY <2>1
    <2> QED BY <1>4, <2>2 DEF Mute, IsSequence
  <1> QED BY <1>1, <1>2, <1>3, <1>4

LEMMA OneSpares ==
  ASSUME NEW f, NEW g, Within(g, f)
  PROVE  /\ Spares(f, <<g>>)
         /\ \A h : Silent(h) => Spares(f, <<h, g>>)
  <1>1. Spares(f, <<g>>)
    <2>1. PICK S : S = {g}
      OBVIOUS
    <2>2. <<g>> \in Seq(S)
      BY <2>1
    <2> QED BY <2>2 DEF Spares, IsSequence
  <1>2. ASSUME NEW h, Silent(h) PROVE Spares(f, <<h, g>>)
    <2>1. <<h, g>> \in Seq({h, g}) /\ DOMAIN <<h, g>> = {1, 2}
      OBVIOUS
    <2>2. \A i \in {1, 2} : Within(<<h, g>>[i], f)
      BY <1>2, SilentFrames
    <2>3. \A i, j \in {1, 2} : i < j => i = 1
      OBVIOUS
    <2>4. <<h, g>>[1] = h
      OBVIOUS
    <2> QED BY <1>2, <2>1, <2>2, <2>3, <2>4, SilentFrames DEF Spares, IsSequence
  <1> QED BY <1>1, <1>2

\* One sequence after another, one of them quiet.
LEMMA Concatenated ==
  ASSUME NEW s, NEW r, IsSequence(s), IsSequence(r)
  PROVE  /\ IsSequence(s \o r)
         /\ DOMAIN s = 1..Len(s) /\ DOMAIN r = 1..Len(r)
         /\ Len(s) \in Nat /\ Len(r) \in Nat
         /\ DOMAIN (s \o r) = 1..Len(s) + Len(r)
         /\ \A i \in 1..Len(s) : (s \o r)[i] = s[i]
         /\ \A i \in Len(s) + 1..Len(s) + Len(r) : (s \o r)[i] = r[i - Len(s)]
         /\ \A i \in Len(s) + 1..Len(s) + Len(r) : i - Len(s) \in DOMAIN r
  <1>1. PICK S, R : s \in Seq(S) /\ r \in Seq(R)
    BY DEF IsSequence
  <1> DEFINE T == S \cup R
  <1>2. s \in Seq(T) /\ r \in Seq(T)
    BY <1>1, LargerSet
  <1> HIDE DEF T
  <1>3. /\ s \o r \in Seq(T) /\ Len(s \o r) = Len(s) + Len(r)
        /\ \A i \in 1..Len(s) + Len(r) : (s \o r)[i] = IF i <= Len(s) THEN s[i] ELSE r[i - Len(s)]
    BY <1>2, ConcatProperties
  <1>4. /\ DOMAIN s = 1..Len(s) /\ DOMAIN r = 1..Len(r)
        /\ Len(s) \in Nat /\ Len(r) \in Nat
        /\ DOMAIN (s \o r) = 1..Len(s \o r)
    BY <1>2, <1>3, LenProperties
  <1>5. PICK m \in Nat, n \in Nat : m = Len(s) /\ n = Len(r)
    BY <1>4
  <1>6. /\ \A i \in 1..m : i \in 1..m + n /\ i <= m
        /\ \A i \in m + 1..m + n : i \in 1..m + n /\ ~(i <= m) /\ i - m \in 1..n
    OBVIOUS
  <1> QED BY <1>3, <1>4, <1>5, <1>6 DEF IsSequence

LEMMA ConcatParts ==
  ASSUME NEW s, NEW r, IsSequence(s), IsSequence(r)
  PROVE  /\ IsSequence(s \o r)
         /\ \A i \in DOMAIN (s \o r) : \/ i \in DOMAIN s /\ (s \o r)[i] = s[i]
                                       \/ /\ i - Len(s) \in DOMAIN r
                                          /\ (s \o r)[i] = r[i - Len(s)]
                                          /\ i > Len(s)
         /\ Len(s) \in Nat /\ DOMAIN s = 1..Len(s) /\ DOMAIN r = 1..Len(r) /\ Len(r) \in Nat
  <1>1. PICK m \in Nat, n \in Nat : m = Len(s) /\ n = Len(r)
    BY Concatenated
  <1>2. \A i \in 1..m + n : i \in 1..m \/ (i \in m + 1..m + n /\ i > m)
    OBVIOUS
  <1> QED BY <1>1, <1>2, Concatenated

LEMMA QuietConcat ==
  ASSUME NEW s, NEW r, Mute(s), Mute(r)
  PROVE  Mute(s \o r)
  BY ConcatParts DEF Mute

LEMMA SparesConcat ==
  ASSUME NEW f, NEW s, NEW r, (Mute(s) /\ Spares(f, r)) \/ (Spares(f, s) /\ Mute(r))
  PROVE  Spares(f, s \o r)
  <1>1. Spares(f, s) /\ Spares(f, r)
    BY QuietSpares
  <1>2. IsSequence(s) /\ IsSequence(r)
    BY <1>1 DEF Spares
  <1>3. ASSUME NEW i \in DOMAIN (s \o r) PROVE Within((s \o r)[i], f)
    <2>1. CASE i \in DOMAIN s /\ (s \o r)[i] = s[i]
      BY <1>1, <2>1 DEF Spares
    <2>2. CASE i - Len(s) \in DOMAIN r /\ (s \o r)[i] = r[i - Len(s)]
      BY <1>1, <2>2 DEF Spares
    <2> QED BY <1>2, <2>1, <2>2, ConcatParts
  <1>4. ASSUME NEW i \in DOMAIN (s \o r), NEW j \in DOMAIN (s \o r), i < j, NEW e \in Event
        PROVE  ~(Sends((s \o r)[i], e) /\ MaySend((s \o r)[j], e))
    <2>1. PICK n \in Nat : /\ n = Len(s) /\ DOMAIN s = 1..n
      BY <1>2, ConcatParts
    <2>2. PICK k \in Nat : k = Len(r) /\ DOMAIN r = 1..k
      BY <1>2, ConcatParts
    <2>3. DOMAIN (s \o r) = 1..n + k
      BY <1>2, <2>1, <2>2, Concatenated
    <2>4. CASE j \in 1..n
      <3>1. i \in 1..n
        BY <1>4, <2>3, <2>4
      <3>2. (s \o r)[i] = s[i] /\ (s \o r)[j] = s[j]
        BY <1>2, <2>1, <2>4, <3>1, Concatenated
      <3> QED BY <1>1, <1>4, <2>1, <2>4, <3>1, <3>2 DEF Spares
    <2>5. CASE i \in 1..n /\ j \notin 1..n
      <3>1. j - n \in DOMAIN r /\ (s \o r)[j] = r[j - n] /\ (s \o r)[i] = s[i]
        BY <1>2, <2>1, <2>5, ConcatParts
      <3>2. Silent(s[i]) \/ Silent(r[j - n])
        BY <2>1, <2>5, <3>1 DEF Mute
      <3> QED BY <3>1, <3>2, SilentFrames DEF MaySend
    <2>6. CASE i \notin 1..n /\ j \notin 1..n
      <3>1. /\ i - n \in DOMAIN r /\ (s \o r)[i] = r[i - n]
            /\ j - n \in DOMAIN r /\ (s \o r)[j] = r[j - n]
        BY <1>2, <2>1, <2>6, ConcatParts
      <3>2. i - n < j - n
        BY <1>4, <2>3
      <3> QED BY <1>1, <1>4, <3>1, <3>2 DEF Spares
    <2> QED BY <2>4, <2>5, <2>6
  <1> QED BY <1>2, <1>3, <1>4, ConcatParts DEF Spares

-----------------------------------------------------------------------------
(* One step of a task.                                                     *)

HoldersOn(st, e) == {t \in Task : \E i \in DOMAIN st[t] : MaySend(st[t][i], e)}

\* The tasks that may still send event e.
Holders(e) == HoldersOn(stack, e)

SparesStep(t) ==
  /\ Busy(t)
  /\ UNCHANGED stack \/ \E s : Spares(Top(t), s) /\ Replaces(t, s)

\* The stack after a step: the new frames, and what was below the one on top.
Parts(t, s, n, k) ==
  /\ DOMAIN s = 1..n
  /\ DOMAIN stack[t] = 1..k + 1
  /\ DOMAIN stack'[t] = 1..n + k
  /\ \A i \in 1..n : stack'[t][i] = s[i]
  /\ \A i \in 1..k : stack'[t][n + i] = stack[t][i + 1]

LEMMA ReplacedParts ==
  ASSUME EventsInv, NEW t \in Task, Busy(t), NEW s, IsSequence(s), Replaces(t, s)
  PROVE  /\ \A u \in Task \ {t} : stack'[u] = stack[u]
         /\ \E n \in Nat, k \in Nat : Parts(t, s, n, k)
         /\ stack[t][1] = Top(t)
  <1>1. /\ TypedIn(EventsFrame) /\ FrameSet(EventsFrame)
        /\ stack[t] \in Seq(EventsFrame) /\ stack[t] # <<>>
    BY EventsHosts DEF HostSet, EventsInv, StorageInv, TypedIn, Busy
  <1> DEFINE rest == Tail(stack[t])
  <1>2. rest \in Seq(EventsFrame) /\ Len(rest) = Len(stack[t]) - 1
        /\ \A i \in 1..Len(rest) : rest[i] = stack[t][i + 1]
    BY <1>1, HeadTailProperties
  <1>3. /\ stack'[t] = s \o rest
        /\ \A u \in Task \ {t} : stack'[u] = stack[u]
    BY <1>1 DEF Replaces, TypedIn
  <1> HIDE DEF rest
  <1>4. IsSequence(rest)
    BY <1>2 DEF IsSequence
  <1>5. PICK n \in Nat, k \in Nat : n = Len(s) /\ k = Len(rest)
    BY <1>4, Concatenated
  <1>6. /\ DOMAIN s = 1..n /\ DOMAIN (s \o rest) = 1..n + k
        /\ \A i \in 1..n : (s \o rest)[i] = s[i]
        /\ \A i \in n + 1..n + k : (s \o rest)[i] = rest[i - n]
    BY <1>4, <1>5, Concatenated
  <1>7. DOMAIN stack[t] = 1..k + 1 /\ stack[t][1] = Top(t)
    <2>1. Len(stack[t]) \in Nat /\ DOMAIN stack[t] = 1..Len(stack[t]) /\ stack[t][1] = Top(t)
      BY <1>1, StackDomain
    <2>2. Len(stack[t]) = k + 1
      BY <1>2, <1>5, <2>1
    <2> QED BY <2>1, <2>2
  <1>8. \A i \in 1..k : (s \o rest)[n + i] = stack[t][i + 1]
    <2> TAKE i \in 1..k
    <2>1. n + i \in n + 1..n + k /\ n + i - n = i
      OBVIOUS
    <2>2. (s \o rest)[n + i] = rest[i]
      <3>1. (s \o rest)[n + i] = rest[n + i - n]
        BY <1>6, <2>1
      <3> QED BY <2>1, <3>1
    <2>3. rest[i] = stack[t][i + 1]
      BY <1>2, <1>5
    <2> QED BY <2>2, <2>3
  <1>9. /\ DOMAIN s = 1..n
        /\ DOMAIN stack[t] = 1..k + 1
        /\ DOMAIN stack'[t] = 1..n + k
        /\ \A i \in 1..n : stack'[t][i] = s[i]
    BY <1>3, <1>6, <1>7
  <1>10. \A i \in 1..k : stack'[t][n + i] = stack[t][i + 1]
    BY <1>3, <1>8
  <1>11. Parts(t, s, n, k)
    BY <1>9, <1>10 DEF Parts
  <1> QED BY <1>3, <1>7, <1>11

\* Frames that send no more than the one whose place they take, leave a stack
\* on which everything is sent once, and which sends no more.
LEMMA SparedStack ==
  ASSUME EventsInv, AllOnce, NEW t \in Task, SparesStep(t)
  PROVE  AllOnce' /\ \A e \in Event : Holders(e)' \subseteq Holders(e)
  <1>1. CASE UNCHANGED stack
    BY <1>1 DEF AllOnce, Holders, HoldersOn
  <1>2. CASE \E s : Spares(Top(t), s) /\ Replaces(t, s)
    <2>1. PICK s : Spares(Top(t), s) /\ Replaces(t, s)
      BY <1>2
    <2>2. Busy(t) /\ IsSequence(s)
      BY <2>1 DEF SparesStep, Spares
    <2>p. PICK n \in Nat, k \in Nat : Parts(t, s, n, k)
      BY <2>1, <2>2, ReplacedParts
    <2>3. /\ DOMAIN s = 1..n
          /\ DOMAIN stack[t] = 1..k + 1
          /\ DOMAIN stack'[t] = 1..n + k
          /\ \A i \in 1..n : stack'[t][i] = s[i]
          /\ \A i \in 1..k : stack'[t][n + i] = stack[t][i + 1]
      BY <2>p DEF Parts
    <2>4. stack[t][1] = Top(t) /\ \A u \in Task \ {t} : stack'[u] = stack[u]
      BY <2>1, <2>2, ReplacedParts
    <2>5. \A i \in 1..n + k : \/ i \in 1..n /\ stack'[t][i] = s[i]
                              \/ \E j \in 1..k : i = n + j /\ stack'[t][i] = stack[t][j + 1]
      <3> TAKE i \in 1..n + k
      <3>1. CASE i \in 1..n
        BY <2>3, <3>1
      <3>2. CASE i \notin 1..n
        <4>1. i - n \in 1..k /\ i = n + (i - n)
          BY <3>2
        <4> QED BY <2>3, <4>1
      <3> QED BY <3>1, <3>2
    <2>6. \A j \in 1..k : j + 1 \in 1..k + 1 /\ 1 < j + 1
      OBVIOUS
    <2>7. 1 \in 1..k + 1
      OBVIOUS
    <2>8. Once(stack'[t])
      <3>1. ASSUME NEW i \in 1..n + k, NEW j \in 1..n + k, i < j, NEW e \in Event,
                   Sends(stack'[t][i], e), MaySend(stack'[t][j], e)
            PROVE  FALSE
        <4>1. CASE i \in 1..n /\ j \in 1..n
          BY <2>1, <2>3, <3>1, <4>1 DEF Spares
        <4>2. CASE i \in 1..n /\ j \notin 1..n
          <5>1. PICK m \in 1..k : stack'[t][j] = stack[t][m + 1]
            BY <2>5, <4>2
          <5>2. Sends(stack[t][1], e)
            BY <2>1, <2>3, <2>4, <3>1, <4>2 DEF Spares, Within
          <5> QED BY <2>3, <2>6, <2>7, <3>1, <5>1, <5>2 DEF AllOnce, Once
        <4>3. CASE i \notin 1..n /\ j \notin 1..n
          <5>1. PICK m \in 1..k : i = n + m /\ stack'[t][i] = stack[t][m + 1]
            BY <2>5, <4>3
          <5>2. PICK l \in 1..k : j = n + l /\ stack'[t][j] = stack[t][l + 1]
            BY <2>5, <4>3
          <5>3. m + 1 < l + 1
            BY <3>1, <5>1, <5>2
          <5> QED BY <2>3, <2>6, <3>1, <5>1, <5>2, <5>3 DEF AllOnce, Once
        <4>4. i \in 1..n \/ j \notin 1..n
          BY <3>1
        <4> QED BY <4>1, <4>2, <4>3, <4>4
      <3>2. ASSUME NEW i \in 1..n + k, stack'[t][i].do = "send" PROVE SendsOnce(stack'[t][i])
        <4>1. CASE i \in 1..n
          BY <2>1, <2>3, <3>2, <4>1 DEF Spares, Within
        <4>2. CASE i \notin 1..n
          <5>1. PICK m \in 1..k : stack'[t][i] = stack[t][m + 1]
            BY <2>5, <4>2
          <5> QED BY <2>3, <2>6, <3>2, <5>1 DEF AllOnce, Once
        <4> QED BY <4>1, <4>2
      <3> QED BY <2>3, <3>1, <3>2 DEF Once
    <2>9. ASSUME NEW e \in Event, NEW i \in 1..n + k, MaySend(stack'[t][i], e)
          PROVE  t \in Holders(e)
      <3>1. CASE i \in 1..n
        <4>1. MaySend(stack[t][1], e)
          BY <2>1, <2>3, <2>4, <2>9, <3>1 DEF Spares, Within, MaySend
        <4> QED BY <2>3, <2>7, <4>1 DEF Holders, HoldersOn
      <3>2. CASE i \notin 1..n
        <4>1. PICK m \in 1..k : stack'[t][i] = stack[t][m + 1]
          BY <2>5, <3>2
        <4> QED BY <2>3, <2>6, <2>9, <4>1 DEF Holders, HoldersOn
      <3> QED BY <3>1, <3>2
    <2>10. AllOnce'
      BY <2>4, <2>8 DEF AllOnce
    <2>11. \A e \in Event : Holders(e)' \subseteq Holders(e)
      BY <2>3, <2>4, <2>9 DEF Holders, HoldersOn
    <2> QED BY <2>10, <2>11
  <1> QED BY <1>1, <1>2 DEF SparesStep

\* Once the frame on top has sent its event, the task has no more to do with it.
LEMMA SentForGood ==
  ASSUME EventsInv, AllOnce, NEW t \in Task, Busy(t), NEW e \in Event, Sends(Top(t), e),
         NEW s, IsSequence(s), Replaces(t, s), \A i \in DOMAIN s : ~MaySend(s[i], e)
  PROVE  t \in Holders(e) \ Holders(e)'
  <1>p. PICK n \in Nat, k \in Nat : Parts(t, s, n, k)
    BY ReplacedParts
  <1>1. /\ DOMAIN s = 1..n
        /\ DOMAIN stack[t] = 1..k + 1
        /\ DOMAIN stack'[t] = 1..n + k
        /\ \A i \in 1..n : stack'[t][i] = s[i]
        /\ \A i \in 1..k : stack'[t][n + i] = stack[t][i + 1]
    BY <1>p DEF Parts
  <1>2. stack[t][1] = Top(t)
    BY ReplacedParts
  <1>3. 1 \in 1..k + 1
    OBVIOUS
  <1>4. t \in Holders(e)
    BY <1>1, <1>2, <1>3 DEF Holders, HoldersOn, MaySend
  <1>6. \A j \in 1..k : j + 1 \in 1..k + 1 /\ 1 < j + 1
    OBVIOUS
  <1>5. ASSUME NEW i \in 1..n + k, MaySend(stack'[t][i], e) PROVE FALSE
    <2>1. CASE i \in 1..n
      BY <1>1, <1>5, <2>1
    <2>2. CASE i \notin 1..n
      <3>1. i - n \in 1..k /\ i = n + (i - n)
        BY <2>2
      <3>2. /\ stack'[t][n + (i - n)] = stack[t][(i - n) + 1]
            /\ (i - n) + 1 \in 1..k + 1 /\ 1 < (i - n) + 1
        BY <1>1, <1>6, <3>1
      <3>3. PICK j \in 1..k + 1 : stack'[t][i] = stack[t][j] /\ 1 < j
        BY <3>1, <3>2
      <3> QED BY <1>1, <1>2, <1>3, <1>5, <3>3 DEF AllOnce, Once
    <2> QED BY <2>1, <2>2
  <1> QED BY <1>1, <1>4, <1>5 DEF Holders, HoldersOn

-----------------------------------------------------------------------------
(* The steps of the managers send no more than they are called to.         *)

\* The undo of a frame that ends the call, and the one event it stands for.
NoUndo == {<<>>} \cup {<<RollbackFrame(ch)>> : ch \in Chat}

LEMMA NoUndoNoEvent ==
  ASSUME NEW f, f.do = "send", f.undo \in NoUndo
  PROVE  \A e : ~Undoes(f, e)
  <1>1. \A o : f.undo # <<OfflineFrame(o)>>
    BY DEF NoUndo, RollbackFrame, OfflineFrame
  <1> QED BY <1>1 DEF Undoes

LEMMA OfflineUndo ==
  ASSUME NEW f, f.do = "send", NEW o, f.undo = <<OfflineFrame(o)>>
  PROVE  \A e : Undoes(f, e) => e = OperatorEvent("operator_offline", o)
  <1>1. \A p : <<OfflineFrame(o)>> = <<OfflineFrame(p)>> => o = p
    BY DEF OfflineFrame
  <1> QED BY <1>1 DEF Undoes

\* One frame is pushed that sends events f stands for, each of them once.
LEMMA SendSpares ==
  ASSUME NEW f, NEW events \in Seq(Event), NEW undo, NEW throws \in BOOLEAN,
         \A i, j \in DOMAIN events : i < j /\ events[i] = events[j] => IsNotice(events[i]),
         \A i \in DOMAIN events : IsNotice(events[i]) \/ Sends(f, events[i]),
         \/ undo \in NoUndo
         \/ /\ throws
            /\ \E o : /\ undo = <<OfflineFrame(o)>>
                      /\ Undoes(f, OperatorEvent("operator_offline", o))
                      /\ \A i \in DOMAIN events : events[i] # OperatorEvent("operator_offline", o)
  PROVE  Spares(f, Send(events, undo, throws))
  <1> DEFINE g == [do |-> "send", events |-> events, undo |-> undo, throws |-> throws]
  <1>1. g.do = "send" /\ g.events = events /\ g.undo = undo /\ g.throws = throws
    OBVIOUS
  <1>2. Send(events, undo, throws) = <<g>>
    BY EventsAssumption DEF Send
  <1> HIDE DEF g
  <1>3. \A e : Sends(g, e) <=> ~IsNotice(e) /\ \E i \in DOMAIN events : events[i] = e
    BY <1>1 DEF Sends, AssignFrames, TransferFrames, CloseFrames, LawyerSenders
  <1>4. \A e : Sends(g, e) => Sends(f, e)
    BY <1>3
  <1>5. CASE undo \in NoUndo
    <2>1. \A e : ~Undoes(g, e)
      BY <1>1, <1>5, NoUndoNoEvent
    <2>2. SendsOnce(g)
      BY <1>1, <2>1 DEF SendsOnce
    <2> QED BY <1>2, <1>4, <2>1, <2>2, OneSpares DEF Within
  <1>6. CASE /\ throws
             /\ \E o : /\ undo = <<OfflineFrame(o)>>
                       /\ Undoes(f, OperatorEvent("operator_offline", o))
                       /\ \A i \in DOMAIN events :
                            events[i] # OperatorEvent("operator_offline", o)
    <2>1. PICK o : /\ undo = <<OfflineFrame(o)>>
                   /\ Undoes(f, OperatorEvent("operator_offline", o))
                   /\ \A i \in DOMAIN events : events[i] # OperatorEvent("operator_offline", o)
      BY <1>6
    <2>2. \A e : Undoes(g, e) => e = OperatorEvent("operator_offline", o)
      BY <1>1, <2>1, OfflineUndo
    <2>3. SendsOnce(g)
      BY <1>1, <1>3, <1>6, <2>1, <2>2 DEF SendsOnce
    <2> QED BY <1>2, <1>4, <2>1, <2>2, <2>3, OneSpares DEF Within
  <1> QED BY <1>5, <1>6

\* ... above all one event that is no notice.
LEMMA OneEventSpares ==
  ASSUME NEW f, NEW e \in Event, Sends(f, e), NEW undo, NEW throws \in BOOLEAN,
         \/ undo \in NoUndo
         \/ /\ throws
            /\ \E o : /\ undo = <<OfflineFrame(o)>>
                      /\ Undoes(f, OperatorEvent("operator_offline", o))
                      /\ e # OperatorEvent("operator_offline", o)
  PROVE  Spares(f, Send(<<e>>, undo, throws))
  <1>1. PICK events : events = <<e>>
    OBVIOUS
  <1>2. events \in Seq(Event) /\ DOMAIN events = {1} /\ events[1] = e
    BY <1>1
  <1>3. \A i, j \in DOMAIN events : i < j /\ events[i] = events[j] => IsNotice(events[i])
    BY <1>2
  <1>4. \A i \in DOMAIN events : IsNotice(events[i]) \/ Sends(f, events[i])
    BY <1>2
  <1>5. Spares(f, Send(events, undo, throws))
    BY <1>2, <1>3, <1>4, SendSpares
  <1> QED BY <1>1, <1>5

\* Events by their parts.
LEMMA EventsMade ==
  /\ \A ch \in Chat : ChatEvent("chat_created", ch) \in Event /\ ChatEvent("chat_closed", ch) \in Event
  /\ \A o \in Operator : /\ OperatorEvent("operator_online", o) \in Event
                         /\ OperatorEvent("operator_offline", o) \in Event
  /\ \A ch \in Chat, o \in Operator, k \in {"operator_accept_chat", "chat_assigned",
                                            "chat_transferred", "force_transfer"} :
       AssignedEvent(k, ch, o) \in Event
  /\ \A c \in Client, o \in Operator :
       [event |-> "lawyer_assigned", client |-> c, lawyer |-> o] \in Event
  BY DEF Event, ChatEvent, OperatorEvent, AssignedEvent

\* Frames of one method that pass what they stand for on to the next.
LEMMA PassedOn ==
  ASSUME NEW f, NEW g
  PROVE  /\ f.do \in AssignFrames /\ g.do \in AssignFrames /\ g.chat = f.chat
              /\ g.operator = f.operator => Within(g, f)
         /\ f.do \in TransferFrames /\ g.do \in TransferFrames /\ g.chat = f.chat
              /\ g.operator = f.operator => Within(g, f)
         /\ f.do \in CloseFrames /\ g.do \in CloseFrames /\ g.chat = f.chat => Within(g, f)
         /\ f.do \in LawyerSenders /\ g.do \in LawyerSenders /\ g.client = f.client
              /\ g.lawyer = f.lawyer => Within(g, f)
  BY DEF Within, Sends, Undoes, AssignFrames, TransferFrames, CloseFrames, LawyerSenders

LEMMA SilentDos ==
  /\ \A f : f.do \in Methods \cup {"io", "joinQueue", "rollback", "managerRelease", "markLeft",
                                   "lawyerChat"} => Silent(f)
  BY DEF Silent, Senders, AssignFrames, TransferFrames, CloseFrames, LawyerSenders, Methods

\* The end points of operators and clients that go on and off line.
LEMMA OnlineSpares ==
  ASSUME EventsInv, NEW t \in Task,
         ManagerOnline(t) \/ ManagerOffline(t) \/ Connect(t) \/ JoinQueue(t)
  PROVE  SparesStep(t)
  <1> DEFINE f == Top(t)
  <1>0. /\ Scheduled(t) /\ Busy(t) /\ f.do \in ManagerMethods
    BY DEF ManagerOnline, ManagerOffline, Connect, JoinQueue, Runs, Scheduled, ManagerMethods
  <1>1. f \in AssignmentFrame
    BY <1>0, EventsHosts, HostTop DEF EventsInv, StorageInv
  <1>2. ASSUME NEW s, Continue(t, s), Spares(f, s) PROVE SparesStep(t)
    BY <1>0, <1>2 DEF SparesStep, Continue, Replaces
  <1> HIDE DEF f
  <1>3. CASE ManagerOnline(t)
    <2> DEFINE a == [do |-> "online", operator |-> f.operator, type |-> Role[f.operator]]
               e == OperatorEvent("operator_online", f.operator)
               undo == IF f.session THEN <<OfflineFrame(f.operator)>> ELSE <<>>
    <2>1. Continue(t, <<a>> \o Send(<<e>>, undo, TRUE)) /\ f.do = "goOnline"
      BY <1>3 DEF ManagerOnline, Passes, Runs, f
    <2>2. f.operator \in Operator /\ f.session \in BOOLEAN
      BY <1>1, <2>1, HostArguments
    <2>3. e \in Event /\ Sends(f, e)
      BY <2>1, <2>2, EventsMade DEF Sends
    <2>4. CASE f.session
      <3>1. undo = <<OfflineFrame(f.operator)>>
        BY <2>4
      <3>2. /\ Undoes(f, OperatorEvent("operator_offline", f.operator))
            /\ e # OperatorEvent("operator_offline", f.operator)
        BY <2>1, <2>4 DEF Undoes, OperatorEvent
      <3> HIDE DEF e, undo, a
      <3>3. Spares(f, Send(<<e>>, undo, TRUE))
        BY <2>3, <3>1, <3>2, OneEventSpares
      <3>4. Mute(<<a>>)
        BY SilentDos, ShortQuiet DEF a, Methods
      <3> QED BY <1>2, <2>1, <3>3, <3>4, SparesConcat
    <2>5. CASE ~f.session
      <3>1. undo \in NoUndo
        BY <2>5 DEF NoUndo
      <3> HIDE DEF e, undo, a
      <3>3. Spares(f, Send(<<e>>, undo, TRUE))
        BY <2>3, <3>1, OneEventSpares
      <3>4. Mute(<<a>>)
        BY SilentDos, ShortQuiet DEF a, Methods
      <3> QED BY <1>2, <2>1, <3>3, <3>4, SparesConcat
    <2> QED BY <2>2, <2>4, <2>5
  <1>4. CASE ManagerOffline(t)
    <2> DEFINE a == [do |-> "offline", operator |-> f.operator]
               e == OperatorEvent("operator_offline", f.operator)
    <2>1. /\ Continue(t, <<>>) \/ Continue(t, <<a>> \o Send(<<e>>, <<>>, TRUE))
          /\ f.do = "goOffline"
      BY <1>4 DEF ManagerOffline, Passes, Runs, f
    <2>2. f.operator \in Operator
      BY <1>1, <2>1, HostArguments
    <2>3. e \in Event /\ Sends(f, e)
      BY <2>1, <2>2, EventsMade DEF Sends
    <2>4. <<>> \in NoUndo
      BY DEF NoUndo
    <2> HIDE DEF e, a
    <2>5. Spares(f, Send(<<e>>, <<>>, TRUE))
      BY <2>3, <2>4, OneEventSpares
    <2>6. Mute(<<a>>)
      BY SilentDos, ShortQuiet DEF a, Methods
    <2> QED BY <1>2, <2>1, <2>5, <2>6, SparesConcat, ShortQuiet, QuietSpares
  <1>5. CASE Connect(t)
    <2> DEFINE own == Own(f.chat)
               g == [do |-> "goOnline", operator |-> own, session |-> TRUE]
               j == [do |-> "joinQueue", chat |-> f.chat]
    <2>1. /\ Continue(t, <<Io, j>>) \/ Continue(t, <<g>> \o <<Io, j>>)
          /\ f.do = "connect"
      BY <1>5 DEF Connect, Passes, Runs, f, Own
    <2>2. \A e : /\ Sends(g, e) => e = OperatorEvent("operator_online", own)
                 /\ Undoes(g, e) => e = OperatorEvent("operator_offline", own)
      BY DEF Sends, Undoes, AssignFrames, TransferFrames, CloseFrames, LawyerSenders
    <2>3. g.do = "goOnline"
      OBVIOUS
    <2>4. Within(g, f)
      <3> HIDE DEF g
      <3> QED BY <2>1, <2>2, <2>3 DEF Within, Sends, Undoes
    <2>5. Silent(Io) /\ Silent(j)
      BY SilentDos DEF Io
    <2> HIDE DEF g, j, own
    <2>6. Mute(<<Io, j>>) /\ Spares(f, <<g>>)
      BY <2>4, <2>5, ShortQuiet, OneSpares
    <2> QED BY <1>2, <2>1, <2>6, SparesConcat, QuietSpares
  <1>6. CASE JoinQueue(t)
    <2> DEFINE a == [do |-> "add", client |-> ClientOf[f.chat], chat |-> f.chat]
    <2>1. Continue(t, <<>>) \/ Continue(t, <<a>>)
      BY <1>6 DEF JoinQueue, Passes, f
    <2>2. Silent(a)
      BY SilentDos DEF Methods
    <2> HIDE DEF a
    <2> QED BY <1>2, <2>1, <2>2, ShortQuiet, QuietSpares
  <1> QED BY <1>3, <1>4, <1>5, <1>6

\* The end points that name a chat, an operator or a client.
LEMMA CallsSpare ==
  ASSUME EventsInv, NEW t \in Task,
         \/ AcceptChat(t) \/ OperatorTransfer(t) \/ AdminTransfer(t)
         \/ OperatorClose(t) \/ AdminClose(t) \/ CloseChat(t)
         \/ OperatorLawyer(t) \/ AdminLawyer(t) \/ ReadLawyer(t)
  PROVE  SparesStep(t)
  <1> DEFINE f == Top(t)
  <1>0. /\ Scheduled(t) /\ Busy(t) /\ f.do \in ManagerMethods
    BY DEF AcceptChat, OperatorTransfer, AdminTransfer, OperatorClose, AdminClose, CloseChat,
       OperatorLawyer, AdminLawyer, ReadLawyer, Runs, Scheduled, ManagerMethods
  <1>1. f \in AssignmentFrame
    BY <1>0, EventsHosts, HostTop DEF EventsInv, StorageInv
  <1>2. ASSUME NEW s, Continue(t, s), Spares(f, s) PROVE SparesStep(t)
    BY <1>0, <1>2 DEF SparesStep, Continue, Replaces
  <1>3. Spares(f, <<>>) /\ Silent(Io)
    BY ShortQuiet, QuietSpares, SilentDos DEF Io
  <1> HIDE DEF f
  <1>4. CASE AcceptChat(t)
    <2> DEFINE g == [do |-> "managerAssign", manager |-> "chat", chat |-> f.chat,
                     operator |-> f.operator]
    <2>1. (Continue(t, <<>>) \/ Continue(t, <<g>>)) /\ f.do = "accept"
      BY <1>4 DEF AcceptChat, Passes, Runs, f
    <2>2. Within(g, f)
      BY <2>1, PassedOn DEF AssignFrames
    <2> HIDE DEF g
    <2> QED BY <1>2, <1>3, <2>1, <2>2, OneSpares
  <1>5. CASE OperatorTransfer(t)
    <2> DEFINE g == [do |-> "managerTransfer", manager |-> "chat", chat |-> f.chat,
                     operator |-> f.operator, forced |-> FALSE]
    <2>1. (Continue(t, <<>>) \/ Continue(t, <<g>>)) /\ f.do = "operatorTransfer"
      BY <1>5 DEF OperatorTransfer, Passes, Runs, f
    <2>2. Within(g, f)
      BY <2>1, PassedOn DEF TransferFrames
    <2> HIDE DEF g
    <2> QED BY <1>2, <1>3, <2>1, <2>2, OneSpares
  <1>6. CASE AdminTransfer(t)
    <2> DEFINE g == [do |-> "managerTransfer", manager |-> "admin", chat |-> f.chat,
                     operator |-> f.operator, forced |-> TRUE]
    <2>1. (Continue(t, <<>>) \/ Continue(t, <<g>>)) /\ f.do = "adminTransfer"
      BY <1>6 DEF AdminTransfer, Passes, Runs, f
    <2>2. Within(g, f)
      BY <2>1, PassedOn DEF TransferFrames
    <2> HIDE DEF g
    <2> QED BY <1>2, <1>3, <2>1, <2>2, OneSpares
  <1>7. CASE OperatorClose(t) \/ AdminClose(t)
    <2>1. PICK b : Continue(t, <<Io, [do |-> "closeChat", chat |-> f.chat, release |-> b]>>)
      BY <1>7 DEF OperatorClose, AdminClose, Passes, f
    <2> DEFINE g == [do |-> "closeChat", chat |-> f.chat, release |-> b]
    <2>2. f.do \in {"operatorClose", "adminClose"}
      BY <1>7 DEF OperatorClose, AdminClose, Runs, f
    <2>3. Within(g, f)
      BY <2>2, PassedOn DEF CloseFrames
    <2>4. Continue(t, <<Io, g>>)
      BY <2>1
    <2> HIDE DEF g
    <2> QED BY <1>2, <1>3, <2>3, <2>4, OneSpares
  <1>8. CASE CloseChat(t)
    <2> DEFINE r == IF f.release THEN <<[do |-> "managerRelease", chat |-> f.chat]>> ELSE <<>>
               e == ChatEvent("chat_closed", f.chat)
    <2>1. /\ Continue(t, <<>>) \/ Continue(t, r \o Send(<<e>>, <<>>, FALSE))
          /\ f.do = "closeChat"
      BY <1>8 DEF CloseChat, Runs, f
    <2>2. Mute(r)
      BY SilentDos, ShortQuiet
    <2>3. f.chat \in Chat
      BY <1>1, <2>1, HostArguments
    <2>4. e \in Event /\ Sends(f, e) /\ <<>> \in NoUndo
      BY <2>1, <2>3, EventsMade DEF Sends, CloseFrames, NoUndo
    <2> HIDE DEF r, e
    <2>5. Spares(f, Send(<<e>>, <<>>, FALSE))
      BY <2>4, OneEventSpares
    <2> QED BY <1>2, <1>3, <2>1, <2>2, <2>5, SparesConcat
  <1>9. CASE OperatorLawyer(t) \/ AdminLawyer(t) \/ ReadLawyer(t)
    <2> DEFINE g(m) == [do |-> "managerLawyer", manager |-> m, client |-> f.client,
                        lawyer |-> f.lawyer]
               r == [do |-> "readLawyer", client |-> f.client, lawyer |-> f.lawyer]
    <2>1. \/ Continue(t, <<>>) \/ Continue(t, <<g("chat")>>) \/ Continue(t, <<g("admin")>>)
          \/ Continue(t, <<Io, r>>)
      BY <1>9 DEF OperatorLawyer, AdminLawyer, ReadLawyer, Passes, f
    <2>2. f.do \in LawyerSenders
      BY <1>9 DEF OperatorLawyer, AdminLawyer, ReadLawyer, Runs, f, LawyerSenders
    <2>3. Within(r, f) /\ \A m : Within(g(m), f)
      BY <2>2, PassedOn DEF LawyerSenders
    <2> HIDE DEF g, r
    <2> QED BY <1>2, <1>3, <2>1, <2>3, OneSpares
  <1> QED BY <1>4, <1>5, <1>6, <1>7, <1>8, <1>9

\* The methods of the managers.
LEMMA MethodsSpare ==
  ASSUME EventsInv, NEW t \in Task,
         \/ ManagerAssign(t) \/ StoreAssignment(t) \/ UpdateChatOperator(t)
         \/ AddChatParticipant(t) \/ RollBack(t)
         \/ ManagerRelease(t) \/ MarkChatParticipantLeft(t)
         \/ ManagerTransfer(t) \/ StoreTransfer(t) \/ TransferStoredChat(t)
         \/ ManagerLawyer(t) \/ CreateLawyerChat(t) \/ CreateLawyerAssignment(t)
  PROVE  SparesStep(t)
  <1> DEFINE f == Top(t)
  <1>0. /\ Scheduled(t) /\ Busy(t) /\ f.do \in ManagerMethods
    BY DEF ManagerAssign, StoreAssignment, UpdateChatOperator, AddChatParticipant, RollBack,
       ManagerRelease, MarkChatParticipantLeft, ManagerTransfer, StoreTransfer,
       TransferStoredChat, ManagerLawyer, CreateLawyerChat, CreateLawyerAssignment, Runs,
       Scheduled, ManagerMethods
  <1>1. f \in AssignmentFrame
    BY <1>0, EventsHosts, HostTop DEF EventsInv, StorageInv
  <1>2. ASSUME NEW s, Continue(t, s), Spares(f, s) PROVE SparesStep(t)
    BY <1>0, <1>2 DEF SparesStep, Continue, Replaces
  <1>3. Spares(f, <<>>) /\ Silent(Io) /\ <<>> \in NoUndo
    BY ShortQuiet, QuietSpares, SilentDos DEF Io, NoUndo
  <1>4. \A m : Mute(<<LeaveFrame(m)>>)
    BY SilentDos, ShortQuiet DEF LeaveFrame, Methods
  <1>5. ASSUME NEW m, NEW s, Enters(t, m, s), Spares(f, s) PROVE SparesStep(t)
    BY <1>2, <1>4, <1>5, SparesConcat DEF Enters
  <1>6. \A ch : Silent(RollbackFrame(ch))
    BY SilentDos DEF RollbackFrame
  <1> HIDE DEF f
  <1>7. CASE ManagerAssign(t)
    <2> DEFINE a == [do |-> "assign", chat |-> f.chat, operator |-> f.operator,
                     client |-> ClientOf[f.chat]]
               g == [do |-> "storeAssignment", chat |-> f.chat, operator |-> f.operator]
    <2>1. /\ Enters(t, f.manager, <<>>) \/ Enters(t, f.manager, <<a, g>>)
          /\ f.do = "managerAssign"
      BY <1>7 DEF ManagerAssign, Runs, f
    <2>2. Within(g, f) /\ Silent(a)
      BY <2>1, PassedOn, SilentDos DEF AssignFrames, Methods
    <2> HIDE DEF a, g
    <2> QED BY <1>3, <1>5, <2>1, <2>2, OneSpares
  <1>8. CASE StoreAssignment(t)
    <2> DEFINE g == [do |-> "updateChat", chat |-> f.chat, operator |-> f.operator]
    <2>1. /\ Continue(t, <<>>) \/ Continue(t, <<Io, g>>)
          /\ f.do = "storeAssignment"
      BY <1>8 DEF StoreAssignment, Passes, Runs, f
    <2>2. Within(g, f)
      BY <2>1, PassedOn DEF AssignFrames
    <2> HIDE DEF g
    <2> QED BY <1>2, <1>3, <2>1, <2>2, OneSpares
  <1>9. CASE UpdateChatOperator(t)
    <2> DEFINE g == [do |-> "addParticipant", chat |-> f.chat, operator |-> f.operator]
    <2>1. /\ Continue(t, <<RollbackFrame(f.chat)>>) \/ Continue(t, <<Io, g>>)
          /\ f.do = "updateChat"
      BY <1>9 DEF UpdateChatOperator, Runs, f
    <2>2. Within(g, f)
      BY <2>1, PassedOn DEF AssignFrames
    <2> HIDE DEF g
    <2> QED BY <1>2, <1>3, <1>6, <2>1, <2>2, OneSpares, ShortQuiet, QuietSpares
  <1>10. CASE AddChatParticipant(t)
    <2> DEFINE n == AssignedEvent("chat_assigned", f.chat, f.operator)
               e == AssignedEvent("operator_accept_chat", f.chat, f.operator)
               undo == <<RollbackFrame(f.chat)>>
    <2>1. /\ Continue(t, undo) \/ Continue(t, Send(<<n, e>>, undo, FALSE))
          /\ f.do = "addParticipant"
      BY <1>10 DEF AddChatParticipant, Runs, f
    <2>2. f.chat \in Chat /\ f.operator \in Operator
      BY <1>1, <2>1, HostArguments
    <2>3. n \in Event /\ e \in Event /\ IsNotice(n) /\ Sends(f, e) /\ undo \in NoUndo
      <3>1. n \in Event /\ e \in Event
        BY <2>2, EventsMade
      <3> QED BY <2>1, <2>2, <3>1 DEF IsNotice, AssignedEvent, Sends, AssignFrames, NoUndo
    <2>4. Spares(f, undo)
      BY <1>6, ShortQuiet, QuietSpares
    <2> HIDE DEF n, e, undo
    <2>5. PICK events : events = <<n, e>>
      OBVIOUS
    <2>6. /\ events \in Seq(Event) /\ DOMAIN events = {1, 2}
          /\ events[1] = n /\ events[2] = e
      BY <2>3, <2>5
    <2>7. Spares(f, Send(events, undo, FALSE))
      <3>1. \A i, j \in DOMAIN events : i < j => i = 1
        BY <2>6
      <3>2. \A i \in DOMAIN events : IsNotice(events[i]) \/ Sends(f, events[i])
        BY <2>3, <2>6
      <3>3. \A i, j \in DOMAIN events : i < j /\ events[i] = events[j] => IsNotice(events[i])
        BY <2>3, <2>6, <3>1
      <3> QED BY <2>3, <2>6, <3>2, <3>3, SendSpares
    <2> QED BY <1>2, <2>1, <2>4, <2>5, <2>7
  <1>11. CASE RollBack(t)
    <2> DEFINE g == [do |-> "release", chat |-> f.chat]
    <2>1. Continue(t, <<g>>)
      BY <1>11 DEF RollBack, Passes, f
    <2>2. Silent(g)
      BY SilentDos DEF Methods
    <2> HIDE DEF g
    <2> QED BY <1>2, <2>1, <2>2, ShortQuiet, QuietSpares
  <1>12. CASE ManagerRelease(t)
    <2> DEFINE g == [do |-> "release", chat |-> f.chat]
               h == [do |-> "markLeft", chat |-> f.chat, operator |-> chat_assignments[f.chat]]
    <2>1. Continue(t, <<>>) \/ Continue(t, <<g, Io, h>>)
      BY <1>12 DEF ManagerRelease, Passes, f
    <2>2. Silent(g) /\ Silent(h)
      BY SilentDos DEF Methods
    <2> HIDE DEF g, h
    <2> QED BY <1>2, <1>3, <2>1, <2>2, ShortQuiet, QuietSpares
  <1>13. CASE MarkChatParticipantLeft(t)
    BY <1>2, <1>3, <1>13 DEF MarkChatParticipantLeft
  <1>14. CASE ManagerTransfer(t)
    <2> DEFINE a == [do |-> "transfer", chat |-> f.chat, operator |-> f.operator]
               g == [do |-> "storeTransfer", chat |-> f.chat, operator |-> f.operator,
                     forced |-> f.forced]
    <2>1. /\ Enters(t, f.manager, <<>>) \/ Enters(t, f.manager, <<a, g>>)
          /\ f.do = "managerTransfer"
      BY <1>14 DEF ManagerTransfer, Runs, f
    <2>2. Within(g, f) /\ Silent(a)
      BY <2>1, PassedOn, SilentDos DEF TransferFrames, Methods
    <2> HIDE DEF a, g
    <2> QED BY <1>3, <1>5, <2>1, <2>2, OneSpares
  <1>15. CASE StoreTransfer(t)
    <2> DEFINE g == [f EXCEPT !.do = "transferStored"]
    <2>1. /\ Continue(t, <<>>) \/ Continue(t, <<Io, g>>)
          /\ f.do = "storeTransfer"
      BY <1>15 DEF StoreTransfer, Passes, Runs, f
    <2>2. f \in [do : {"storeTransfer"}, chat : Chat, operator : Operator, forced : BOOLEAN]
      BY <1>1, <2>1, HostArguments
    <2>3. g.do = "transferStored" /\ g.chat = f.chat /\ g.operator = f.operator
      BY <2>2
    <2> HIDE DEF g
    <2>4. Within(g, f)
      BY <2>1, <2>3, PassedOn DEF TransferFrames
    <2> QED BY <1>2, <1>3, <2>1, <2>4, OneSpares
  <1>16. CASE TransferStoredChat(t)
    <2> DEFINE n == AssignedEvent("chat_transferred", f.chat, f.operator)
               e == AssignedEvent("force_transfer", f.chat, f.operator)
               events == <<n>> \o (IF f.forced THEN <<e>> ELSE <<>>)
    <2>1. /\ Continue(t, <<>>) \/ Continue(t, <<Io>> \o Send(events, <<>>, FALSE))
          /\ f.do = "transferStored"
      BY <1>16 DEF TransferStoredChat, Runs, f
    <2>2. f.chat \in Chat /\ f.operator \in Operator /\ f.forced \in BOOLEAN
      BY <1>1, <2>1, HostArguments
    <2>3. n \in Event /\ e \in Event /\ IsNotice(n) /\ Sends(f, e)
      <3>1. n \in Event /\ e \in Event
        BY <2>2, EventsMade
      <3> QED BY <2>1, <2>2, <3>1 DEF IsNotice, AssignedEvent, Sends, TransferFrames
    <2> HIDE DEF n, e
    <2>4. /\ events \in Seq(Event) /\ DOMAIN events \in {{1}, {1, 2}}
          /\ events[1] = n /\ (2 \in DOMAIN events => events[2] = e)
      <3>1. CASE f.forced
        <4>1. events = <<n>> \o <<e>>
          BY <3>1
        <4>2. PICK one, two : one = <<n>> /\ two = <<e>>
          OBVIOUS
        <4>3. /\ one \in Seq(Event) /\ two \in Seq(Event) /\ Len(one) = 1 /\ Len(two) = 1
              /\ one[1] = n /\ two[1] = e
          BY <2>3, <4>2
        <4>4. PICK k \in Nat, l \in Nat : k = 1 /\ l = k + 1
          OBVIOUS
        <4>5. /\ events \in Seq(Event) /\ Len(events) = l
              /\ \A i \in 1..l : events[i] = IF i <= k THEN one[i] ELSE two[i - k]
          BY <4>1, <4>2, <4>3, <4>4, ConcatProperties
        <4>6. DOMAIN events = {1, 2} /\ events[1] = n /\ events[2] = e
          BY <4>3, <4>4, <4>5, LenProperties
        <4> QED BY <4>5, <4>6
      <3>2. CASE ~f.forced
        <4>1. events = <<n>>
          BY <3>2
        <4> QED BY <2>3, <4>1
      <3> QED BY <2>2, <3>1, <3>2
    <2> HIDE DEF events
    <2>5. Spares(f, Send(events, <<>>, FALSE))
      <3>1. \A i, j \in DOMAIN events : i < j => i = 1
        BY <2>4
      <3>2. \A i \in DOMAIN events : IsNotice(events[i]) \/ Sends(f, events[i])
        BY <2>3, <2>4
      <3>3. \A i, j \in DOMAIN events : i < j /\ events[i] = events[j] => IsNotice(events[i])
        BY <2>3, <2>4, <3>1
      <3> QED BY <1>3, <2>4, <3>2, <3>3, SendSpares
    <2>6. Mute(<<Io>>)
      BY <1>3, ShortQuiet
    <2> QED BY <1>2, <1>3, <2>1, <2>5, <2>6, SparesConcat
  <1>17. CASE ManagerLawyer(t)
    <2> DEFINE a == [do |-> "register", operator |-> f.lawyer, type |-> "lawyer"]
               g == [do |-> "createLawyerChat", manager |-> f.manager,
                     client |-> f.client, lawyer |-> f.lawyer]
    <2>1. /\ Enters(t, f.manager, <<Io, g>>) \/ Enters(t, f.manager, <<a>> \o <<Io, g>>)
          /\ f.do = "managerLawyer"
      BY <1>17 DEF ManagerLawyer, Runs, f
    <2>2. Within(g, f) /\ Silent(a)
      BY <2>1, PassedOn, SilentDos DEF LawyerSenders, Methods
    <2> HIDE DEF a, g
    <2>3. Spares(f, <<Io, g>>) /\ Mute(<<a>>)
      BY <1>3, <2>2, OneSpares, ShortQuiet
    <2> QED BY <1>5, <2>1, <2>3, SparesConcat
  <1>18. CASE CreateLawyerChat(t)
    <2> DEFINE g == [do |-> "storeLawyer", manager |-> f.manager,
                     client |-> f.client, lawyer |-> f.lawyer]
    <2>1. /\ Continue(t, <<>>) \/ Continue(t, <<Io, g>>)
          /\ f.do = "createLawyerChat"
      BY <1>18 DEF CreateLawyerChat, Runs, f
    <2>2. Within(g, f)
      BY <2>1, PassedOn DEF LawyerSenders
    <2> HIDE DEF g
    <2> QED BY <1>2, <1>3, <2>1, <2>2, OneSpares
  <1>19. CASE CreateLawyerAssignment(t)
    <2> DEFINE e == [event |-> "lawyer_assigned", client |-> f.client, lawyer |-> f.lawyer]
    <2>1. /\ Continue(t, <<>>) \/ Continue(t, Send(<<e>>, <<>>, FALSE))
          /\ f.do = "storeLawyer"
      BY <1>19 DEF CreateLawyerAssignment, Runs, f
    <2>2. f.client \in Client /\ f.lawyer \in Operator
      BY <1>1, <2>1, HostArguments
    <2>3. e \in Event /\ Sends(f, e)
      BY <2>1, <2>2, EventsMade DEF Sends, LawyerSenders
    <2> HIDE DEF e
    <2> QED BY <1>2, <1>3, <2>1, <2>3, OneEventSpares
  <1> QED BY <1>7, <1>8, <1>9, <1>10, <1>11, <1>12, <1>13, <1>14, <1>15, <1>16, <1>17, <1>18,
          <1>19

\* A step of the queue manager or of the managers.
LEMMA TasksSpare ==
  ASSUME EventsInv, NEW t \in Task, QueueStep(t) \/ ManagerStep(t)
  PROVE  SparesStep(t)
  <1>0. HostSet(EventsFrame) /\ FrameSet(EventsFrame) /\ TypedIn(EventsFrame)
    BY EventsHosts DEF HostSet, EventsInv, StorageInv
  <1>1. CASE QueueStep(t)
    <2>1. ASSUME NEW s \in Seq(Frame), Replaces(t, s), Busy(t) PROVE SparesStep(t)
      <3>1. s \in [1..Len(s) -> Frame]
        BY LenProperties
      <3>2. \A i \in DOMAIN s : Silent(s[i])
        BY <3>1, OnlyMethods, SilentDos
      <3>3. Mute(s)
        BY <3>2 DEF Mute, IsSequence
      <3> QED BY <2>1, <3>3, QuietSpares DEF SparesStep
    <2>2. CASE WaitForLock(t)
      BY <2>2 DEF WaitForLock, Wait, SparesStep
    <2>3. CASE LockStep(t)
      <3>1. Busy(t)
        BY <2>3 DEF LockStep, Scheduled
      <3>2. CASE \E s \in Seq(Frame) : Plain(t, s)
        BY <2>1, <3>1, <3>2 DEF Plain, Keeps
      <3>3. CASE \E s \in Seq(Frame), l \in Lock : TakesLock(t, l, s)
        <4>1. PICK s \in Seq(Frame), l \in Lock : TakesLock(t, l, s)
          BY <3>3
        <4>2. Append(s, LeaveFrame(l)) \in Seq(Frame)
          BY FramesMade, AppendProperties
        <4> QED BY <2>1, <3>1, <4>1, <4>2 DEF TakesLock, Opens
      <3>4. CASE \E l \in Lock : LeaveBlock(t, l)
        <4>1. Continue(t, <<>>) /\ <<>> \in Seq(Frame)
          BY <3>4 DEF LeaveBlock
        <4> QED BY <2>1, <3>1, <4>1 DEF Continue, Replaces
      <3> QED BY <2>3, <3>2, <3>3, <3>4 DEF LockStep
    <2> QED BY <1>0, <1>1, <2>2, <2>3, StepShape DEF QueueStep
  <1>2. CASE AwaitDatabase(t)
    <2>1. Busy(t) /\ stack[t] \in Seq(EventsFrame)
      BY <1>0, <1>2 DEF AwaitDatabase, Runs, Scheduled, TypedIn
    <2>2. Continue(t, <<>>) \/ stack' = [stack EXCEPT ![t] = Tail(@)]
      BY <1>2 DEF AwaitDatabase
    <2>3. <<>> \o Tail(stack[t]) = Tail(stack[t])
      BY <2>1, HeadTailProperties, EmptySeq, ConcatProperties DEF Busy
    <2>4. Replaces(t, <<>>)
      BY <2>2, <2>3 DEF Continue, Replaces
    <2> QED BY <2>1, <2>4, ShortQuiet, QuietSpares DEF SparesStep
  <1>3. CASE WaitForManager(t)
    BY <1>3 DEF WaitForManager, Wait, SparesStep
  <1> QED BY <1>1, <1>2, <1>3, OnlineSpares, CallsSpare, MethodsSpare DEF ManagerStep

\* A handler sends at most what it handles.
LEMMA HandlersSpare ==
  ASSUME EventsInv, NEW t \in Task, Handle(t)
  PROVE  SparesStep(t)
  <1> DEFINE f == Top(t)
             e == f.event
  <1>0. /\ HostSet(EventsFrame) /\ FrameSet(EventsFrame) /\ TypedIn(EventsFrame)
        /\ Busy(t) /\ f.do = "handle" /\ Continue(t, HandlerFrames(e))
    BY EventsHosts DEF HostSet, EventsInv, StorageInv, Handle, Passes, Runs, Scheduled
  <1>1. e \in Event /\ ~IsNotice(e)
    BY <1>0, TopType, StackDomain, EventsArguments DEF EventsInv, ReadableHandled, Readable
  <1>2. Sends(f, e)
    BY <1>0 DEF Sends
  <1>3. ASSUME Spares(f, HandlerFrames(e)) PROVE SparesStep(t)
    BY <1>0, <1>3 DEF SparesStep, Continue, Replaces
  <1>4. Silent(Io)
    BY SilentDos DEF Io
  <1> HIDE DEF f
  \* A frame that sends nothing but the event it is there for.
  <1>5. ASSUME NEW g, g.do # "send", \A d \in Event : ~Undoes(g, d) /\ (Sends(g, d) => d = e)
        PROVE  Within(g, f)
    BY <1>2, <1>5 DEF Within
  <1> HIDE DEF e
  <1>6. CASE e.event = "chat_created"
    <2> DEFINE a == [do |-> "add", client |-> ClientOf[e.chat], chat |-> e.chat]
    <2>1. HandlerFrames(e) = <<a, Io>> /\ Silent(a)
      BY <1>6, SilentDos DEF HandlerFrames, Methods
    <2> HIDE DEF a
    <2> QED BY <1>3, <1>4, <2>1, ShortQuiet, QuietSpares
  <1>7. CASE e.event = "chat_closed"
    <2> DEFINE a == [do |-> "managerRelease", chat |-> e.chat]
    <2>1. HandlerFrames(e) = <<Io, a>> /\ Silent(a)
      BY <1>7, SilentDos DEF HandlerFrames
    <2> HIDE DEF a
    <2> QED BY <1>3, <1>4, <2>1, ShortQuiet, QuietSpares
  <1>8. CASE e.event = "operator_online"
    <2> DEFINE a == [do |-> "goOnline", operator |-> e.operator, session |-> FALSE]
    <2>1. HandlerFrames(e) = <<a>>
      BY <1>8 DEF HandlerFrames
    <2>2. e = OperatorEvent("operator_online", e.operator)
      BY <1>1, <1>8 DEF Event, OperatorEvent
    <2>3. /\ \A d : ~Undoes(a, d)
          /\ \A d : Sends(a, d) => d = OperatorEvent("operator_online", e.operator)
          /\ a.do # "send"
      BY DEF Sends, Undoes, AssignFrames, TransferFrames, CloseFrames, LawyerSenders
    <2> HIDE DEF a
    <2>4. Within(a, f)
      BY <1>5, <2>2, <2>3
    <2> QED BY <1>3, <2>1, <2>4, OneSpares
  <1>9. CASE e.event = "operator_offline"
    <2> DEFINE a == OfflineFrame(e.operator)
    <2>1. HandlerFrames(e) = <<a>>
      BY <1>9 DEF HandlerFrames
    <2>2. e = OperatorEvent("operator_offline", e.operator)
      BY <1>1, <1>9 DEF Event, OperatorEvent
    <2>3. /\ \A d : ~Undoes(a, d)
          /\ \A d : Sends(a, d) => d = OperatorEvent("operator_offline", e.operator)
          /\ a.do # "send"
      BY DEF OfflineFrame, Sends, Undoes, AssignFrames, TransferFrames, CloseFrames, LawyerSenders
    <2> HIDE DEF a
    <2>4. Within(a, f)
      BY <1>5, <2>2, <2>3
    <2> QED BY <1>3, <2>1, <2>4, OneSpares
  <1>10. CASE e.event = "operator_accept_chat"
    <2> DEFINE a == [do |-> "managerAssign", manager |-> "events", chat |-> e.chat,
                     operator |-> e.operator]
    <2>1. HandlerFrames(e) = <<a>>
      BY <1>10 DEF HandlerFrames
    <2>2. e = AssignedEvent("operator_accept_chat", e.chat, e.operator)
      BY <1>1, <1>10 DEF Event, AssignedEvent
    <2>3. /\ \A d : ~Undoes(a, d)
          /\ \A d : Sends(a, d) => d = AssignedEvent("operator_accept_chat", e.chat, e.operator)
          /\ a.do # "send"
      BY DEF Sends, Undoes, AssignFrames, TransferFrames, CloseFrames, LawyerSenders
    <2> HIDE DEF a
    <2>4. Within(a, f)
      BY <1>5, <2>2, <2>3
    <2> QED BY <1>3, <2>1, <2>4, OneSpares
  <1>11. CASE e.event = "force_transfer"
    <2> DEFINE a == [do |-> "managerTransfer", manager |-> "events", chat |-> e.chat,
                     operator |-> e.operator, forced |-> TRUE]
    <2>1. HandlerFrames(e) = <<a>>
      BY <1>11 DEF HandlerFrames, ForceFrames
    <2>2. e = AssignedEvent("force_transfer", e.chat, e.operator)
      BY <1>1, <1>11 DEF Event, AssignedEvent
    <2>3. /\ \A d : ~Undoes(a, d)
          /\ \A d : Sends(a, d) => d = AssignedEvent("force_transfer", e.chat, e.operator)
          /\ a.do # "send"
      BY DEF Sends, Undoes, AssignFrames, TransferFrames, CloseFrames, LawyerSenders
    <2> HIDE DEF a
    <2>4. Within(a, f)
      BY <1>5, <2>2, <2>3
    <2> QED BY <1>3, <2>1, <2>4, OneSpares
  <1>12. CASE e.event = "lawyer_assigned"
    <2> DEFINE a == [do |-> "lawyerChat", client |-> e.client, lawyer |-> e.lawyer]
    <2>1. HandlerFrames(e) = <<Io, a, Io>> /\ Silent(a)
      BY <1>12, SilentDos DEF HandlerFrames, LawyerFrames
    <2> HIDE DEF a
    <2> QED BY <1>3, <1>4, <2>1, ShortQuiet, QuietSpares
  <1> QED BY <1>1, <1>6, <1>7, <1>8, <1>9, <1>10, <1>11, <1>12, EventTopic

\* A new chat is announced, and then its client may go on line.
LEMMA OpenSpares ==
  ASSUME EventsInv, NEW t \in Task, OpenChat(t)
  PROVE  SparesStep(t)
  <1> DEFINE f == Top(t)
             own == Own(f.chat)
             e == ChatEvent("chat_created", f.chat)
             undo == IF own = NoOperator THEN <<>> ELSE <<OfflineFrame(own)>>
             b == Send(<<e>>, undo, TRUE)
             g == [do |-> "connect", chat |-> f.chat]
  <1>0. /\ HostSet(EventsFrame) /\ FrameSet(EventsFrame) /\ TypedIn(EventsFrame)
        /\ Busy(t) /\ f.do = "openChat" /\ Continue(t, b \o <<g>>)
    BY EventsHosts DEF HostSet, EventsInv, StorageInv, OpenChat, Passes, Runs, Scheduled, Own
  <1>1. f.chat \in Chat
    BY <1>0, TopType, EventsArguments
  <1>2. own \in Operator \cup {NoOperator}
    BY <1>1, SupportAssumption, ManagerAssumption DEF Own
  <1>3. e \in Event /\ Sends(f, e)
    BY <1>0, <1>1, EventsMade DEF Sends
  <1>4. /\ undo = <<>> \/ undo = <<OfflineFrame(own)>>
        /\ Undoes(f, OperatorEvent("operator_offline", own))
        /\ e # OperatorEvent("operator_offline", own)
    BY <1>0 DEF Undoes, ChatEvent, OperatorEvent
  <1>5. /\ g.do = "connect"
        /\ \A d : Sends(g, d) => d = OperatorEvent("operator_online", own)
        /\ \A d : Undoes(g, d) => d = OperatorEvent("operator_offline", own)
    BY DEF Sends, Undoes, AssignFrames, TransferFrames, CloseFrames, LawyerSenders
  <1>6. \A d : /\ d = OperatorEvent("operator_online", own) => Sends(f, d) /\ d # e
               /\ d = OperatorEvent("operator_offline", own) => Undoes(f, d) /\ d # e
    BY <1>0 DEF Sends, Undoes, ChatEvent, OperatorEvent
  <1> HIDE DEF e, g, undo, own, f
  <1>7. Spares(f, b) /\ Spares(f, <<g>>)
    <2>1. Spares(f, b)
      BY <1>3, <1>4, OneEventSpares DEF NoUndo
    <2>2. Within(g, f)
      BY <1>5, <1>6 DEF Within
    <2> QED BY <2>1, <2>2, OneSpares
  <1>8. PICK h : b = <<h>> /\ h.do = "send" /\ h.events = <<e>>
    BY EventsAssumption DEF Send
  <1>9. \A d : Sends(h, d) => d = e
    BY <1>8 DEF Sends, AssignFrames, TransferFrames, CloseFrames, LawyerSenders
  <1> HIDE DEF b
  <1>10. PICK one, s : one = <<g>> /\ s = b \o one
    OBVIOUS
  <1>11. PICK k \in Nat, l \in Nat : k = 1 /\ l = k + 1
    OBVIOUS
  <1>12. DOMAIN s = {k, l} /\ s[k] = h /\ s[l] = g /\ IsSequence(s)
    <2>1. IsSequence(b) /\ IsSequence(one)
      BY <1>7, <1>10 DEF Spares
    <2>2. Len(b) = k /\ Len(one) = k /\ b[k] = h /\ one[k] = g
      BY <1>8, <1>10, <1>11
    <2>3. /\ IsSequence(s) /\ DOMAIN s = 1..k + k
          /\ \A i \in 1..k : s[i] = b[i]
          /\ \A i \in k + 1..k + k : s[i] = one[i - k]
      BY <1>10, <2>1, <2>2, Concatenated
    <2>4. 1..k + k = {k, l} /\ k \in 1..k /\ l \in k + 1..k + k /\ l - k = k
      BY <1>11
    <2> QED BY <2>2, <2>3, <2>4
  <1>13. Within(h, f) /\ Within(g, f)
    BY <1>7, <1>8 DEF Spares
  <1>14. \A i, j \in DOMAIN s : i < j => i = k /\ j = l
    BY <1>11, <1>12
  <1>15. \A d \in Event : ~(Sends(h, d) /\ MaySend(g, d))
    BY <1>5, <1>6, <1>9 DEF MaySend
  <1>16. Spares(f, s)
    BY <1>12, <1>13, <1>14, <1>15 DEF Spares
  <1> QED BY <1>0, <1>10, <1>16 DEF SparesStep, Continue, Replaces, f

-----------------------------------------------------------------------------
(* An event is sent.                                                       *)

\* The event a frame sends next, and what is left of it.
LEMMA NextEvent ==
  ASSUME NEW f, f.events \in Seq(Event), f.events # <<>>
  PROVE  /\ Head(f.events) \in Event
         /\ Tail(f.events) \in Seq(Event)
         /\ \E n \in Nat :
              /\ DOMAIN f.events = 1..n + 1
              /\ DOMAIN Tail(f.events) = 1..n
              /\ f.events[1] = Head(f.events)
              /\ \A i \in 1..n : Tail(f.events)[i] = f.events[i + 1]
  <1> DEFINE rest == Tail(f.events)
  <1>1. PICK m \in Nat : m = Len(f.events) /\ DOMAIN f.events = 1..m /\ m # 0
    BY LenProperties, EmptySeq
  <1>2. PICK n \in Nat : m = n + 1
    <2>1. m - 1 \in Nat /\ m = (m - 1) + 1
      BY <1>1
    <2> QED BY <2>1
  <1>3. /\ Head(f.events) = f.events[1]
        /\ rest \in Seq(Event) /\ Len(rest) = n
        /\ \A i \in 1..n : rest[i] = f.events[i + 1]
    BY <1>1, <1>2, HeadTailProperties
  <1>4. f.events[1] \in Event
    <2>1. 1 \in 1..m
      BY <1>1
    <2> QED BY <1>1, <2>1
  <1> HIDE DEF rest
  <1>5. DOMAIN rest = 1..n
    BY <1>3, LenProperties
  <1> QED BY <1>1, <1>2, <1>3, <1>4, <1>5 DEF rest

\* What a frame that has sent its first event may still send.
LEMMA RestSpares ==
  ASSUME NEW f \in SendFrame, SendsOnce(f), f.events # <<>>,
         NEW rest, rest = Tail(f.events), NEW g, g = [f EXCEPT !.events = rest]
  PROVE  /\ Within(g, f)
         /\ ~IsNotice(Head(f.events)) => /\ Sends(f, Head(f.events))
                                         /\ ~MaySend(g, Head(f.events))
                                         /\ ~Undoes(f, Head(f.events))
  <1>1. /\ f.do = "send" /\ f.events \in Seq(Event)
        /\ g.do = "send" /\ g.events = rest /\ g.undo = f.undo /\ g.throws = f.throws
    BY DEF SendFrame
  <1>2. PICK n \in Nat : /\ DOMAIN f.events = 1..n + 1
                         /\ DOMAIN rest = 1..n
                         /\ f.events[1] = Head(f.events)
                         /\ \A i \in 1..n : rest[i] = f.events[i + 1]
    BY <1>1, NextEvent
  <1>3. /\ 1 \in 1..n + 1 /\ \A i \in 1..n : i + 1 \in 1..n + 1 /\ 1 < i + 1
        /\ \A i, j \in 1..n : i < j => i + 1 < j + 1
    OBVIOUS
  <1>4. /\ \A e : Sends(f, e) <=> ~IsNotice(e) /\ \E i \in 1..n + 1 : f.events[i] = e
        /\ \A e : Sends(g, e) <=> ~IsNotice(e) /\ \E i \in 1..n : rest[i] = e
    <2>1. \A h : h.do = "send" =>
            \A e : Sends(h, e) <=> ~IsNotice(e) /\ \E i \in DOMAIN h.events : h.events[i] = e
      BY DEF Sends, AssignFrames, TransferFrames, CloseFrames, LawyerSenders
    <2>2. DOMAIN f.events = 1..n + 1 /\ DOMAIN g.events = 1..n
      BY <1>1, <1>2
    <2>3. \A e : Sends(f, e) <=> ~IsNotice(e) /\ \E i \in 1..n + 1 : f.events[i] = e
      <3>1. f.do = "send"
        BY <1>1
      <3> QED BY <2>1, <2>2, <3>1
    <2>4. \A e : Sends(g, e) <=> ~IsNotice(e) /\ \E i \in 1..n : g.events[i] = e
      <3>1. g.do = "send"
        BY <1>1
      <3> QED BY <2>1, <2>2, <3>1
    <2> QED BY <1>1, <2>3, <2>4
  <1>5. \A e : Undoes(g, e) <=> Undoes(f, e)
    BY <1>1 DEF Undoes
  <1>6. \A e : Sends(g, e) => Sends(f, e)
    BY <1>2, <1>3, <1>4
  <1>7. Head(f.events) \in Event
    BY <1>1, NextEvent
  <1>8. \A i \in 1..n : rest[i] = Head(f.events) => IsNotice(Head(f.events))
    BY <1>2, <1>3 DEF SendsOnce
  <1>9. SendsOnce(g)
    <2>1. \A i, j \in 1..n : i < j /\ rest[i] = rest[j] => IsNotice(rest[i])
      BY <1>2, <1>3 DEF SendsOnce
    <2> QED BY <1>1, <1>2, <1>5, <1>6, <2>1 DEF SendsOnce
  <1>10. ASSUME ~IsNotice(Head(f.events))
         PROVE  /\ Sends(f, Head(f.events)) /\ ~Sends(g, Head(f.events))
                /\ ~Undoes(f, Head(f.events))
    <2>1. Sends(f, Head(f.events))
      BY <1>2, <1>3, <1>4, <1>10
    <2>2. ~Sends(g, Head(f.events))
      BY <1>4, <1>8, <1>10
    <2> QED BY <1>7, <2>1, <2>2 DEF SendsOnce
  <1> QED BY <1>5, <1>6, <1>9, <1>10 DEF Within, MaySend

\* The frames of undo: what they send is what they are there for.
LEMMA UndoSends ==
  ASSUME NEW f \in SendFrame, SendsOnce(f)
  PROVE  /\ IsSequence(f.undo)
         /\ DOMAIN f.undo \subseteq {1}
         /\ \A i \in DOMAIN f.undo : /\ f.undo[i].do # "send"
                                     /\ \A e : MaySend(f.undo[i], e) => Undoes(f, e)
         /\ ~f.throws => Mute(f.undo)
  <1>0. f.do = "send"
    BY DEF SendFrame
  <1>1. CASE f.undo = <<>>
    BY <1>1, ShortQuiet DEF Mute
  <1>2. CASE f.undo \in {<<RollbackFrame(ch)>> : ch \in Chat}
    <2>1. PICK h : f.undo = <<h>> /\ h.do = "rollback"
      BY <1>2 DEF RollbackFrame
    <2>2. Silent(h) /\ Mute(<<h>>)
      BY <2>1, SilentDos, ShortQuiet
    <2>3. DOMAIN f.undo = {1} /\ f.undo[1] = h
      BY <2>1
    <2> QED BY <2>1, <2>2, <2>3, SilentFrames DEF Mute, MaySend
  <1>3. CASE f.undo \in {<<OfflineFrame(o)>> : o \in Operator}
    <2>1. PICK o \in Operator : f.undo = <<OfflineFrame(o)>>
      BY <1>3
    <2> DEFINE h == OfflineFrame(o)
    <2>2. h.do = "goOffline" /\ h.operator = o
      BY <2>1 DEF OfflineFrame
    <2>3. \A e : MaySend(h, e) => e = OperatorEvent("operator_offline", o)
      BY <2>2 DEF MaySend, Sends, Undoes, AssignFrames, TransferFrames, CloseFrames, LawyerSenders
    <2>4. Undoes(f, OperatorEvent("operator_offline", o))
      BY <1>0, <2>1 DEF Undoes
    <2>5. f.throws
      BY <2>4, EventsMade DEF SendsOnce
    <2> HIDE DEF h
    <2>8. f.undo = <<h>>
      BY <2>1 DEF h
    <2>6. DOMAIN f.undo = {1} /\ f.undo[1] = h
      BY <2>8
    <2>7. IsSequence(f.undo)
      <3>1. PICK S : S = {h}
        OBVIOUS
      <3>2. <<h>> \in Seq(S)
        BY <3>1
      <3> QED BY <2>8, <3>2 DEF IsSequence
    <2> QED BY <2>2, <2>3, <2>4, <2>5, <2>6, <2>7
  <1> QED BY <1>1, <1>2, <1>3 DEF SendFrame

\* Once an event is sent or refused, its sender has no more to do with it, and
\* nobody has more to send than before.
LEMMA SentOnce ==
  ASSUME EventsInv, AllOnce, NEW t \in Task, SendEvent(t)
  PROVE  /\ AllOnce' /\ \A d \in Event : Holders(d)' \subseteq Holders(d)
         /\ calls' = calls
         /\ \E e \in Event :
              /\ topics' \in {topics, Arrived(e)}
              /\ ~IsNotice(e) => t \in Holders(e) \ Holders(e)'
  <1> DEFINE f == Top(t)
             rest == Tail(f.events)
             g == [f EXCEPT !.events = rest]
             s == IF rest = <<>> THEN <<>> ELSE <<g>>
  <1>0. /\ HostSet(EventsFrame) /\ FrameSet(EventsFrame) /\ TypedIn(EventsFrame)
        /\ AllGrounded /\ Busy(t) /\ f.do = "send" /\ calls' = calls
    BY EventsHosts DEF HostSet, EventsInv, StorageInv, SendEvent, Runs, Scheduled
  <1>1. f \in SendFrame /\ Grounded(f, closed, lawyers, lawyer_chats)
    BY <1>0, TopType, StackDomain, EventsArguments DEF AllGrounded
  <1>2. f.events \in Seq(Event) /\ f.events # <<>>
    BY <1>0, <1>1 DEF Grounded, SendFrame
  <1>3. 1 \in DOMAIN stack[t] /\ stack[t][1] = f
    BY <1>0, StackDomain
  <1>4. SendsOnce(f)
    BY <1>0, <1>3 DEF AllOnce, Once
  <1>e. PICK e : e = Head(f.events)
    OBVIOUS
  <1>5. /\ topics' \in {topics, Arrived(e)}
        /\ \/ Replaces(t, s)
           \/ ~f.throws /\ Replaces(t, f.undo)
           \/ f.throws /\ stack' = [stack EXCEPT ![t] = f.undo]
    BY <1>e DEF SendEvent, Replaces
  <1>6. /\ Within(g, f)
        /\ ~IsNotice(e) => Sends(f, e) /\ ~MaySend(g, e) /\ ~Undoes(f, e)
    BY <1>1, <1>2, <1>4, <1>e, RestSpares
  <1>7. e \in Event
    BY <1>2, <1>e, NextEvent
  <1>8. Spares(f, s) /\ (~IsNotice(e) => \A i \in DOMAIN s : ~MaySend(s[i], e))
    <2> HIDE DEF g, rest, f
    <2>1. CASE rest = <<>>
      BY <2>1, ShortQuiet, QuietSpares DEF Spares
    <2>2. CASE rest # <<>>
      <3>1. s = <<g>> /\ DOMAIN <<g>> = {1} /\ <<g>>[1] = g
        BY <2>2
      <3> QED BY <1>6, <3>1, OneSpares
    <2> QED BY <2>1, <2>2
  <1> HIDE DEF rest, g, s
  <1>9. CASE Replaces(t, s)
    <2>1. SparesStep(t)
      BY <1>0, <1>8, <1>9 DEF SparesStep
    <2>2. ~IsNotice(e) => t \in Holders(e) \ Holders(e)'
      BY <1>0, <1>6, <1>7, <1>8, <1>9, SentForGood DEF Spares
    <2> QED BY <1>0, <1>5, <1>7, <2>1, <2>2, SparedStack
  <1>10. CASE ~f.throws /\ Replaces(t, f.undo)
    <2>1. Mute(f.undo)
      BY <1>1, <1>4, <1>10, UndoSends
    <2>2. SparesStep(t)
      BY <1>0, <1>10, <2>1, QuietSpares DEF SparesStep
    <2>3. ~IsNotice(e) => t \in Holders(e) \ Holders(e)'
      <3>1. IsSequence(f.undo) /\ \A i \in DOMAIN f.undo : ~MaySend(f.undo[i], e)
        BY <2>1, SilentFrames DEF Mute, MaySend
      <3> QED BY <1>0, <1>6, <1>7, <1>10, <3>1, SentForGood
    <2> QED BY <1>0, <1>5, <1>7, <2>2, <2>3, SparedStack
  <1>11. CASE f.throws /\ stack' = [stack EXCEPT ![t] = f.undo]
    <2>1. stack'[t] = f.undo /\ \A u \in Task \ {t} : stack'[u] = stack[u]
      BY <1>0, <1>11 DEF TypedIn
    <2>2. /\ DOMAIN f.undo \subseteq {1}
          /\ \A i \in DOMAIN f.undo : /\ f.undo[i].do # "send"
                                      /\ \A d : MaySend(f.undo[i], d) => Undoes(f, d)
      BY <1>1, <1>4, UndoSends
    <2> HIDE DEF f
    <2>3. Once(f.undo)
      <3>1. \A i, j \in DOMAIN f.undo : ~(i < j)
        BY <2>2
      <3> QED BY <2>2, <3>1 DEF Once
    <2>4. AllOnce'
      BY <2>1, <2>3 DEF AllOnce
    <2>5. \A d \in Event : Holders(d)' \subseteq Holders(d)
      <3>1. \A d : Undoes(f, d) => t \in Holders(d)
        BY <1>3 DEF Holders, HoldersOn, MaySend
      <3> QED BY <2>1, <2>2, <3>1 DEF Holders, HoldersOn
    <2>6. ~IsNotice(e) => t \in Holders(e) \ Holders(e)'
      <3>1. ~IsNotice(e) => t \in Holders(e)
        BY <1>3, <1>6 DEF Holders, HoldersOn, MaySend
      <3>2. ~IsNotice(e) => t \notin Holders(e)'
        BY <1>6, <2>1, <2>2 DEF Holders, HoldersOn
      <3> QED BY <3>1, <3>2
    <2> QED BY <1>0, <1>5, <1>7, <2>4, <2>5, <2>6
  <1> QED BY <1>5, <1>9, <1>10, <1>11

-----------------------------------------------------------------------------
(* How many there are of an event.                                         *)

PlacesIn(tp, e) == {i \in DOMAIN tp[TopicOf(e)] : tp[TopicOf(e)][i] = e}

\* Where event e is in its topic.
Places(e) == PlacesIn(topics, e)

Few(P, H, n) ==
  IsFiniteSet(P) /\ IsFiniteSet(H) /\ Cardinality(P) + Cardinality(H) <= n

\* An event that waits to be read, or that a task may still send, stands for a
\* call from outside.
Counted == \A e \in Event : ~IsNotice(e) => Few(Places(e), Holders(e), calls)

OnceInv == EventsInv /\ AllOnce /\ Counted

LEMMA FewLess ==
  ASSUME NEW P, NEW H, NEW n \in Nat, Few(P, H, n), NEW R \in SUBSET P, NEW G \in SUBSET H
  PROVE  Few(R, G, n)
  <1>1. /\ IsFiniteSet(R) /\ Cardinality(R) \in Nat /\ Cardinality(P) \in Nat
        /\ IsFiniteSet(G) /\ Cardinality(G) \in Nat /\ Cardinality(H) \in Nat
        /\ Cardinality(R) <= Cardinality(P) /\ Cardinality(G) <= Cardinality(H)
    BY FS_Subset, FS_CardinalityType DEF Few
  <1> QED BY <1>1 DEF Few

LEMMA FewMoved ==
  ASSUME NEW P, NEW H, NEW n \in Nat, Few(P, H, n), NEW R, NEW f \in Injection(R, P),
         NEW G \in SUBSET H
  PROVE  Few(R, G, n)
  <1>1. /\ IsFiniteSet(R) /\ Cardinality(R) \in Nat /\ Cardinality(P) \in Nat
        /\ IsFiniteSet(G) /\ Cardinality(G) \in Nat /\ Cardinality(H) \in Nat
        /\ Cardinality(R) <= Cardinality(P) /\ Cardinality(G) <= Cardinality(H)
    BY FS_Subset, FS_Injection, FS_CardinalityType DEF Few
  <1> QED BY <1>1 DEF Few

\* One is sent ...
LEMMA FewSent ==
  ASSUME NEW P, NEW H, NEW n \in Nat, Few(P, H, n), NEW x, NEW t \in H,
         NEW R \in SUBSET (P \cup {x}), NEW G \in SUBSET (H \ {t})
  PROVE  Few(R, G, n)
  <1>1. /\ IsFiniteSet(P \cup {x}) /\ Cardinality(P) \in Nat /\ Cardinality(P \cup {x}) \in Nat
        /\ Cardinality(P \cup {x}) <= Cardinality(P) + 1
    <2>1. /\ IsFiniteSet(P \cup {x})
          /\ Cardinality(P \cup {x}) = IF x \in P THEN Cardinality(P) ELSE Cardinality(P) + 1
      BY FS_AddElement DEF Few
    <2>2. Cardinality(P) \in Nat
      BY FS_CardinalityType DEF Few
    <2> QED BY <2>1, <2>2
  <1>2. /\ IsFiniteSet(H \ {t}) /\ Cardinality(H) \in Nat /\ Cardinality(H \ {t}) \in Nat
        /\ Cardinality(H \ {t}) = Cardinality(H) - 1
    BY FS_RemoveElement, FS_CardinalityType DEF Few
  <1>3. Few(P \cup {x}, H \ {t}, n)
    BY <1>1, <1>2 DEF Few
  <1> QED BY <1>3, FewLess

\* ... one is read ...
LEMMA FewRead ==
  ASSUME NEW P, NEW H, NEW n \in Nat, Few(P, H, n), NEW x \in P, NEW t,
         NEW R, NEW f \in Injection(R, P \ {x}), NEW G \in SUBSET (H \cup {t})
  PROVE  Few(R, G, n)
  <1>1. /\ IsFiniteSet(H \cup {t}) /\ Cardinality(H) \in Nat /\ Cardinality(H \cup {t}) \in Nat
        /\ Cardinality(H \cup {t}) <= Cardinality(H) + 1
    <2>1. /\ IsFiniteSet(H \cup {t})
          /\ Cardinality(H \cup {t}) = IF t \in H THEN Cardinality(H) ELSE Cardinality(H) + 1
      BY FS_AddElement DEF Few
    <2>2. Cardinality(H) \in Nat
      BY FS_CardinalityType DEF Few
    <2> QED BY <2>1, <2>2
  <1>2. /\ IsFiniteSet(P \ {x}) /\ Cardinality(P) \in Nat /\ Cardinality(P \ {x}) \in Nat
        /\ Cardinality(P \ {x}) = Cardinality(P) - 1
    BY FS_RemoveElement, FS_CardinalityType DEF Few
  <1>3. IsFiniteSet(R) /\ Cardinality(R) \in Nat /\ Cardinality(R) <= Cardinality(P \ {x})
    BY <1>2, FS_Injection, FS_CardinalityType
  <1>4. Few(R, H \cup {t}, n)
    BY <1>1, <1>2, <1>3 DEF Few
  <1> QED BY <1>4, FewLess

\* ... and one call more is made.
LEMMA FewMore ==
  ASSUME NEW P, NEW H, NEW n \in Nat, Few(P, H, n), NEW t, NEW G \in SUBSET (H \cup {t})
  PROVE  Few(P, G, n + 1)
  <1>1. /\ IsFiniteSet(H \cup {t}) /\ Cardinality(H) \in Nat /\ Cardinality(H \cup {t}) \in Nat
        /\ Cardinality(H \cup {t}) <= Cardinality(H) + 1
    <2>1. /\ IsFiniteSet(H \cup {t})
          /\ Cardinality(H \cup {t}) = IF t \in H THEN Cardinality(H) ELSE Cardinality(H) + 1
      BY FS_AddElement DEF Few
    <2>2. Cardinality(H) \in Nat
      BY FS_CardinalityType DEF Few
    <2> QED BY <2>1, <2>2
  <1>2. Cardinality(P) \in Nat
    BY FS_CardinalityType DEF Few
  <1>3. Few(P, H \cup {t}, n + 1)
    BY <1>1, <1>2 DEF Few
  <1>4. n + 1 \in Nat
    OBVIOUS
  <1> QED BY <1>3, <1>4, FewLess

\* An event that arrives takes one place.
LEMMA ArrivedPlaces ==
  ASSUME EventsInv, NEW e \in Event
  PROVE  /\ IsNotice(e) => Arrived(e) = topics
         /\ \A d \in Event : ~IsNotice(d) /\ d # e => PlacesIn(Arrived(e), d) \subseteq Places(d)
         /\ \E x : PlacesIn(Arrived(e), e) \subseteq Places(e) \cup {x}
  <1>1. CASE IsNotice(e)
    BY <1>1 DEF Arrived, Places
  <1>2. CASE ~IsNotice(e)
    <2> DEFINE p == TopicOf(e)
               q == Append(topics[p], e)
    <2>1. p \in Topic
      BY <1>2, EventTopic
    <2>2. topics[p] \in Seq(Event) /\ topics \in [Topic -> Seq(Event)]
      BY <2>1 DEF EventsInv, KafkaTypeOK
    <2>3. PICK n \in Nat : n = Len(topics[p]) /\ DOMAIN topics[p] = 1..n
      BY <2>2, LenProperties
    <2>4. /\ q \in Seq(Event) /\ DOMAIN q = 1..n + 1
          /\ \A i \in 1..n : q[i] = topics[p][i]
          /\ q[n + 1] = e
      BY <2>2, <2>3, AppendProperties, LenProperties
    <2>5. Arrived(e) = [topics EXCEPT ![p] = q]
      BY <1>2 DEF Arrived
    <2> HIDE DEF q
    <2>6. /\ Arrived(e)[p] = q
          /\ \A topic \in Topic \ {p} : Arrived(e)[topic] = topics[topic]
      BY <2>1, <2>2, <2>4, <2>5
    <2>7. \A i \in 1..n + 1 : i \in 1..n \/ i = n + 1
      OBVIOUS
    <2>8. ASSUME NEW d \in Event, ~IsNotice(d), d # e
          PROVE  PlacesIn(Arrived(e), d) \subseteq Places(d)
      <3>1. CASE TopicOf(d) = p
        <4> HIDE DEF p
        <4> QED BY <2>3, <2>4, <2>6, <2>7, <2>8, <3>1 DEF Places, PlacesIn
      <3>2. CASE TopicOf(d) # p
        <4>1. TopicOf(d) \in Topic
          BY <2>8, EventTopic
        <4> QED BY <2>6, <3>2, <4>1 DEF Places, PlacesIn
      <3> QED BY <3>1, <3>2
    <2>9. PlacesIn(Arrived(e), e) \subseteq Places(e) \cup {n + 1}
      BY <2>3, <2>4, <2>6, <2>7 DEF Places, PlacesIn
    <2> QED BY <1>2, <2>8, <2>9
  <1> QED BY <1>1, <1>2

\* A step of a task: nobody has more to send, and what is sent is sent once.
LEMMA StepCounts ==
  ASSUME OnceInv, calls' = calls, AllOnce', \A e \in Event : Holders(e)' \subseteq Holders(e),
         \/ UNCHANGED topics
         \/ \E e \in Event, t \in Task :
              topics' = Arrived(e) /\ (~IsNotice(e) => t \in Holders(e) \ Holders(e)')
  PROVE  Counted'
  <1>0. calls \in Nat
    BY EventsAssumption DEF OnceInv, EventsInv, KafkaTypeOK
  <1>1. CASE UNCHANGED topics
    <2>1. ASSUME NEW e \in Event, ~IsNotice(e) PROVE Few(Places(e)', Holders(e)', calls')
      <3>1. Few(Places(e), Holders(e), calls) /\ Places(e)' = Places(e)
        BY <1>1, <2>1 DEF OnceInv, Counted, Places, PlacesIn
      <3> QED BY <1>0, <3>1, FewLess
    <2> QED BY <2>1 DEF Counted
  <1>2. ASSUME NEW e \in Event, NEW t \in Task, topics' = Arrived(e),
               ~IsNotice(e) => t \in Holders(e) \ Holders(e)'
        PROVE  Counted'
    <2>1. ASSUME NEW d \in Event, ~IsNotice(d) PROVE Few(Places(d)', Holders(d)', calls')
      <3>1. Few(Places(d), Holders(d), calls)
        BY <2>1 DEF OnceInv, Counted
      <3>2. Places(d)' = PlacesIn(Arrived(e), d)
        BY <1>2 DEF Places, PlacesIn
      <3>3. CASE d # e
        <4>1. Places(d)' \in SUBSET Places(d)
          BY <2>1, <3>2, <3>3, ArrivedPlaces DEF OnceInv
        <4> QED BY <1>0, <3>1, <4>1, FewLess
      <3>4. CASE d = e
        <4>1. PICK x : Places(d)' \subseteq Places(d) \cup {x}
          BY <3>2, <3>4, ArrivedPlaces DEF OnceInv
        <4>2. t \in Holders(d) /\ Holders(d)' \subseteq Holders(d) \ {t}
          BY <1>2, <2>1, <3>4
        <4>3. Few(Places(d)', Holders(d)', calls)
          <5>1. PICK P, H, R, G : /\ P = Places(d) /\ R = Places(d)'
                                  /\ H = Holders(d) /\ G = Holders(d)'
            OBVIOUS
          <5>2. Few(P, H, calls) /\ t \in H /\ R \in SUBSET (P \cup {x}) /\ G \in SUBSET (H \ {t})
            BY <3>1, <4>1, <4>2, <5>1
          <5>3. Few(R, G, calls)
            BY <1>0, <5>2, FewSent
          <5> QED BY <5>1, <5>3
        <4> QED BY <4>3
      <3> QED BY <3>3, <3>4
    <2> QED BY <2>1 DEF Counted
  <1> QED BY <1>1, <1>2

\* An event that is read has left its topic.
LEMMA ConsumeCounts ==
  ASSUME OnceInv, NEW topic \in Topic, ConsumeMessage(topic)
  PROVE  AllOnce' /\ Counted'
  <1> DEFINE rest == Tail(topics[topic])
  <1>e. PICK e : e = Head(topics[topic])
    OBVIOUS
  <1> DEFINE f == [do |-> "handle", event |-> e]
  <1>1. /\ topics[topic] \in Seq(Event) /\ topics[topic] # <<>> /\ topics \in [Topic -> Seq(Event)]
        /\ calls \in Nat /\ topic \in Task /\ TypedIn(EventsFrame)
    BY EventsAssumption DEF OnceInv, EventsInv, StorageInv, KafkaTypeOK, ConsumeMessage
  <1>2. PICK n \in Nat : /\ DOMAIN topics[topic] = 1..n + 1
                         /\ DOMAIN rest = 1..n
                         /\ topics[topic][1] = e
                         /\ \A i \in 1..n : rest[i] = topics[topic][i + 1]
    <2> DEFINE h == [events |-> topics[topic]]
    <2>1. h.events = topics[topic]
      OBVIOUS
    <2> HIDE DEF h
    <2> QED BY <1>1, <1>e, <2>1, NextEvent
  <1>3. /\ ~Busy(topic) /\ calls' = calls
        /\ stack'[topic] = <<f>> /\ \A u \in Task \ {topic} : stack'[u] = stack[u]
        /\ topics'[topic] = rest /\ \A q \in Topic \ {topic} : topics'[q] = topics[q]
    BY <1>1, <1>e DEF ConsumeMessage, Start, TypedIn
  <1> HIDE DEF rest
  <1>4. /\ f.do = "handle" /\ f.event = e /\ DOMAIN <<f>> = {1} /\ <<f>>[1] = f
    OBVIOUS
  <1> HIDE DEF f
  <1>5. \A d : MaySend(f, d) => d = e
    BY <1>4 DEF MaySend, Sends, Undoes, AssignFrames, TransferFrames, CloseFrames, LawyerSenders
  <1>6. AllOnce'
    <2>1. Once(<<f>>)
      <3>1. \A i, j \in DOMAIN <<f>> : ~(i < j)
        BY <1>4
      <3> QED BY <1>4, <3>1 DEF Once
    <2> QED BY <1>3, <2>1 DEF AllOnce, OnceInv
  <1>7. \A d \in Event : Holders(d)' \subseteq IF d = e THEN Holders(d) \cup {topic} ELSE Holders(d)
    BY <1>3, <1>4, <1>5 DEF Holders, HoldersOn
  <1>8. 1 \in 1..n + 1 /\ \A i \in 1..n : i + 1 \in 1..n + 1 /\ i + 1 # 1
    OBVIOUS
  <1>9. TopicOf(e) = topic
    BY <1>2, <1>8 DEF OnceInv, EventsInv, ReadableTopics
  <1>10. ASSUME NEW d \in Event, ~IsNotice(d) PROVE Few(Places(d)', Holders(d)', calls')
    <2>1. Few(Places(d), Holders(d), calls)
      BY <1>10 DEF OnceInv, Counted
    <2>2. CASE TopicOf(d) # topic
      <3>1. TopicOf(d) \in Topic /\ d # e
        BY <1>9, <1>10, <2>2, EventTopic
      <3>2. Places(d)' \in SUBSET Places(d)
        BY <1>3, <2>2, <3>1 DEF Places, PlacesIn
      <3> QED BY <1>1, <1>3, <1>7, <2>1, <3>1, <3>2, FewLess
    <2>3. CASE TopicOf(d) = topic
      <3>p. PICK P, R : P = Places(d) /\ R = Places(d)'
        OBVIOUS
      <3> DEFINE move == [i \in R |-> i + 1]
      <3>1. R = {i \in 1..n : rest[i] = d}
        BY <1>2, <1>3, <2>3, <3>p DEF Places, PlacesIn
      <3>2. P = {i \in 1..n + 1 : topics[topic][i] = d}
        BY <1>2, <2>3, <3>p DEF Places, PlacesIn
      <3>3. d = e => 1 \in P
        BY <1>2, <1>8, <3>2
      <3>4. \A i \in R : i + 1 \in P \ {1} /\ i \in Nat
        BY <1>2, <1>8, <3>1, <3>2
      <3>5. move \in Injection(R, P \ {1})
        <4>1. \A i, j \in R : i + 1 = j + 1 => i = j
          BY <3>4
        <4> QED BY <3>4, <4>1 DEF Injection, IsInjective
      <3>6. move \in Injection(R, P)
        BY <3>5 DEF Injection, IsInjective
      <3> HIDE DEF move
      <3>7. CASE d = e
        BY <1>1, <1>3, <1>7, <2>1, <3>p, <3>3, <3>5, <3>7, FewRead
      <3>8. CASE d # e
        BY <1>1, <1>3, <1>7, <2>1, <3>p, <3>6, <3>8, FewMoved
      <3> QED BY <3>7, <3>8
    <2> QED BY <2>2, <2>3
  <1> QED BY <1>6, <1>10 DEF Counted

\* Somebody calls: he may send what he is called for.
LEMMA EnterCounts ==
  ASSUME OnceInv, NEW t \in Caller, EnterCall(t)
  PROVE  AllOnce' /\ Counted'
  <1>1. PICK f \in EventCalls : Start(t, f)
    BY DEF EnterCall
  <1>2. f.do # "send"
    BY DEF EventCalls, EntryCalls, PriorityCalls, RemovalCalls
  <1>3. /\ t \in Task /\ calls \in Nat /\ calls' = calls + 1 /\ UNCHANGED topics
        /\ stack'[t] = <<f>> /\ \A u \in Task \ {t} : stack'[u] = stack[u]
    BY <1>1, EventsAssumption DEF EnterCall, Start, OnceInv, EventsInv, StorageInv, TypedIn,
       KafkaTypeOK
  <1>4. DOMAIN <<f>> = {1} /\ <<f>>[1] = f
    OBVIOUS
  <1>5. AllOnce'
    <2>1. Once(<<f>>)
      <3>1. \A i, j \in DOMAIN <<f>> : ~(i < j)
        BY <1>4
      <3> QED BY <1>2, <1>4, <3>1 DEF Once
    <2> QED BY <1>3, <2>1 DEF AllOnce, OnceInv
  <1>6. \A e \in Event : Holders(e)' \subseteq Holders(e) \cup {t}
    BY <1>3 DEF Holders, HoldersOn
  <1>7. ASSUME NEW e \in Event, ~IsNotice(e) PROVE Few(Places(e)', Holders(e)', calls')
    <2>1. PICK P, H, G : P = Places(e) /\ H = Holders(e) /\ G = Holders(e)'
      OBVIOUS
    <2>2. Places(e)' = P
      BY <1>3, <2>1 DEF Places, PlacesIn
    <2>3. Few(P, H, calls) /\ G \in SUBSET (H \cup {t})
      BY <1>6, <1>7, <2>1 DEF OnceInv, Counted
    <2>4. Few(P, G, calls + 1)
      BY <1>3, <2>3, FewMore
    <2> QED BY <1>3, <2>1, <2>2, <2>4
  <1> QED BY <1>5, <1>7 DEF Counted

\* The steps of a task.
LEMMA TaskCounts ==
  ASSUME OnceInv, NEW t \in Task, TaskStep(t)
  PROVE  AllOnce' /\ Counted'
  <1>1. CASE SendEvent(t)
    BY <1>1, SentOnce, StepCounts DEF OnceInv
  <1>2. CASE AwaitBroker(t)
    <2>1. UNCHANGED <<stack, topics, calls>>
      BY <1>2 DEF AwaitBroker, kafkaVars
    <2> QED BY <2>1 DEF OnceInv, AllOnce, Counted, Places, PlacesIn, Holders, HoldersOn
  <1>3. ASSUME SparesStep(t), UNCHANGED kafkaVars PROVE AllOnce' /\ Counted'
    BY <1>3, SparedStack, StepCounts DEF OnceInv, kafkaVars
  <1>4. CASE (QueueStep(t) \/ ManagerStep(t)) /\ UNCHANGED kafkaVars
    BY <1>3, <1>4, TasksSpare DEF OnceInv
  <1>5. CASE Handle(t)
    BY <1>3, <1>5, HandlersSpare DEF OnceInv, Handle
  <1>6. CASE OpenChat(t)
    BY <1>3, <1>6, OpenSpares DEF OnceInv, OpenChat
  <1>7. CASE CreateLawyerChatOnce(t)
    <2>1. Busy(t) /\ Continue(t, <<>>) /\ UNCHANGED kafkaVars
      BY <1>7 DEF CreateLawyerChatOnce, Runs, Scheduled, kafkaVars
    <2>2. SparesStep(t)
      BY <2>1, ShortQuiet, QuietSpares DEF SparesStep, Continue, Replaces
    <2> QED BY <1>3, <2>1, <2>2
  <1> QED BY <1>1, <1>2, <1>4, <1>5, <1>6, <1>7 DEF TaskStep, EventStep

LEMMA OnceStart ==
  ASSUME EventsInit
  PROVE  OnceInv
  <1>1. /\ stack = [t \in Task |-> <<>>] /\ topics = [topic \in Topic |-> <<>>] /\ calls = 0
    BY DEF EventsInit, AssignmentInit, Init, AsyncInit
  <1>2. \A t \in Task : DOMAIN stack[t] = {}
    <2>1. \A t \in Task : stack[t] = <<>>
      BY <1>1
    <2>2. DOMAIN <<>> = {}
      OBVIOUS
    <2> QED BY <2>1, <2>2
  <1>3. AllOnce
    BY <1>2 DEF AllOnce, Once
  <1>4. ASSUME NEW e \in Event, ~IsNotice(e) PROVE Few(Places(e), Holders(e), calls)
    <2>1. TopicOf(e) \in Topic
      BY <1>4, EventTopic
    <2>2. Places(e) = {} /\ Holders(e) = {}
      BY <1>1, <1>2, <2>1 DEF Places, PlacesIn, Holders, HoldersOn
    <2> QED BY <1>1, <2>2, FS_EmptySet DEF Few
  <1> QED BY <1>3, <1>4, EventsStart DEF OnceInv, Counted

LEMMA OnceStep ==
  ASSUME OnceInv, [EventsNext]_eventsVars
  PROVE  OnceInv'
  <1>1. EventsInv'
    BY EventsStep DEF OnceInv
  <1>2. CASE UNCHANGED eventsVars
    <2>1. UNCHANGED <<stack, topics, calls>>
      BY <1>2 DEF eventsVars, allVars, vars, asyncVars, kafkaVars
    <2>2. AllOnce' /\ Counted'
      BY <2>1 DEF OnceInv, AllOnce, Counted, Places, PlacesIn, Holders, HoldersOn
    <2> QED BY <1>1, <2>2 DEF OnceInv
  <1>3. CASE EventsNext
    BY <1>1, <1>3, EnterCounts, ConsumeCounts, TaskCounts DEF EventsNext, OnceInv
  <1> QED BY <1>2, <1>3

\* However the handlers go on sending again what they have read, and whatever is
\* refused, no topic ever holds an event more often than there were calls from
\* outside.
THEOREM EventsStayFew == EventsSpec => []EventsDoNotMultiply
  <1>1. OnceInv => EventsDoNotMultiply
    <2> SUFFICES ASSUME OnceInv, NEW topic \in Topic, NEW e \in Event
                 PROVE  Cardinality({i \in DOMAIN topics[topic] : topics[topic][i] = e}) <= calls
      BY DEF EventsDoNotMultiply
    <2>0. calls \in Nat
      BY EventsAssumption DEF OnceInv, EventsInv, KafkaTypeOK
    <2>1. CASE ~IsNotice(e) /\ TopicOf(e) = topic
      <3>1. Few(Places(e), Holders(e), calls)
        BY <2>1 DEF OnceInv, Counted
      <3>2. Cardinality(Places(e)) \in Nat /\ Cardinality(Holders(e)) \in Nat
        BY <3>1, FS_CardinalityType DEF Few
      <3>3. Cardinality(Places(e)) <= calls
        BY <2>0, <3>1, <3>2 DEF Few
      <3> QED BY <2>1, <3>3 DEF Places, PlacesIn
    <2>2. CASE IsNotice(e) \/ TopicOf(e) # topic
      <3>1. {i \in DOMAIN topics[topic] : topics[topic][i] = e} = {}
        BY <2>2 DEF OnceInv, EventsInv, ReadableTopics, Readable
      <3> QED BY <2>0, <3>1, FS_EmptySet
    <2> QED BY <2>1, <2>2
  <1>2. EventsSpec => []OnceInv
    BY OnceStart, OnceStep, PTL DEF EventsSpec
  <1> QED BY <1>1, <1>2, PTL
================================================================================
