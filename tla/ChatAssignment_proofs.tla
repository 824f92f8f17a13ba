------------------------- MODULE ChatAssignment_proofs -------------------------
(***************************************************************************)
(* What is proved of ChatAssignment, for any sets of tasks, clients, chats *)
(* and operators: its types; that it uses the queue manager as             *)
(* SupportQueue says; that its locks add no deadlock; that what its        *)
(* managers store of the chats agrees with the queue.                      *)
(*                                                                         *)
(* The frames of the managers and those of the queue manager share the     *)
(* stacks.  The lemmas about single steps speak of any set F of frames     *)
(* among which both are as their modules have them, so that they also hold *)
(* where event handlers have frames of their own (ChatEvents).             *)
(***************************************************************************)
EXTENDS ChatAssignment, SupportQueue_proofs

ManagerMethods == {"send", "io", "connect", "operatorClose", "adminClose", "accept",
  "adminTransfer", "operatorTransfer", "operatorLawyer", "adminLawyer", "goOnline", "goOffline",
  "joinQueue", "rollback", "managerRelease", "closeChat", "managerAssign", "managerTransfer",
  "storeAssignment", "updateChat", "addParticipant", "markLeft", "storeTransfer",
  "transferStored", "readLawyer", "managerLawyer", "createLawyerChat", "storeLawyer"}

\* Of F, the frames of the managers are as ChatAssignment has them.
HostSet(F) ==
  /\ FrameSet(F)
  /\ AssignmentFrame \subseteq F
  /\ \A f \in F : f.do \in ManagerMethods => f \in AssignmentFrame

-----------------------------------------------------------------------------
(* Frames.                                                                 *)

LEMMA AssignmentHosts == HostSet(AssignmentFrame)
  <1>1. Frame \subseteq AssignmentFrame
    BY DEF AssignmentFrame
  <1>2. ASSUME NEW f \in AssignmentFrame, f.do \in Methods PROVE f \in Frame
    <2>1. f \in Frame \cup EntryCalls
      BY <1>2 DEF AssignmentFrame, Methods, SendFrame, Io
    <2>2. ASSUME f \in EntryCalls PROVE f \in Frame
      <3>1. f \in PriorityCalls \cup RemovalCalls \cup [do : {"tick"}]
                   \cup [do : {"busy"}, operator : Operator, busy : BOOLEAN]
        BY <1>2, <2>2 DEF EntryCalls, Methods
      <3>2. PriorityCalls \cup RemovalCalls \cup [do : {"tick"}]
              \cup [do : {"busy"}, operator : Operator, busy : BOOLEAN] \subseteq Calls
        BY DEF Calls, PriorityCalls, RemovalCalls
      <3> QED BY <3>1, <3>2 DEF Frame
    <2> QED BY <2>1, <2>2
  <1>3. FrameSet(AssignmentFrame)
    BY <1>1, <1>2 DEF FrameSet
  <1> QED BY <1>3 DEF HostSet

\* The arguments a frame carries, by the step it belongs to.
LEMMA HostArguments ==
  ASSUME NEW f \in AssignmentFrame
  PROVE  /\ f.do \in {"connect", "operatorClose", "adminClose", "accept", "adminTransfer",
                      "operatorTransfer", "joinQueue", "rollback", "managerRelease",
                      "closeChat", "managerAssign", "managerTransfer", "storeAssignment",
                      "updateChat", "addParticipant", "markLeft", "storeTransfer",
                      "transferStored"} => f.chat \in Chat
         /\ f.do \in {"accept", "adminTransfer", "operatorTransfer", "goOnline", "goOffline",
                      "managerAssign", "managerTransfer", "storeAssignment", "updateChat",
                      "addParticipant", "markLeft", "storeTransfer", "transferStored"}
              => f.operator \in Operator
         /\ f.do \in {"operatorLawyer", "adminLawyer", "readLawyer", "managerLawyer",
                      "createLawyerChat", "storeLawyer"}
              => f.client \in Client /\ f.lawyer \in Operator
         /\ f.do \in {"managerAssign", "managerTransfer", "managerLawyer",
                      "createLawyerChat", "storeLawyer"} => f.manager \in Manager
         /\ f.do \in {"managerTransfer", "storeTransfer", "transferStored"}
              => f.forced \in BOOLEAN
         /\ f.do = "closeChat" => f.release \in BOOLEAN
         /\ f.do = "goOnline" => f.session \in BOOLEAN
         /\ f.do = "send" => f \in SendFrame
         /\ f.do = "storeTransfer" =>
              f \in [do : {"storeTransfer"}, chat : Chat, operator : Operator, forced : BOOLEAN]
  <1>1. CASE f \in Frame
    BY <1>1 DEF Frame, Calls
  <1>2. CASE f \in SendFrame
    BY <1>2 DEF SendFrame
  <1>3. CASE f \in EntryCalls
    BY <1>3 DEF EntryCalls, PriorityCalls, RemovalCalls
  <1>4. CASE f = Io
    BY <1>4 DEF Io
  <1>5. CASE f \notin Frame \cup SendFrame \cup EntryCalls \cup {Io}
    BY <1>5 DEF AssignmentFrame
  <1> QED BY <1>1, <1>2, <1>3, <1>4, <1>5

\* The frames the steps put on a stack: those of the managers ...
LEMMA HostFramesMade ==
  /\ Io \in AssignmentFrame
  /\ \A ch \in Chat :
       /\ [do |-> "joinQueue", chat |-> ch] \in AssignmentFrame
       /\ RollbackFrame(ch) \in AssignmentFrame
       /\ [do |-> "managerRelease", chat |-> ch] \in AssignmentFrame
       /\ [do |-> "connect", chat |-> ch] \in AssignmentFrame
       /\ \A b \in BOOLEAN : [do |-> "closeChat", chat |-> ch, release |-> b] \in AssignmentFrame
       /\ \A o \in Operator :
            /\ [do |-> "storeAssignment", chat |-> ch, operator |-> o] \in AssignmentFrame
            /\ [do |-> "updateChat", chat |-> ch, operator |-> o] \in AssignmentFrame
            /\ [do |-> "addParticipant", chat |-> ch, operator |-> o] \in AssignmentFrame
            /\ [do |-> "markLeft", chat |-> ch, operator |-> o] \in AssignmentFrame
            /\ \A m \in Manager :
                 /\ [do |-> "managerAssign", manager |-> m, chat |-> ch, operator |-> o]
                      \in AssignmentFrame
                 /\ \A b \in BOOLEAN :
                      [do |-> "managerTransfer", manager |-> m, chat |-> ch, operator |-> o,
                       forced |-> b] \in AssignmentFrame
            /\ \A b \in BOOLEAN :
                 /\ [do |-> "storeTransfer", chat |-> ch, operator |-> o, forced |-> b]
                      \in AssignmentFrame
                 /\ [do |-> "transferStored", chat |-> ch, operator |-> o, forced |-> b]
                      \in AssignmentFrame
  /\ \A o \in Operator :
       /\ OfflineFrame(o) \in AssignmentFrame
       /\ \A b \in BOOLEAN : [do |-> "goOnline", operator |-> o, session |-> b] \in AssignmentFrame
       /\ \A c \in Client :
            /\ [do |-> "readLawyer", client |-> c, lawyer |-> o] \in AssignmentFrame
            /\ \A m \in Manager :
                 /\ [do |-> "managerLawyer", manager |-> m, client |-> c, lawyer |-> o]
                      \in AssignmentFrame
                 /\ [do |-> "createLawyerChat", manager |-> m, client |-> c, lawyer |-> o]
                      \in AssignmentFrame
                 /\ [do |-> "storeLawyer", manager |-> m, client |-> c, lawyer |-> o]
                      \in AssignmentFrame
  <1> USE DEF AssignmentFrame
  <1>1. Io \in AssignmentFrame
    OBVIOUS
  <1>2. ASSUME NEW ch \in Chat
        PROVE  /\ [do |-> "joinQueue", chat |-> ch] \in AssignmentFrame
               /\ RollbackFrame(ch) \in AssignmentFrame
               /\ [do |-> "managerRelease", chat |-> ch] \in AssignmentFrame
               /\ [do |-> "connect", chat |-> ch] \in AssignmentFrame
               /\ \A b \in BOOLEAN :
                    [do |-> "closeChat", chat |-> ch, release |-> b] \in AssignmentFrame
    BY DEF EntryCalls, RollbackFrame
  <1>3. ASSUME NEW ch \in Chat, NEW o \in Operator
        PROVE  /\ [do |-> "storeAssignment", chat |-> ch, operator |-> o] \in AssignmentFrame
               /\ [do |-> "updateChat", chat |-> ch, operator |-> o] \in AssignmentFrame
               /\ [do |-> "addParticipant", chat |-> ch, operator |-> o] \in AssignmentFrame
               /\ [do |-> "markLeft", chat |-> ch, operator |-> o] \in AssignmentFrame
    OBVIOUS
  <1>4. ASSUME NEW ch \in Chat, NEW o \in Operator, NEW m \in Manager
        PROVE  /\ [do |-> "managerAssign", manager |-> m, chat |-> ch, operator |-> o]
                     \in AssignmentFrame
               /\ \A b \in BOOLEAN :
                    [do |-> "managerTransfer", manager |-> m, chat |-> ch, operator |-> o,
                     forced |-> b] \in AssignmentFrame
    OBVIOUS
  <1>5. ASSUME NEW ch \in Chat, NEW o \in Operator, NEW b \in BOOLEAN
        PROVE  /\ [do |-> "storeTransfer", chat |-> ch, operator |-> o, forced |-> b]
                     \in AssignmentFrame
               /\ [do |-> "transferStored", chat |-> ch, operator |-> o, forced |-> b]
                     \in AssignmentFrame
    OBVIOUS
  <1>6. ASSUME NEW o \in Operator
        PROVE  /\ OfflineFrame(o) \in AssignmentFrame
               /\ \A b \in BOOLEAN :
                    [do |-> "goOnline", operator |-> o, session |-> b] \in AssignmentFrame
    BY DEF EntryCalls, OfflineFrame
  <1>7. ASSUME NEW o \in Operator, NEW c \in Client
        PROVE  /\ [do |-> "readLawyer", client |-> c, lawyer |-> o] \in AssignmentFrame
               /\ \A m \in Manager :
                    /\ [do |-> "managerLawyer", manager |-> m, client |-> c, lawyer |-> o]
                         \in AssignmentFrame
                    /\ [do |-> "createLawyerChat", manager |-> m, client |-> c, lawyer |-> o]
                         \in AssignmentFrame
                    /\ [do |-> "storeLawyer", manager |-> m, client |-> c, lawyer |-> o]
                         \in AssignmentFrame
    OBVIOUS
  <1> HIDE DEF AssignmentFrame
  <1> QED BY <1>1, <1>2, <1>3, <1>4, <1>5, <1>6, <1>7

\* ... and the calls of the queue manager.
LEMMA HostCallsMade ==
  /\ \A ch \in Chat :
       /\ [do |-> "add", client |-> ClientOf[ch], chat |-> ch] \in Calls
       /\ [do |-> "release", chat |-> ch] \in Calls
       /\ \A o \in Operator :
            /\ [do |-> "assign", chat |-> ch, operator |-> o, client |-> ClientOf[ch]] \in Calls
            /\ [do |-> "transfer", chat |-> ch, operator |-> o] \in Calls
  /\ \A o \in Operator :
       /\ [do |-> "online", operator |-> o, type |-> Role[o]] \in Calls
       /\ [do |-> "register", operator |-> o, type |-> "lawyer"] \in Calls
       /\ [do |-> "offline", operator |-> o] \in Calls
  BY ManagerAssumption DEF Calls

LEMMA CallsHosted == Calls \subseteq AssignmentFrame
  BY DEF AssignmentFrame, Frame

-----------------------------------------------------------------------------
(* What the steps of the managers do to a stack.                           *)

\* The frames that run inside the lock of a manager.
Inner == Methods \cup {"io", "storeAssignment", "updateChat", "addParticipant", "rollback",
  "storeTransfer", "transferStored", "createLawyerChat", "storeLawyer", "send"}

\* What event e says is stored, if the tables closed, lawyers and lawyer_chats
\* hold cl, la and lc.
StoredEvent(e, cl, la, lc) ==
  /\ e.event = "chat_closed" => e.chat \in cl
  /\ e.event = "lawyer_assigned" => e.lawyer \in la[e.client] /\ e.lawyer \in lc[e.client]

\* What frame f relies on is stored: a chat with the lawyer it is going to
\* store, and all that the events it is going to send say.
Grounded(f, cl, la, lc) ==
  /\ f.do = "storeLawyer" => f.lawyer \in lc[f.client]
  /\ f.do = "send" => /\ f.events # <<>>
                      /\ \A i \in DOMAIN f.events : StoredEvent(f.events[i], cl, la, lc)

AllGrounded ==
  \A t \in Task : \A i \in DOMAIN stack[t] : Grounded(stack[t][i], closed, lawyers, lawyer_chats)

\* A frame that relies on nothing, or on what the step has stored.
Sound(f) ==
  f.do \in {"storeLawyer", "send"} => Grounded(f, closed', lawyers', lawyer_chats')

\* The managers push frames of their own, after at most one call of the queue
\* manager.
Made(s) ==
  /\ s \in Seq(AssignmentFrame)
  /\ \A i \in DOMAIN s : (s[i].do \in Methods => i = 1 /\ s[i] \in Calls) /\ Sound(s[i])

Outer(s) ==
  s \in Seq(AssignmentFrame) /\ \A i \in DOMAIN s : s[i].do \notin Methods /\ Sound(s[i])

AllInner(s) == \A i \in DOMAIN s : s[i].do \in Inner

\* The frame on top makes the calls s, and the task may yield if there are none.
Passing(t) ==
  \E s : /\ Made(s)
         /\ Top(t).do \in Inner => AllInner(s)
         /\ Replaces(t, s)
         /\ Continue(t, s) \/ (s = <<>> /\ running' = NoTask)
         /\ UNCHANGED <<holder, queueVars>>

Entering(t) ==
  \E m \in Manager : \E s : /\ Made(s) /\ AllInner(s)
                            /\ Acquire(t, m)
                            /\ Continue(t, s \o <<LeaveFrame(m)>>)
                            /\ UNCHANGED queueVars

HostStep(t) ==
  /\ Scheduled(t)
  /\ Top(t).do \in ManagerMethods
  /\ Passing(t) \/ (Entering(t) /\ Top(t).do \notin Inner)

LEMMA MostSound == \A f : f.do \notin {"storeLawyer", "send"} => Sound(f)
  BY DEF Sound

LEMMA ShortMade ==
  /\ Made(<<>>) /\ Outer(<<>>) /\ AllInner(<<>>)
  /\ \A f \in AssignmentFrame : (f.do \in Methods => f \in Calls) /\ Sound(f) =>
       /\ Made(<<f>>)
       /\ f.do \notin Methods => Outer(<<f>>)
       /\ f.do \in Inner => AllInner(<<f>>)
       /\ \A g \in AssignmentFrame : g.do \notin Methods /\ Sound(g) =>
            /\ Made(<<f, g>>)
            /\ f.do \notin Methods => Outer(<<f, g>>)
            /\ f.do \in Inner /\ g.do \in Inner => AllInner(<<f, g>>)
            /\ \A h \in AssignmentFrame : h.do \notin Methods /\ Sound(h) =>
                 /\ Made(<<f, g, h>>)
                 /\ f.do \in Inner /\ g.do \in Inner /\ h.do \in Inner => AllInner(<<f, g, h>>)
  BY DEF Made, Outer, AllInner

\* What the tables have gained by the end of the step they keep.
Grows ==
  /\ closed \subseteq closed'
  /\ \A c \in Client : lawyers[c] \subseteq lawyers'[c] /\ lawyer_chats[c] \subseteq lawyer_chats'[c]

\* One sequence of frames after the other.
LEMMA MadeConcat ==
  ASSUME NEW s, Made(s), NEW r, Outer(r)
  PROVE  /\ Made(s \o r)
         /\ AllInner(s) /\ AllInner(r) => AllInner(s \o r)
  <1>1. /\ s \in Seq(AssignmentFrame) /\ r \in Seq(AssignmentFrame)
        /\ Len(s) \in Nat /\ DOMAIN s = 1..Len(s)
        /\ Len(r) \in Nat /\ DOMAIN r = 1..Len(r)
    BY LenProperties DEF Made, Outer
  <1>2. /\ s \o r \in Seq(AssignmentFrame)
        /\ DOMAIN (s \o r) = 1..(Len(s) + Len(r))
        /\ \A i \in 1..(Len(s) + Len(r)) :
             (s \o r)[i] = IF i <= Len(s) THEN s[i] ELSE r[i - Len(s)]
    BY <1>1, ConcatProperties, LenProperties
  <1>3. \A i \in DOMAIN (s \o r) :
          \/ i \in DOMAIN s /\ (s \o r)[i] = s[i]
          \/ \E j \in DOMAIN r : (s \o r)[i] = r[j]
    <2> TAKE i \in DOMAIN (s \o r)
    <2>1. CASE i <= Len(s)
      BY <1>1, <1>2, <2>1
    <2>2. CASE ~(i <= Len(s))
      <3>1. i - Len(s) \in DOMAIN r
        BY <1>1, <1>2, <2>2
      <3> QED BY <1>2, <2>2, <3>1
    <2> QED BY <2>1, <2>2
  <1> QED BY <1>2, <1>3 DEF Made, Outer, AllInner

\* What is sent is pushed as one frame, or not at all.
LEMMA SendMade ==
  ASSUME NEW events \in Seq(Event), events # <<>>, NEW throws \in BOOLEAN,
         \A i \in DOMAIN events : StoredEvent(events[i], closed', lawyers', lawyer_chats'),
         NEW undo \in {<<>>} \cup {<<RollbackFrame(ch)>> : ch \in Chat}
                             \cup {<<OfflineFrame(o)>> : o \in Operator}
  PROVE  Outer(Send(events, undo, throws)) /\ AllInner(Send(events, undo, throws))
  <1> DEFINE f == [do |-> "send", events |-> events, undo |-> undo, throws |-> throws]
  <1>1. f \in AssignmentFrame
    BY DEF AssignmentFrame, SendFrame
  <1>2. f.do \notin Methods /\ f.do \in Inner
    BY DEF Methods, Inner
  <1>3. Sound(f)
    BY DEF Sound, Grounded
  <1>4. Outer(<<f>>) /\ AllInner(<<f>>)
    BY <1>1, <1>2, <1>3, ShortMade
  <1> QED BY <1>4, ShortMade DEF Send

\* What is on top of a task that runs a step of the managers.
LEMMA HostTop ==
  ASSUME NEW F, HostSet(F), TypedIn(F), NEW t \in Task, Busy(t), Top(t).do \in ManagerMethods
  PROVE  Top(t) \in AssignmentFrame
  BY TopType DEF HostSet

-----------------------------------------------------------------------------
(* Every step of the managers has one of these shapes.                     *)

LEMMA EndPointShape ==
  ASSUME NEW F, HostSet(F), TypedIn(F), NEW t \in Task,
         \/ ManagerOnline(t) \/ ManagerOffline(t)
         \/ Connect(t) \/ JoinQueue(t) \/ AcceptChat(t)
         \/ OperatorTransfer(t) \/ AdminTransfer(t)
         \/ OperatorClose(t) \/ AdminClose(t)
         \/ OperatorLawyer(t) \/ AdminLawyer(t)
  PROVE  HostStep(t)
  <1> DEFINE f == Top(t)
  <1>0. /\ Scheduled(t) /\ Busy(t) /\ UNCHANGED <<holder, queueVars>>
        /\ f.do \in ManagerMethods /\ f.do \notin Inner
    BY DEF ManagerOnline, ManagerOffline, Connect, JoinQueue, AcceptChat, OperatorTransfer,
       AdminTransfer, OperatorClose, AdminClose, OperatorLawyer, AdminLawyer, Runs, Passes,
       Scheduled, ManagerMethods, Inner, Methods
  <1>1. f \in AssignmentFrame
    BY <1>0, HostTop
  <1>2. SUFFICES \E s : Made(s) /\ Passes(t, s)
    <2>1. PICK s : Made(s) /\ Passes(t, s)
      BY <1>2
    <2>2. Replaces(t, s) /\ Continue(t, s)
      BY <2>1 DEF Passes, Replaces, Continue
    <2> QED BY <1>0, <2>1, <2>2 DEF HostStep, Passing
  <1>a. ASSUME NEW g \in AssignmentFrame, g.do \in Methods => g \in Calls,
               g.do \notin {"storeLawyer", "send"}, Passes(t, <<g>>)
        PROVE  \E s : Made(s) /\ Passes(t, s)
    BY <1>a, MostSound, ShortMade
  <1>b. ASSUME Passes(t, <<>>) PROVE \E s : Made(s) /\ Passes(t, s)
    BY <1>b, ShortMade
  <1>c. ASSUME NEW g \in AssignmentFrame, NEW h \in AssignmentFrame,
               g.do \in Methods => g \in Calls, h.do \notin Methods,
               {g.do, h.do} \cap {"storeLawyer", "send"} = {}, Passes(t, <<g, h>>)
        PROVE  \E s : Made(s) /\ Passes(t, s)
    BY <1>c, MostSound, ShortMade
  <1>d. Calls \subseteq AssignmentFrame
    BY DEF AssignmentFrame, Frame
  <1>3. CASE ManagerOnline(t)
    <2> DEFINE o == f.operator
               g == [do |-> "online", operator |-> o, type |-> Role[o]]
               undo == IF f.session THEN <<OfflineFrame(o)>> ELSE <<>>
               events == <<OperatorEvent("operator_online", o)>>
    <2>1. o \in Operator /\ f.session \in BOOLEAN
      BY <1>1, <1>3, HostArguments DEF ManagerOnline, Runs
    <2>2. Made(<<g>>)
      BY <1>d, <2>1, HostCallsMade, MostSound, ShortMade
    <2>3. /\ OperatorEvent("operator_online", o) \in Event
          /\ \A cl, la, lc : StoredEvent(OperatorEvent("operator_online", o), cl, la, lc)
      BY <2>1 DEF Event, OperatorEvent, StoredEvent
    <2>4. Outer(Send(events, undo, TRUE))
      <3>1. events \in Seq(Event)
        BY <2>3
      <3>2. undo \in {<<>>} \cup {<<RollbackFrame(ch)>> : ch \in Chat}
                             \cup {<<OfflineFrame(p)>> : p \in Operator}
        BY <2>1
      <3>3. events # <<>> /\ \A i \in DOMAIN events :
              StoredEvent(events[i], closed', lawyers', lawyer_chats')
        BY <2>3
      <3> HIDE DEF events, undo
      <3> QED BY <3>1, <3>2, <3>3, SendMade
    <2>5. Made(<<g>> \o Send(events, undo, TRUE))
      BY <2>2, <2>4, MadeConcat
    <2> QED BY <1>3, <2>5 DEF ManagerOnline
  <1>4. CASE ManagerOffline(t)
    <2> DEFINE o == f.operator
               g == [do |-> "offline", operator |-> o]
               events == <<OperatorEvent("operator_offline", o)>>
    <2>1. o \in Operator
      BY <1>1, <1>4, HostArguments DEF ManagerOffline, Runs
    <2>2. Made(<<g>>)
      BY <1>d, <2>1, HostCallsMade, MostSound, ShortMade
    <2>3. /\ OperatorEvent("operator_offline", o) \in Event
          /\ \A cl, la, lc : StoredEvent(OperatorEvent("operator_offline", o), cl, la, lc)
      BY <2>1 DEF Event, OperatorEvent, StoredEvent
    <2>4. Outer(Send(events, <<>>, TRUE))
      <3>1. events \in Seq(Event)
        BY <2>3
      <3>2. events # <<>> /\ \A i \in DOMAIN events :
              StoredEvent(events[i], closed', lawyers', lawyer_chats')
        BY <2>3
      <3> HIDE DEF events
      <3> QED BY <3>1, <3>2, SendMade
    <2>5. Made(<<g>> \o Send(events, <<>>, TRUE))
      BY <2>2, <2>4, MadeConcat
    <2> QED BY <1>4, <1>b, <2>5 DEF ManagerOffline
  <1>5. CASE Connect(t)
    <2> DEFINE ch == f.chat
               own == OwnOperator[ClientOf[ch]]
               h == [do |-> "joinQueue", chat |-> ch]
               g == [do |-> "goOnline", operator |-> own, session |-> TRUE]
    <2>1. ch \in Chat /\ own \in Operator \cup {NoOperator}
      BY <1>1, <1>5, HostArguments, ManagerAssumption, SupportAssumption DEF Connect, Runs
    <2>2. Outer(<<Io, h>>)
      BY <2>1, HostFramesMade, MostSound, ShortMade DEF Io, Methods
    <2>3. Made(<<Io, h>>)
      BY <2>2 DEF Made, Outer
    <2>4. own # NoOperator => Made(<<g>>)
      BY <2>1, HostFramesMade, MostSound, ShortMade DEF Methods
    <2>5. own # NoOperator => Made(<<g>> \o <<Io, h>>)
      BY <2>2, <2>4, MadeConcat
    <2> QED BY <1>5, <2>3, <2>5 DEF Connect
  <1>6. CASE JoinQueue(t)
    <2>1. f.chat \in Chat
      BY <1>1, <1>6, HostArguments DEF JoinQueue, Runs
    <2> QED BY <1>6, <1>a, <1>b, <1>d, <2>1, HostCallsMade DEF JoinQueue
  <1>7. CASE AcceptChat(t) \/ OperatorTransfer(t) \/ AdminTransfer(t)
    <2>1. f.chat \in Chat /\ f.operator \in Operator
      BY <1>1, <1>7, HostArguments DEF AcceptChat, OperatorTransfer, AdminTransfer, Runs
    <2>2. "chat" \in Manager /\ "admin" \in Manager
      BY DEF Manager
    <2>3. /\ [do |-> "managerAssign", manager |-> "chat", chat |-> f.chat,
              operator |-> f.operator] \in AssignmentFrame
          /\ [do |-> "managerTransfer", manager |-> "chat", chat |-> f.chat,
              operator |-> f.operator, forced |-> FALSE] \in AssignmentFrame
          /\ [do |-> "managerTransfer", manager |-> "admin", chat |-> f.chat,
              operator |-> f.operator, forced |-> TRUE] \in AssignmentFrame
      BY <2>1, <2>2, HostFramesMade
    <2>4. CASE AcceptChat(t)
      BY <1>a, <1>b, <2>3, <2>4 DEF AcceptChat, Methods
    <2>5. CASE OperatorTransfer(t)
      BY <1>a, <1>b, <2>3, <2>5 DEF OperatorTransfer, Methods
    <2>6. CASE AdminTransfer(t)
      BY <1>a, <1>b, <2>3, <2>6 DEF AdminTransfer, Methods
    <2> QED BY <1>7, <2>4, <2>5, <2>6
  <1>8. CASE OperatorClose(t) \/ AdminClose(t)
    <2>1. f.chat \in Chat
      BY <1>1, <1>8, HostArguments DEF OperatorClose, AdminClose, Runs
    <2>2. \A b \in BOOLEAN : [do |-> "closeChat", chat |-> f.chat, release |-> b]
                               \in AssignmentFrame
      BY <2>1, HostFramesMade
    <2> QED BY <1>8, <1>c, <2>2, HostFramesMade DEF OperatorClose, AdminClose, Methods, Io
  <1>9. CASE OperatorLawyer(t) \/ AdminLawyer(t)
    <2>1. f.client \in Client /\ f.lawyer \in Operator
      BY <1>1, <1>9, HostArguments DEF OperatorLawyer, AdminLawyer, Runs
    <2>2. "chat" \in Manager
      BY DEF Manager
    <2>3. /\ [do |-> "managerLawyer", manager |-> "chat", client |-> f.client,
              lawyer |-> f.lawyer] \in AssignmentFrame
          /\ [do |-> "readLawyer", client |-> f.client, lawyer |-> f.lawyer] \in AssignmentFrame
      BY <2>1, <2>2, HostFramesMade
    <2>4. CASE OperatorLawyer(t)
      BY <1>a, <2>3, <2>4 DEF OperatorLawyer, Methods
    <2>5. CASE AdminLawyer(t)
      BY <1>b, <1>c, <2>3, <2>5, HostFramesMade DEF AdminLawyer, Methods, Io
    <2> QED BY <1>9, <2>4, <2>5
  <1> QED BY <1>3, <1>4, <1>5, <1>6, <1>7, <1>8, <1>9

\* The steps that only pass calls on, or store something and then do.
LEMMA StoringShape ==
  ASSUME NEW F, HostSet(F), TypedIn(F), StorageTypeOK, AllGrounded, NEW t \in Task,
         \/ StoreAssignment(t) \/ UpdateChatOperator(t) \/ AddChatParticipant(t) \/ RollBack(t)
         \/ StoreTransfer(t) \/ TransferStoredChat(t)
         \/ CreateLawyerChat(t) \/ CreateLawyerAssignment(t)
  PROVE  HostStep(t)
  <1> DEFINE f == Top(t)
  <1>0. /\ Scheduled(t) /\ Busy(t) /\ UNCHANGED <<holder, queueVars>>
        /\ f.do \in ManagerMethods
    BY DEF StoreAssignment, UpdateChatOperator, AddChatParticipant, RollBack, StoreTransfer,
       TransferStoredChat, CreateLawyerChat, CreateLawyerAssignment, Runs, Passes, Scheduled,
       ManagerMethods
  <1>1. f \in AssignmentFrame
    BY <1>0, HostTop
  <1>a. ASSUME NEW s, Made(s), AllInner(s), Continue(t, s) PROVE HostStep(t)
    <2>1. Replaces(t, s)
      BY <1>a DEF Replaces, Continue
    <2> QED BY <1>0, <1>a, <2>1 DEF HostStep, Passing
  <1>b. Made(<<>>) /\ AllInner(<<>>)
    BY ShortMade
  <1>c. ASSUME NEW g \in AssignmentFrame, g.do \in Inner, g.do \notin Methods, Sound(g)
        PROVE  Made(<<g>>) /\ AllInner(<<g>>) /\ Made(<<Io, g>>) /\ AllInner(<<Io, g>>)
    <2>1. Io \in AssignmentFrame /\ Io.do \in Inner /\ Io.do \notin Methods /\ Sound(Io)
      BY HostFramesMade, MostSound DEF Io, Inner, Methods
    <2> QED BY <1>c, <2>1, ShortMade
  <1>d. ASSUME NEW events \in Seq(Event), events # <<>>, NEW ch \in Chat,
               \A i \in DOMAIN events : StoredEvent(events[i], closed', lawyers', lawyer_chats'),
               NEW undo \in {<<>>, <<RollbackFrame(ch)>>}
        PROVE  LET s == Send(events, undo, FALSE) IN Made(s) /\ AllInner(s) /\ Outer(s)
    <2>1. Outer(Send(events, undo, FALSE)) /\ AllInner(Send(events, undo, FALSE))
      BY <1>d, SendMade
    <2> QED BY <2>1 DEF Outer, Made
  <1>3. CASE StoreAssignment(t) \/ UpdateChatOperator(t) \/ AddChatParticipant(t) \/ RollBack(t)
    <2>1. /\ f.chat \in Chat
          /\ f.do # "rollback" => f.operator \in Operator
      BY <1>1, <1>3, HostArguments
      DEF StoreAssignment, UpdateChatOperator, AddChatParticipant, RollBack, Runs
    <2>2. CASE StoreAssignment(t)
      <3>1. f.operator \in Operator
        BY <2>1, <2>2 DEF StoreAssignment, Runs
      <3>2. [do |-> "updateChat", chat |-> f.chat, operator |-> f.operator] \in AssignmentFrame
        BY <2>1, <3>1, HostFramesMade
      <3> DEFINE g == [do |-> "updateChat", chat |-> f.chat, operator |-> f.operator]
      <3>3. g.do \in Inner /\ g.do \notin Methods
        BY DEF Inner, Methods
      <3>4. Made(<<Io, g>>) /\ AllInner(<<Io, g>>)
        BY <1>c, <3>2, <3>3, MostSound
      <3> QED BY <1>a, <1>b, <2>2, <3>4 DEF StoreAssignment, Passes
    <2>3. CASE UpdateChatOperator(t)
      <3>1. f.operator \in Operator
        BY <2>1, <2>3 DEF UpdateChatOperator, Runs
      <3>2. /\ [do |-> "addParticipant", chat |-> f.chat, operator |-> f.operator]
                 \in AssignmentFrame
            /\ RollbackFrame(f.chat) \in AssignmentFrame
        BY <2>1, <3>1, HostFramesMade
      <3> DEFINE g == [do |-> "addParticipant", chat |-> f.chat, operator |-> f.operator]
                 r == RollbackFrame(f.chat)
      <3>3. g.do \in Inner \ Methods /\ r.do \in Inner \ Methods
        BY DEF Inner, Methods, RollbackFrame
      <3>4. Made(<<Io, g>>) /\ AllInner(<<Io, g>>) /\ Made(<<r>>) /\ AllInner(<<r>>)
        <4> HIDE DEF g, r
        <4>1. Sound(g) /\ Sound(r)
          BY MostSound DEF g, r, RollbackFrame
        <4> QED BY <1>c, <3>2, <3>3, <4>1 DEF g, r
      <3> QED BY <1>a, <2>3, <3>4 DEF UpdateChatOperator
    <2>4. CASE AddChatParticipant(t)
      <3> DEFINE events == <<AssignedEvent("chat_assigned", f.chat, f.operator),
                             AssignedEvent("operator_accept_chat", f.chat, f.operator)>>
      <3>1. f.operator \in Operator
        BY <2>1, <2>4 DEF AddChatParticipant, Runs
      <3>2. events \in Seq(Event)
        <4>1. /\ AssignedEvent("chat_assigned", f.chat, f.operator) \in Event
              /\ AssignedEvent("operator_accept_chat", f.chat, f.operator) \in Event
          BY <2>1, <3>1 DEF AssignedEvent, Event
        <4> QED BY <4>1
      <3>3. LET s == Send(events, <<RollbackFrame(f.chat)>>, FALSE) IN Made(s) /\ AllInner(s)
        <4>1. events # <<>> /\ \A i \in DOMAIN events :
                StoredEvent(events[i], closed', lawyers', lawyer_chats')
          BY DEF StoredEvent, AssignedEvent
        <4> HIDE DEF events
        <4> QED BY <1>d, <2>1, <3>2, <4>1
      <3> DEFINE r == RollbackFrame(f.chat)
      <3>4. r \in AssignmentFrame /\ r.do \in Inner \ Methods /\ Sound(r)
        BY <2>1, HostFramesMade, MostSound DEF RollbackFrame, Inner, Methods
      <3>5. Made(<<r>>) /\ AllInner(<<r>>)
        BY <1>c, <3>4
      <3> QED BY <1>a, <2>4, <3>3, <3>5 DEF AddChatParticipant
    <2>5. CASE RollBack(t)
      <3>1. [do |-> "release", chat |-> f.chat] \in Calls /\ Calls \subseteq AssignmentFrame
        BY <2>1, HostCallsMade DEF AssignmentFrame, Frame
      <3> DEFINE g == [do |-> "release", chat |-> f.chat]
      <3>2. g.do \in Inner
        BY DEF Inner, Methods
      <3>3. Made(<<g>>) /\ AllInner(<<g>>)
        BY <3>1, <3>2, MostSound, ShortMade
      <3> QED BY <1>a, <2>5, <3>3 DEF RollBack, Passes
    <2> QED BY <1>3, <2>2, <2>3, <2>4, <2>5
  <1>4. CASE StoreTransfer(t) \/ TransferStoredChat(t)
    <2>1. f.chat \in Chat /\ f.operator \in Operator /\ f.forced \in BOOLEAN
      BY <1>1, <1>4, HostArguments DEF StoreTransfer, TransferStoredChat, Runs
    <2>2. CASE StoreTransfer(t)
      <3>1. f \in [do : {"storeTransfer"}, chat : Chat, operator : Operator, forced : BOOLEAN]
        BY <1>1, <2>2, HostArguments DEF StoreTransfer, Runs
      <3>2. /\ [f EXCEPT !.do = "transferStored"].do = "transferStored"
            /\ [f EXCEPT !.do = "transferStored"] \in AssignmentFrame
        BY <3>1 DEF AssignmentFrame
      <3> DEFINE g == [f EXCEPT !.do = "transferStored"]
      <3>3. g \in AssignmentFrame /\ g.do \in Inner \ Methods /\ Sound(g)
        BY <3>2, MostSound DEF Inner, Methods
      <3>4. Made(<<Io, g>>) /\ AllInner(<<Io, g>>)
        <4> HIDE DEF g
        <4> QED BY <1>c, <3>3
      <3> QED BY <1>a, <1>b, <2>2, <3>4 DEF StoreTransfer, Passes
    <2>3. CASE TransferStoredChat(t)
      <3> DEFINE one == <<AssignedEvent("chat_transferred", f.chat, f.operator)>>
                 more == IF f.forced THEN <<AssignedEvent("force_transfer", f.chat, f.operator)>>
                         ELSE <<>>
      <3>1. one \o more \in Seq(Event)
        <4>1. /\ AssignedEvent("chat_transferred", f.chat, f.operator) \in Event
              /\ AssignedEvent("force_transfer", f.chat, f.operator) \in Event
          BY <2>1 DEF AssignedEvent, Event
        <4>2. one \in Seq(Event) /\ more \in Seq(Event)
          BY <4>1
        <4> HIDE DEF one, more
        <4> QED BY <4>2, ConcatProperties
      <3>2. Outer(Send(one \o more, <<>>, FALSE)) /\ AllInner(Send(one \o more, <<>>, FALSE))
        <4>1. one \o more # <<>> /\ \A i \in DOMAIN (one \o more) :
                StoredEvent((one \o more)[i], closed', lawyers', lawyer_chats')
          <5>1. \A cl, la, lc :
                  /\ StoredEvent(AssignedEvent("chat_transferred", f.chat, f.operator), cl, la, lc)
                  /\ StoredEvent(AssignedEvent("force_transfer", f.chat, f.operator), cl, la, lc)
            BY DEF StoredEvent, AssignedEvent
          <5>2. CASE f.forced
            BY <5>1, <5>2
          <5>3. CASE ~f.forced
            <6>1. one \o more = one
              BY <5>3
            <6> QED BY <5>1, <6>1
          <5> QED BY <5>2, <5>3
        <4> HIDE DEF one, more
        <4> QED BY <1>d, <2>1, <3>1, <4>1
      <3>3. Made(<<Io>>) /\ AllInner(<<Io>>)
        BY HostFramesMade, MostSound, ShortMade DEF Io, Methods, Inner
      <3>4. /\ Made(<<Io>> \o Send(one \o more, <<>>, FALSE))
            /\ AllInner(<<Io>> \o Send(one \o more, <<>>, FALSE))
        <4> HIDE DEF one, more
        <4> QED BY <3>2, <3>3, MadeConcat
      <3> QED BY <1>a, <1>b, <2>3, <3>4 DEF TransferStoredChat
    <2> QED BY <1>4, <2>2, <2>3
  <1>5. CASE CreateLawyerChat(t) \/ CreateLawyerAssignment(t)
    <2>1. f.client \in Client /\ f.lawyer \in Operator /\ f.manager \in Manager
      BY <1>1, <1>5, HostArguments DEF CreateLawyerChat, CreateLawyerAssignment, Runs
    <2>2. CASE CreateLawyerChat(t)
      <3>1. [do |-> "storeLawyer", manager |-> f.manager, client |-> f.client,
             lawyer |-> f.lawyer] \in AssignmentFrame
        BY <2>1, HostFramesMade
      <3> DEFINE g == [do |-> "storeLawyer", manager |-> f.manager, client |-> f.client,
                       lawyer |-> f.lawyer]
      <3>2. g.do \in Inner \ Methods
        BY DEF Inner, Methods
      <3>3. CASE lawyer_chats' = [lawyer_chats EXCEPT ![f.client] = @ \cup {f.lawyer}]
        <4>1. f.lawyer \in lawyer_chats'[f.client]
          BY <2>1, <3>3 DEF StorageTypeOK
        <4>2. Sound(g)
          BY <4>1 DEF Sound, Grounded
        <4>3. Made(<<Io, g>>) /\ AllInner(<<Io, g>>)
          BY <1>c, <3>1, <3>2, <4>2
        <4> QED BY <1>a, <1>b, <2>2, <4>3 DEF CreateLawyerChat
      <3> QED BY <1>a, <1>b, <2>2, <3>3 DEF CreateLawyerChat
    <2>3. CASE CreateLawyerAssignment(t)
      <3> DEFINE events == <<[event |-> "lawyer_assigned", client |-> f.client,
                              lawyer |-> f.lawyer]>>
      <3>1. events \in Seq(Event)
        <4>1. [event |-> "lawyer_assigned", client |-> f.client, lawyer |-> f.lawyer] \in Event
          BY <2>1 DEF Event
        <4> QED BY <4>1
      <3>2. CASE /\ lawyers' = [lawyers EXCEPT ![f.client] = @ \cup {f.lawyer}]
                 /\ lawyer_chats' = lawyer_chats
        <4>1. Grounded(f, closed, lawyers, lawyer_chats)
          BY <1>0, StackDomain DEF AllGrounded, HostSet
        <4>2. f.lawyer \in lawyers'[f.client] /\ f.lawyer \in lawyer_chats'[f.client]
          BY <2>1, <2>3, <3>2, <4>1 DEF StorageTypeOK, Grounded, CreateLawyerAssignment, Runs
        <4>3. events # <<>> /\ \A i \in DOMAIN events :
                StoredEvent(events[i], closed', lawyers', lawyer_chats')
          BY <4>2 DEF StoredEvent
        <4>4. Outer(Send(events, <<>>, FALSE)) /\ AllInner(Send(events, <<>>, FALSE))
          <5> HIDE DEF events
          <5> QED BY <3>1, <4>3, SendMade
        <4>5. Made(Send(events, <<>>, FALSE))
          BY <4>4 DEF Made, Outer
        <4> QED BY <1>a, <1>b, <2>3, <4>4, <4>5 DEF CreateLawyerAssignment
      <3> QED BY <1>a, <1>b, <2>3, <3>2 DEF CreateLawyerAssignment
    <2> QED BY <1>5, <2>2, <2>3
  <1> QED BY <1>3, <1>4, <1>5

\* Those that run in no lock of a manager, or take one.
LEMMA OuterShape ==
  ASSUME NEW F, HostSet(F), TypedIn(F), StorageTypeOK, NEW t \in Task,
         \/ CloseChat(t) \/ ReadLawyer(t) \/ ManagerRelease(t) \/ MarkChatParticipantLeft(t)
         \/ ManagerAssign(t) \/ ManagerTransfer(t) \/ ManagerLawyer(t)
  PROVE  HostStep(t)
  <1> DEFINE f == Top(t)
  <1>0. /\ Scheduled(t) /\ Busy(t) /\ UNCHANGED queueVars
        /\ f.do \in ManagerMethods /\ f.do \notin Inner
    BY DEF CloseChat, ReadLawyer, ManagerRelease, MarkChatParticipantLeft, ManagerAssign,
       ManagerTransfer, ManagerLawyer, Enters, Runs, Passes, Scheduled, ManagerMethods, Inner,
       Methods
  <1>1. f \in AssignmentFrame
    BY <1>0, HostTop
  <1>a. ASSUME NEW s, Made(s), Continue(t, s), UNCHANGED holder PROVE HostStep(t)
    <2>1. Replaces(t, s)
      BY <1>a DEF Replaces, Continue
    <2> QED BY <1>0, <1>a, <2>1 DEF HostStep, Passing
  <1>b. ASSUME NEW m \in Manager, NEW s, Made(s), AllInner(s), Enters(t, m, s) PROVE HostStep(t)
    BY <1>0, <1>b DEF HostStep, Entering, Enters
  <1>2. CASE CloseChat(t)
    <2> DEFINE events == <<ChatEvent("chat_closed", f.chat)>>
               g == [do |-> "managerRelease", chat |-> f.chat]
               first == IF f.release THEN <<g>> ELSE <<>>
    <2>1. f.chat \in Chat /\ f.release \in BOOLEAN
      BY <1>1, <1>2, HostArguments DEF CloseChat, Runs
    <2>2. Made(first)
      BY <2>1, HostFramesMade, MostSound, ShortMade DEF Methods
    <2>3. CASE closed' = closed \cup {f.chat}
      <3>1. events \in Seq(Event)
        <4>1. ChatEvent("chat_closed", f.chat) \in Event
          BY <2>1 DEF ChatEvent, Event
        <4> QED BY <4>1
      <3>2. events # <<>> /\ \A i \in DOMAIN events :
              StoredEvent(events[i], closed', lawyers', lawyer_chats')
        BY <2>3 DEF StoredEvent, ChatEvent
      <3>3. Outer(Send(events, <<>>, FALSE))
        <4> HIDE DEF events
        <4> QED BY <3>1, <3>2, SendMade
      <3>4. Made(first \o Send(events, <<>>, FALSE))
        <4> HIDE DEF first, events
        <4> QED BY <2>2, <3>3, MadeConcat
      <3> QED BY <1>2, <1>a, <3>4, ShortMade DEF CloseChat
    <2> QED BY <1>2, <1>a, <2>3, ShortMade DEF CloseChat
  <1>3. CASE ReadLawyer(t)
    <2> DEFINE g == [do |-> "managerLawyer", manager |-> "admin", client |-> f.client,
                     lawyer |-> f.lawyer]
    <2>1. f.client \in Client /\ f.lawyer \in Operator
      BY <1>1, <1>3, HostArguments DEF ReadLawyer, Runs
    <2>2. g \in AssignmentFrame /\ g.do \notin Methods
      BY <2>1, HostFramesMade DEF Manager, Methods
    <2>3. Made(<<g>>)
      BY <2>2, MostSound, ShortMade
    <2> QED BY <1>3, <1>a, <2>3, ShortMade DEF ReadLawyer
  <1>4. CASE ManagerRelease(t)
    <2> DEFINE o == chat_assignments[f.chat]
               h == [do |-> "markLeft", chat |-> f.chat, operator |-> o]
               g == [do |-> "release", chat |-> f.chat]
    <2>1. f.chat \in Chat /\ o \in Operator \cup {NoOperator}
      BY <1>1, <1>4, HostArguments DEF ManagerRelease, Runs, TypedIn
    <2>2. g \in Calls /\ g \in AssignmentFrame
      BY <2>1, HostCallsMade DEF AssignmentFrame, Frame
    <2>3. /\ o # NoOperator => h \in AssignmentFrame
          /\ Io \in AssignmentFrame
          /\ h.do \notin Methods /\ Io.do \notin Methods /\ Io.do = "io"
      BY <2>1, HostFramesMade DEF Io, Methods
    <2>4. o # NoOperator => Made(<<g, Io, h>>)
      BY <2>2, <2>3, MostSound, ShortMade
    <2> QED BY <1>4, <1>a, <2>4, ShortMade DEF ManagerRelease, Passes
  <1>5. CASE MarkChatParticipantLeft(t)
    BY <1>5, <1>a, ShortMade DEF MarkChatParticipantLeft
  <1>6. CASE ManagerAssign(t) \/ ManagerTransfer(t)
    <2>1. f.chat \in Chat /\ f.operator \in Operator /\ f.manager \in Manager
      BY <1>1, <1>6, HostArguments DEF ManagerAssign, ManagerTransfer, Runs
    <2>2. CASE ManagerAssign(t)
      <3> DEFINE g == [do |-> "assign", chat |-> f.chat, operator |-> f.operator,
                       client |-> ClientOf[f.chat]]
                 h == [do |-> "storeAssignment", chat |-> f.chat, operator |-> f.operator]
      <3>1. g \in Calls /\ g \in AssignmentFrame /\ h \in AssignmentFrame
        BY <2>1, HostCallsMade, HostFramesMade, CallsHosted
      <3>2. g.do \in Inner /\ h.do \in Inner /\ h.do \notin Methods /\ h.do = "storeAssignment"
        BY DEF Inner, Methods
      <3>3. Made(<<g, h>>) /\ AllInner(<<g, h>>)
        <4>1. g.do \notin {"storeLawyer", "send"}
          BY DEF Methods
        <4> HIDE DEF g, h
        <4>2. Sound(g) /\ Sound(h)
          BY <3>2, <4>1, MostSound
        <4> QED BY <3>1, <3>2, <4>2, ShortMade
      <3> QED BY <1>b, <2>1, <2>2, <3>3, ShortMade DEF ManagerAssign
    <2>3. CASE ManagerTransfer(t)
      <3> DEFINE g == [do |-> "transfer", chat |-> f.chat, operator |-> f.operator]
                 h == [do |-> "storeTransfer", chat |-> f.chat, operator |-> f.operator,
                       forced |-> f.forced]
      <3>0. f.forced \in BOOLEAN
        BY <1>1, <2>3, HostArguments DEF ManagerTransfer, Runs
      <3>1. g \in Calls /\ g \in AssignmentFrame /\ h \in AssignmentFrame
        BY <2>1, <3>0, HostCallsMade, HostFramesMade, CallsHosted
      <3>2. g.do \in Inner /\ h.do \in Inner /\ h.do \notin Methods /\ h.do = "storeTransfer"
        BY DEF Inner, Methods
      <3>3. Made(<<g, h>>) /\ AllInner(<<g, h>>)
        <4>1. g.do \notin {"storeLawyer", "send"}
          BY DEF Methods
        <4> HIDE DEF g, h
        <4>2. Sound(g) /\ Sound(h)
          BY <3>2, <4>1, MostSound
        <4> QED BY <3>1, <3>2, <4>2, ShortMade
      <3> QED BY <1>b, <2>1, <2>3, <3>3, ShortMade DEF ManagerTransfer
    <2> QED BY <1>6, <2>2, <2>3
  <1>7. CASE ManagerLawyer(t)
    <2> DEFINE g == [do |-> "register", operator |-> f.lawyer, type |-> "lawyer"]
               h == [do |-> "createLawyerChat", manager |-> f.manager, client |-> f.client,
                     lawyer |-> f.lawyer]
    <2>1. f.client \in Client /\ f.lawyer \in Operator /\ f.manager \in Manager
      BY <1>1, <1>7, HostArguments DEF ManagerLawyer, Runs
    <2>2. /\ g \in Calls /\ g \in AssignmentFrame
          /\ h \in AssignmentFrame /\ Io \in AssignmentFrame
      BY <2>1, HostCallsMade, HostFramesMade, CallsHosted
    <2>5. /\ g.do \in Inner /\ g.do = "register"
          /\ h.do \in Inner /\ h.do \notin Methods /\ h.do = "createLawyerChat"
          /\ Io.do \in Inner /\ Io.do \notin Methods /\ Io.do = "io"
      BY DEF Inner, Methods, Io
    <2>3. /\ Made(<<Io, h>>) /\ Outer(<<Io, h>>) /\ AllInner(<<Io, h>>)
          /\ Made(<<g>>) /\ AllInner(<<g>>)
      <3> HIDE DEF g, h
      <3> QED BY <2>2, <2>5, MostSound, ShortMade
    <2>4. Made(<<g>> \o <<Io, h>>) /\ AllInner(<<g>> \o <<Io, h>>)
      BY <2>3, MadeConcat
    <2> QED BY <1>7, <1>b, <2>1, <2>3, <2>4 DEF ManagerLawyer
  <1> QED BY <1>2, <1>3, <1>4, <1>5, <1>6, <1>7

LEMMA ManagerShape ==
  ASSUME NEW F, HostSet(F), TypedIn(F), StorageTypeOK, AllGrounded, NEW t \in Task, ManagerStep(t)
  PROVE  HostStep(t) \/ WaitForManager(t)
  <1>1. CASE AwaitDatabase(t)
    <2>1. Scheduled(t) /\ Top(t).do \in ManagerMethods /\ UNCHANGED <<holder, queueVars>>
      BY <1>1 DEF AwaitDatabase, Runs, ManagerMethods
    <2>2. Replaces(t, <<>>)
      <3>1. Tail(stack[t]) \in Seq(F)
        BY <2>1, HeadTailProperties DEF TypedIn, Scheduled, Busy
      <3>2. <<>> \o Tail(stack[t]) = Tail(stack[t])
        BY <3>1, ConcatEmptySeq
      <3> QED BY <1>1, <3>2 DEF AwaitDatabase, Continue, Replaces
    <2>3. Continue(t, <<>>) \/ running' = NoTask
      BY <1>1 DEF AwaitDatabase
    <2> QED BY <2>1, <2>2, <2>3, ShortMade DEF HostStep, Passing
  <1> QED BY <1>1, EndPointShape, StoringShape, OuterShape DEF ManagerStep

-----------------------------------------------------------------------------
(* Types, and what the frames rely on.                                     *)

LEMMA OnlyMethods == \A f \in Frame : f.do \in Methods
  BY DEF Frame, Calls, Methods

\* A sequence over a set is one over every larger set.
LEMMA LargerSet ==
  ASSUME NEW S, NEW R \in SUBSET S, NEW s \in Seq(R)
  PROVE  s \in Seq(S)
  <1>1. s \in [1..Len(s) -> R] /\ Len(s) \in Nat
    BY LenProperties
  <1>2. s \in [1..Len(s) -> S]
    BY <1>1
  <1> QED BY <1>1, <1>2

\* Frames of the managers, and of the methods, are frames of F.
LEMMA HostSequences ==
  ASSUME NEW F, HostSet(F), NEW s, s \in Seq(AssignmentFrame) \/ s \in Seq(Frame)
  PROVE  s \in Seq(F)
  <1>1. s \in Seq(Frame) => s \in Seq(F)
    BY FramesInSet DEF HostSet
  <1>2. s \in Seq(AssignmentFrame) => s \in Seq(F)
    BY LargerSet DEF HostSet
  <1> QED BY <1>1, <1>2

\* What a step of a task does to its stack: frames of G that rely on nothing that
\* is not stored take the place of the one on top.
StackStep(G, t) ==
  /\ Busy(t)
  /\ \/ UNCHANGED stack
     \/ \E s \in Seq(G) : Replaces(t, s) /\ \A i \in DOMAIN s : Sound(s[i])

LEMMA HostStepType ==
  ASSUME NEW F, HostSet(F), TypedIn(F), NEW t \in Task, HostStep(t)
  PROVE  TypedIn(F)' /\ StackStep(AssignmentFrame, t)
  <1>0. Busy(t) /\ FrameSet(F)
    BY DEF HostStep, Scheduled, HostSet
  <1>1. Tail(stack[t]) \in Seq(F)
    BY <1>0, HeadTailProperties DEF TypedIn, Busy
  <1>2. ASSUME NEW s \in Seq(F), Replaces(t, s) PROVE stack' \in [Task -> Seq(F)]
    <2>1. s \o Tail(stack[t]) \in Seq(F)
      BY <1>1, ConcatProperties
    <2> QED BY <1>2, <2>1 DEF TypedIn, Replaces
  <1>3. CASE Passing(t)
    <2>1. PICK s : /\ Made(s) /\ Replaces(t, s)
                   /\ Continue(t, s) \/ (s = <<>> /\ running' = NoTask)
                   /\ UNCHANGED <<holder, queueVars>>
      BY <1>3 DEF Passing
    <2>2. s \in Seq(F)
      BY <2>1, HostSequences DEF Made
    <2>3. running' \in Task \cup {NoTask}
      BY <2>1 DEF Continue
    <2>4. stack' \in [Task -> Seq(F)]
      BY <1>2, <2>1, <2>2
    <2> QED BY <1>0, <2>1, <2>3, <2>4 DEF TypedIn, StackStep, Made, queueVars
  <1>4. CASE Entering(t)
    <2>0. PICK m \in Manager : \E s : /\ Made(s)
                                      /\ Acquire(t, m)
                                      /\ Continue(t, s \o <<LeaveFrame(m)>>)
                                      /\ UNCHANGED queueVars
      BY <1>4 DEF Entering
    <2>1. PICK s : /\ Made(s)
                   /\ Acquire(t, m)
                   /\ Continue(t, s \o <<LeaveFrame(m)>>)
                   /\ UNCHANGED queueVars
      BY <2>0
    <2>2. m \in Lock
      BY ManagerAssumption
    <2>3. /\ <<LeaveFrame(m)>> \in Seq(Frame) /\ <<LeaveFrame(m)>>[1] = LeaveFrame(m)
          /\ DOMAIN <<LeaveFrame(m)>> = {1} /\ Len(<<LeaveFrame(m)>>) = 1
      BY <2>2, FramesMade
    <2> DEFINE q == s \o <<LeaveFrame(m)>>
    <2>4. s \in Seq(AssignmentFrame) /\ Frame \subseteq AssignmentFrame
      BY <2>1 DEF Made, AssignmentFrame
    <2>5. q \in Seq(AssignmentFrame) /\ \A i \in DOMAIN q : Sound(q[i])
      <3>1. Sound(LeaveFrame(m)) /\ LeaveFrame(m) \in AssignmentFrame
        BY <2>2, <2>4, FramesMade, MostSound DEF LeaveFrame
      <3>2. <<LeaveFrame(m)>> \in Seq(AssignmentFrame)
        BY <3>1
      <3>3. /\ q \in Seq(AssignmentFrame) /\ DOMAIN q = 1..Len(s) + 1 /\ Len(s) \in Nat
            /\ DOMAIN s = 1..Len(s)
            /\ \A i \in 1..Len(s) : q[i] = s[i]
            /\ q[Len(s) + 1] = LeaveFrame(m)
        BY <2>3, <2>4, <3>2, ConcatProperties, LenProperties
      <3> HIDE DEF q
      <3>4. \A i \in 1..Len(s) + 1 : i \in 1..Len(s) \/ i = Len(s) + 1
        BY <3>3
      <3> QED BY <2>1, <3>1, <3>3, <3>4 DEF Made
    <2>6. q \in Seq(F) /\ Replaces(t, q)
      BY <2>1, <2>5, HostSequences DEF Continue, Replaces
    <2> HIDE DEF q
    <2>7. stack' \in [Task -> Seq(F)]
      BY <1>2, <2>6
    <2>8. /\ running' \in Task \cup {NoTask}
          /\ holder' \in [Lock -> Task \cup {NoTask}]
      BY <1>0, <2>1, <2>2, AcquireType DEF Continue
    <2>9. StackStep(AssignmentFrame, t)
      BY <1>0, <2>5, <2>6 DEF StackStep
    <2> QED BY <2>1, <2>7, <2>8, <2>9 DEF TypedIn, queueVars
  <1> QED BY <1>3, <1>4 DEF HostStep

\* A step of the queue manager.
LEMMA QueueStackStep ==
  ASSUME NEW F, HostSet(F), TypedIn(F), NEW t \in Task, Step(t)
  PROVE  TypedIn(F)' /\ StackStep(AssignmentFrame, t)
  <1>0. FrameSet(F)
    BY DEF HostSet
  <1>1. TypedIn(F)'
    BY <1>0, StepType
  <1>2. ASSUME NEW s \in Seq(Frame), Replaces(t, s), Busy(t) PROVE StackStep(AssignmentFrame, t)
    <2>1. s \in Seq(AssignmentFrame) /\ s \in [1..Len(s) -> Frame]
      BY AssignmentHosts, HostSequences, LenProperties
    <2>2. \A i \in DOMAIN s : Sound(s[i])
      <3>1. "storeLawyer" \notin Methods /\ "send" \notin Methods
        BY DEF Methods
      <3> QED BY <2>1, <3>1, OnlyMethods, MostSound
    <2> QED BY <1>2, <2>1, <2>2 DEF StackStep
  <1>3. CASE WaitForLock(t)
    BY <1>1, <1>3 DEF WaitForLock, Wait, StackStep
  <1>4. CASE LockStep(t)
    <2>1. Busy(t)
      BY <1>4 DEF LockStep, Scheduled
    <2>2. CASE \E s \in Seq(Frame) : Plain(t, s)
      BY <1>1, <1>2, <2>1, <2>2 DEF Plain, Keeps
    <2>3. CASE \E s \in Seq(Frame), l \in Lock : TakesLock(t, l, s)
      <3>1. PICK s \in Seq(Frame), l \in Lock : TakesLock(t, l, s)
        BY <2>3
      <3>2. Append(s, LeaveFrame(l)) \in Seq(Frame)
        BY FramesMade, AppendProperties
      <3> QED BY <1>1, <1>2, <2>1, <3>1, <3>2 DEF TakesLock, Opens
    <2>4. CASE \E l \in Lock : LeaveBlock(t, l)
      <3>1. Continue(t, <<>>) /\ <<>> \in Seq(Frame)
        BY <2>4 DEF LeaveBlock
      <3> QED BY <1>1, <1>2, <2>1, <3>1 DEF Continue, Replaces
    <2> QED BY <1>4, <2>2, <2>3, <2>4 DEF LockStep
  <1> QED BY <1>0, <1>1, <1>3, <1>4, StepShape

\* What a step adds to the tables stays in them, and they only ever gain what
\* is not the operators' part in a chat.
LEMMA TablesStep ==
  ASSUME NEW F, HostSet(F), TypedIn(F), StorageTypeOK, AllGrounded, LawyersStored,
         NEW t \in Task, ManagerStep(t)
  PROVE  StorageTypeOK' /\ LawyersStored' /\ Grows
  <1> DEFINE f == Top(t)
  <1>1. ASSUME UNCHANGED assignmentVars PROVE StorageTypeOK' /\ LawyersStored' /\ Grows
    BY <1>1 DEF assignmentVars, storageVars, StorageTypeOK, LawyersStored, Grows
  <1>2. ASSUME Busy(t), f.do \in ManagerMethods PROVE f \in AssignmentFrame
    BY <1>2, HostTop
  <1>3. CASE UpdateChatOperator(t) \/ AddChatParticipant(t) \/ MarkChatParticipantLeft(t)
                \/ TransferStoredChat(t)
    <2>1. f.chat \in Chat /\ f.operator \in Operator
      BY <1>2, <1>3, HostArguments DEF UpdateChatOperator, AddChatParticipant,
         MarkChatParticipantLeft, TransferStoredChat, Runs, Scheduled, ManagerMethods
    <2>2. /\ UNCHANGED <<returned, closed, lawyer_chats, lawyers, lawyer_assignments>>
          /\ chat_operator' \in {chat_operator, [chat_operator EXCEPT ![f.chat] = f.operator]}
          /\ participants' \in {participants,
               [participants EXCEPT ![f.chat] = @ \cup {f.operator}],
               [participants EXCEPT ![f.chat] = @ \ {f.operator}],
               [participants EXCEPT ![f.chat] = {f.operator}]}
      BY <1>3 DEF UpdateChatOperator, AddChatParticipant, MarkChatParticipantLeft,
         TransferStoredChat
    <2>3. /\ chat_operator' \in [Chat -> Operator \cup {NoOperator}]
          /\ participants' \in [Chat -> SUBSET Operator]
      BY <2>1, <2>2 DEF StorageTypeOK
    <2> QED BY <2>2, <2>3 DEF StorageTypeOK, LawyersStored, Grows
  <1>4. CASE CloseChat(t)
    <2>1. f.chat \in Chat
      BY <1>2, <1>4, HostArguments DEF CloseChat, Runs, Scheduled, ManagerMethods
    <2> QED BY <1>4, <2>1 DEF CloseChat, StorageTypeOK, LawyersStored, Grows
  <1>5. CASE ReadLawyer(t)
    <2>1. f.client \in Client
      BY <1>2, <1>5, HostArguments DEF ReadLawyer, Runs, Scheduled, ManagerMethods
    <2>2. UNCHANGED <<returned, chat_operator, participants, closed, lawyer_chats, lawyers>>
      BY <1>5 DEF ReadLawyer, storageVars
    <2>3. "admin" \in Manager
      BY DEF Manager
    <2>4. \/ lawyer_assignments' = lawyer_assignments
          \/ \E o \in lawyers[f.client] : lawyer_assignments' =
               [lawyer_assignments EXCEPT !["admin"][f.client] = o]
      BY <1>5 DEF ReadLawyer
    <2>5. lawyer_assignments' \in [Manager -> [Client -> Operator \cup {NoOperator}]]
      BY <2>1, <2>3, <2>4 DEF StorageTypeOK
    <2>6. \A c \in Client, m \in Manager :
            lawyer_assignments'[m][c] \in lawyers[c] \cup {NoOperator}
      BY <2>1, <2>3, <2>4 DEF StorageTypeOK, LawyersStored
    <2> QED BY <2>2, <2>5, <2>6 DEF StorageTypeOK, LawyersStored, Grows
  <1>6. CASE CreateLawyerChat(t)
    <2>1. f.client \in Client /\ f.lawyer \in Operator
      BY <1>2, <1>6, HostArguments DEF CreateLawyerChat, Runs, Scheduled, ManagerMethods
    <2> QED BY <1>6, <2>1 DEF CreateLawyerChat, StorageTypeOK, LawyersStored, Grows
  <1>7. CASE CreateLawyerAssignment(t)
    <2>1. f.client \in Client /\ f.lawyer \in Operator /\ f.manager \in Manager
      BY <1>2, <1>7, HostArguments DEF CreateLawyerAssignment, Runs, Scheduled, ManagerMethods
    <2>2. f.lawyer \in lawyer_chats[f.client]
      <3>1. Busy(t) /\ f.do = "storeLawyer"
        BY <1>7 DEF CreateLawyerAssignment, Runs, Scheduled
      <3>2. Grounded(f, closed, lawyers, lawyer_chats)
        BY <3>1, StackDomain DEF AllGrounded, HostSet
      <3> QED BY <3>1, <3>2 DEF Grounded
    <2>3. UNCHANGED <<returned, chat_operator, participants, closed, lawyer_chats>>
      BY <1>7 DEF CreateLawyerAssignment
    <2>4. \/ UNCHANGED <<lawyers, lawyer_assignments>>
          \/ /\ lawyers' = [lawyers EXCEPT ![f.client] = @ \cup {f.lawyer}]
             /\ lawyer_assignments' =
                  [lawyer_assignments EXCEPT ![f.manager][f.client] = f.lawyer]
      BY <1>7 DEF CreateLawyerAssignment
    <2>5. CASE UNCHANGED <<lawyers, lawyer_assignments>>
      BY <2>3, <2>5 DEF StorageTypeOK, LawyersStored, Grows
    <2>6. CASE /\ lawyers' = [lawyers EXCEPT ![f.client] = @ \cup {f.lawyer}]
               /\ lawyer_assignments' =
                    [lawyer_assignments EXCEPT ![f.manager][f.client] = f.lawyer]
      <3>1. /\ lawyers' \in [Client -> SUBSET Operator]
            /\ \A c \in Client : lawyers'[c] =
                 IF c = f.client THEN lawyers[c] \cup {f.lawyer} ELSE lawyers[c]
        BY <2>1, <2>6 DEF StorageTypeOK
      <3>2. /\ lawyer_assignments' \in [Manager -> [Client -> Operator \cup {NoOperator}]]
            /\ \A m \in Manager, c \in Client : lawyer_assignments'[m][c] =
                 IF m = f.manager /\ c = f.client THEN f.lawyer ELSE lawyer_assignments[m][c]
        BY <2>1, <2>6 DEF StorageTypeOK
      <3>3. StorageTypeOK' /\ Grows
        BY <2>3, <3>1, <3>2 DEF StorageTypeOK, Grows
      <3>4. LawyersStored'
        BY <2>2, <2>3, <3>1, <3>2 DEF LawyersStored
      <3> QED BY <3>3, <3>4
    <2> QED BY <2>4, <2>5, <2>6
  <1>8. CASE ManagerOnline(t) \/ ManagerOffline(t) \/ Connect(t) \/ JoinQueue(t) \/ AcceptChat(t)
               \/ OperatorTransfer(t) \/ AdminTransfer(t) \/ OperatorClose(t) \/ AdminClose(t)
               \/ OperatorLawyer(t) \/ AdminLawyer(t)
    BY <1>1, <1>8 DEF ManagerOnline, ManagerOffline, Connect, JoinQueue, AcceptChat,
       OperatorTransfer, AdminTransfer, OperatorClose, AdminClose, OperatorLawyer, AdminLawyer,
       Passes
  <1>9. CASE ManagerAssign(t) \/ ManagerTransfer(t) \/ ManagerLawyer(t) \/ StoreAssignment(t)
               \/ RollBack(t) \/ ManagerRelease(t) \/ StoreTransfer(t) \/ AwaitDatabase(t)
               \/ WaitForManager(t)
    BY <1>1, <1>9 DEF ManagerAssign, ManagerTransfer, ManagerLawyer, StoreAssignment, RollBack,
       ManagerRelease, StoreTransfer, AwaitDatabase, WaitForManager, Passes, Enters
  <1> QED BY <1>3, <1>4, <1>5, <1>6, <1>7, <1>8, <1>9 DEF ManagerStep

\* What an event says stays stored.
LEMMA StoredStays ==
  ASSUME NEW e \in Event, Grows, StoredEvent(e, closed, lawyers, lawyer_chats)
  PROVE  StoredEvent(e, closed', lawyers', lawyer_chats')
  <1>1. e.event = "lawyer_assigned" => e.client \in Client
    BY DEF Event
  <1> QED BY <1>1 DEF StoredEvent, Grows

\* What a frame relies on stays stored.
LEMMA GroundedStays ==
  ASSUME NEW f, f \in AssignmentFrame \/ f.do \notin ManagerMethods, Grows,
         Grounded(f, closed, lawyers, lawyer_chats)
  PROVE  Grounded(f, closed', lawyers', lawyer_chats')
  <1>1. ASSUME f.do = "storeLawyer" PROVE f.lawyer \in lawyer_chats'[f.client]
    <2>1. f.client \in Client
      BY <1>1, HostArguments DEF ManagerMethods
    <2> QED BY <1>1, <2>1 DEF Grounded, Grows
  <1>2. ASSUME f.do = "send", NEW i \in DOMAIN f.events
        PROVE  StoredEvent(f.events[i], closed', lawyers', lawyer_chats')
    <2>1. f \in SendFrame
      BY <1>2, HostArguments DEF ManagerMethods
    <2>2. f.events[i] \in Event
      BY <1>2, <2>1 DEF SendFrame
    <2>3. StoredEvent(f.events[i], closed, lawyers, lawyer_chats)
      BY <1>2 DEF Grounded
    <2> QED BY <2>2, <2>3, StoredStays
  <1> QED BY <1>1, <1>2 DEF Grounded

LEMMA StackStepGrounded ==
  ASSUME NEW F, HostSet(F), TypedIn(F), AllGrounded, Grows,
         NEW G \in SUBSET F, NEW t \in Task, StackStep(G, t)
  PROVE  AllGrounded'
  <1>1. ASSUME NEW u \in Task, NEW i \in DOMAIN stack[u]
        PROVE  Grounded(stack[u][i], closed', lawyers', lawyer_chats')
    <2>1. stack[u][i] \in F
      BY <1>1 DEF TypedIn
    <2> QED BY <1>1, <2>1, GroundedStays DEF AllGrounded, HostSet
  <1>2. CASE UNCHANGED stack
    BY <1>1, <1>2 DEF AllGrounded
  <1>3. CASE \E s \in Seq(G) : Replaces(t, s) /\ \A i \in DOMAIN s : Sound(s[i])
    <2>1. PICK s \in Seq(G) : Replaces(t, s) /\ \A i \in DOMAIN s : Sound(s[i])
      BY <1>3
    <2>0. s \in Seq(F)
      BY <2>1, LargerSet
    <2>2. Busy(t) /\ FrameSet(F)
      BY DEF StackStep, HostSet
    <2>3. /\ \A u \in Task \ {t} : stack'[u] = stack[u]
          /\ stack'[t] \in Seq(F)
          /\ Len(stack'[t]) = Len(s) + Len(stack[t]) - 1
          /\ \A i \in DOMAIN stack'[t] :
               stack'[t][i] = IF i <= Len(s) THEN s[i] ELSE stack[t][i - Len(s) + 1]
      BY <2>0, <2>1, <2>2, ReplacedFrames
    <2>4. /\ DOMAIN stack'[t] = 1..Len(stack'[t]) /\ DOMAIN s = 1..Len(s) /\ Len(s) \in Nat
          /\ DOMAIN stack[t] = 1..Len(stack[t]) /\ Len(stack[t]) \in Nat
      BY <2>2, <2>3, StackDomain, LenProperties
    <2>5. ASSUME NEW i \in DOMAIN stack'[t]
          PROVE  Grounded(stack'[t][i], closed', lawyers', lawyer_chats')
      <3>1. CASE i <= Len(s)
        <4>1. i \in DOMAIN s /\ stack'[t][i] = s[i]
          BY <2>3, <2>4, <2>5, <3>1
        <4> QED BY <2>1, <4>1 DEF Sound, Grounded
      <3>2. CASE ~(i <= Len(s))
        <4>1. i - Len(s) + 1 \in DOMAIN stack[t] /\ stack'[t][i] = stack[t][i - Len(s) + 1]
          BY <2>3, <2>4, <2>5, <3>2
        <4> QED BY <1>1, <4>1
      <3> QED BY <3>1, <3>2
    <2> QED BY <1>1, <2>3, <2>5 DEF AllGrounded
  <1> QED BY <1>2, <1>3 DEF StackStep

-----------------------------------------------------------------------------
(* The tables.                                                             *)

StorageInv(F) == TypedIn(F) /\ StorageTypeOK /\ AllGrounded /\ LawyersStored

LEMMA StorageStart ==
  ASSUME NEW F, AssignmentInit
  PROVE  StorageInv(F)
  <1>1. TypedIn(F)
    BY InitType DEF AssignmentInit
  <1>2. AllGrounded
    BY DEF AssignmentInit, Init, AsyncInit, AllGrounded
  <1> QED BY <1>1, <1>2 DEF AssignmentInit, StorageInv, StorageTypeOK, LawyersStored

LEMMA QueueStepTables ==
  ASSUME StorageTypeOK, LawyersStored, NEW t \in Task, QueueStep(t)
  PROVE  StorageTypeOK' /\ LawyersStored' /\ Grows
  <1>1. /\ CanTake(Top(t).operator) \in BOOLEAN
        /\ Transferable(Top(t).chat, Top(t).operator) \in BOOLEAN
    BY DEF CanTake, Transferable
  <1>2. returned' \in [Task -> BOOLEAN]
    <2> DEFINE answer == CASE Top(t).do = "assign"   -> CanTake(Top(t).operator)
                           [] Top(t).do = "transfer" -> Transferable(Top(t).chat, Top(t).operator)
                           [] OTHER -> returned[t]
    <2>1. answer \in BOOLEAN
      BY <1>1 DEF StorageTypeOK
    <2>2. returned' = [returned EXCEPT ![t] = answer]
      BY DEF QueueStep
    <2> HIDE DEF answer
    <2> QED BY <2>1, <2>2 DEF StorageTypeOK
  <1> QED BY <1>2 DEF QueueStep, storageVars, StorageTypeOK, LawyersStored, Grows

\* A step of a task, of the managers or of the queue manager.
LEMMA TaskKeepsStorage ==
  ASSUME NEW F, HostSet(F), StorageInv(F), NEW t \in Task, QueueStep(t) \/ ManagerStep(t)
  PROVE  StorageInv(F)' /\ Grows /\ StackStep(AssignmentFrame, t)
  <1>0. TypedIn(F) /\ StorageTypeOK /\ AllGrounded /\ LawyersStored
    BY DEF StorageInv
  <1>5. AssignmentFrame \in SUBSET F
    BY DEF HostSet
  <1>1. StorageTypeOK' /\ LawyersStored' /\ Grows
    BY <1>0, TablesStep, QueueStepTables
  <1>2. CASE QueueStep(t)
    <2>1. TypedIn(F)' /\ StackStep(AssignmentFrame, t)
      BY <1>0, <1>2, QueueStackStep DEF QueueStep
    <2> QED BY <1>0, <1>1, <1>5, <2>1, StackStepGrounded DEF StorageInv
  <1>3. CASE HostStep(t)
    <2>1. TypedIn(F)' /\ StackStep(AssignmentFrame, t)
      BY <1>0, <1>3, HostStepType
    <2> QED BY <1>0, <1>1, <1>5, <2>1, StackStepGrounded DEF StorageInv
  <1>4. CASE WaitForManager(t)
    <2>1. /\ stack' = stack /\ holder' = holder /\ running' = NoTask /\ Busy(t)
          /\ UNCHANGED queueVars
      BY <1>4 DEF WaitForManager, Wait
    <2>2. TypedIn(F)'
      BY <1>0, <2>1 DEF TypedIn, queueVars
    <2>3. StackStep(AssignmentFrame, t)
      BY <2>1 DEF StackStep
    <2> QED BY <1>0, <1>1, <1>5, <2>2, <2>3, StackStepGrounded DEF StorageInv
  <1> QED BY <1>0, <1>2, <1>3, <1>4, ManagerShape

\* A frame that relies on nothing is put on the stack of an idle task.
LEMMA StartKeepsStorage ==
  ASSUME NEW F, StorageInv(F), NEW t \in Task, NEW f \in F, f.do \notin {"storeLawyer", "send"},
         Start(t, f), UNCHANGED <<queueVars, assignmentVars>>
  PROVE  StorageInv(F)'
  <1>1. /\ stack' = [stack EXCEPT ![t] = <<f>>] /\ running' = t /\ holder' = holder
    BY DEF Start
  <1>2. TypedIn(F)'
    BY <1>1 DEF StorageInv, TypedIn, queueVars
  <1>3. AllGrounded'
    <2>1. Grounded(f, closed, lawyers, lawyer_chats)
      BY DEF Grounded
    <2>2. stack'[t] = <<f>> /\ \A u \in Task \ {t} : stack'[u] = stack[u]
      BY <1>1 DEF StorageInv, TypedIn
    <2> QED BY <2>1, <2>2 DEF StorageInv, AllGrounded, assignmentVars, storageVars
  <1> QED BY <1>2, <1>3 DEF StorageInv, StorageTypeOK, LawyersStored, assignmentVars, storageVars

LEMMA StorageStep ==
  ASSUME StorageInv(AssignmentFrame), [AssignmentNext]_allVars
  PROVE  StorageInv(AssignmentFrame)'
  <1> DEFINE F == AssignmentFrame
  <1>1. CASE UNCHANGED allVars
    BY <1>1 DEF allVars, vars, asyncVars, queueVars, assignmentVars, storageVars, StorageInv,
       TypedIn, StorageTypeOK, AllGrounded, LawyersStored
  <1>2. ASSUME NEW t \in Task, Enter(t) PROVE StorageInv(F)'
    <2>1. PICK f \in EntryCalls : Start(t, f)
      BY <1>2 DEF Enter
    <2>2. f \in F /\ f.do \notin {"storeLawyer", "send"}
      BY DEF AssignmentFrame, EntryCalls, PriorityCalls, RemovalCalls
    <2> QED BY <1>2, <2>1, <2>2, StartKeepsStorage DEF Enter
  <1>3. ASSUME NEW t \in Task, QueueStep(t) \/ ManagerStep(t) PROVE StorageInv(F)'
    BY <1>3, AssignmentHosts, TaskKeepsStorage
  <1> QED BY <1>1, <1>2, <1>3 DEF AssignmentNext

\* Every reachable state satisfies the invariant of the tables.
THEOREM StorageInvariant == AssignmentSpec => []StorageInv(AssignmentFrame)
  <1>1. AssignmentInit => StorageInv(AssignmentFrame)
    BY StorageStart
  <1> QED BY <1>1, StorageStep, PTL DEF AssignmentSpec

\* Whatever fails on the way, a manager only remembers a lawyer who is stored
\* as the client's, and he has a chat with the client.
THEOREM LawyersAreStored == AssignmentSpec => []LawyersStored
  <1>1. StorageInv(AssignmentFrame) => LawyersStored
    BY DEF StorageInv
  <1> QED BY <1>1, StorageInvariant, PTL

-----------------------------------------------------------------------------
(* What the queue manager sees of a stack.                                 *)

\* The first n frames of s are those of the queue manager.
QueueLayer(s, n) ==
  /\ n <= Len(s)
  /\ \A i \in DOMAIN s : OfQueue(s[i]) <=> i <= n

\* The queue manager never calls back: its frames are on top of the others.
InLayers(s) == \E n \in Nat : QueueLayer(s, n)

Layered == \A t \in Task : InLayers(stack[t])

AllOfQueue(s) == \A i \in DOMAIN s : OfQueue(s[i])

LEMMA LayerIsPart ==
  ASSUME NEW F, NEW s \in Seq(F), NEW n \in Nat, QueueLayer(s, n)
  PROVE  /\ QueuePart(s) \in Seq(F)
         /\ Len(QueuePart(s)) = n
         /\ \A i \in 1..n : QueuePart(s)[i] = s[i]
  <1>1. /\ Len(s) \in Nat /\ DOMAIN s = 1..Len(s)
        /\ n \in 0..Len(s)
        /\ \A i \in 1..Len(s) : OfQueue(s[i]) <=> i <= n
    BY LenProperties DEF QueueLayer
  <1> DEFINE P(k) == /\ \A i \in 1..k : OfQueue(s[i])
                     /\ k < Len(s) => ~OfQueue(s[k + 1])
  <1>2. P(n)
    BY <1>1
  <1>3. ASSUME NEW k \in 0..Len(s), P(k) PROVE k = n
    <2>1. ~(k > n)
      <3>1. ASSUME k > n PROVE FALSE
        <4>1. n + 1 \in 1..k /\ n + 1 \in 1..Len(s) /\ ~(n + 1 <= n)
          BY <1>1, <3>1
        <4> QED BY <1>1, <1>3, <4>1
      <3> QED BY <3>1
    <2>2. ~(k < n)
      <3>1. ASSUME k < n PROVE FALSE
        <4>1. k + 1 \in 1..Len(s) /\ k + 1 <= n /\ k < Len(s)
          BY <1>1, <3>1
        <4> QED BY <1>1, <1>3, <4>1
      <3> QED BY <3>1
    <2> QED BY <1>1, <2>1, <2>2
  <1>4. QueueDepth(s) = n
    <2>1. QueueDepth(s) = CHOOSE k \in 0..Len(s) : P(k)
      BY DEF QueueDepth
    <2> HIDE DEF P
    <2> QED BY <1>1, <1>2, <1>3, <2>1
  <1>5. /\ SubSeq(s, 1, n) \in Seq(F) /\ Len(SubSeq(s, 1, n)) = n
        /\ \A i \in 1..n : SubSeq(s, 1, n)[i] = s[i]
    <2>1. 1 \in 1..Len(s) + 1 /\ n \in 0..Len(s)
      BY <1>1
    <2> QED BY <1>1, <2>1, SubSeqProperties
  <1> QED BY <1>1, <1>4, <1>5 DEF QueuePart

\* One frame of s is replaced by the frames q.
LEMMA LayerReplaced ==
  ASSUME NEW F, NEW s \in Seq(F), s # <<>>, InLayers(s),
         NEW q \in Seq(F), InLayers(q), OfQueue(Head(s)) => AllOfQueue(q),
         NEW r, r = q \o Tail(s)
  PROVE  /\ InLayers(r)
         /\ ~OfQueue(Head(s)) => QueuePart(r) = QueuePart(q)
         /\ OfQueue(Head(s)) => QueuePart(r) = q \o Tail(QueuePart(s))
  <1>0. PICK n \in Nat, m \in Nat : QueueLayer(s, n) /\ QueueLayer(q, m)
    BY DEF InLayers
  <1>1. PICK a \in Nat, b \in Nat :
          /\ a = Len(s) /\ a # 0 /\ DOMAIN s = 1..a /\ n <= a
          /\ b = Len(q) /\ DOMAIN q = 1..b /\ m <= b
    <2>1. /\ Len(s) \in Nat /\ DOMAIN s = 1..Len(s) /\ n <= Len(s)
          /\ Len(q) \in Nat /\ DOMAIN q = 1..Len(q) /\ m <= Len(q)
      BY <1>0, LenProperties DEF QueueLayer
    <2>2. Len(s) # 0
      BY EmptySeq
    <2> QED BY <2>1, <2>2
  <1>h. OfQueue(Head(s)) <=> n # 0
    <2>1. 1 \in DOMAIN s /\ Head(s) = s[1]
      BY <1>1, HeadTailProperties
    <2>2. OfQueue(Head(s)) <=> 1 <= n
      BY <1>0, <2>1 DEF QueueLayer
    <2> QED BY <2>2
  <1>m. n # 0 => m = b
    <2>1. ASSUME n # 0, m # b PROVE FALSE
      <3>1. b \in DOMAIN q /\ ~(b <= m)
        BY <1>1, <2>1
      <3> QED BY <1>0, <1>h, <2>1, <3>1 DEF QueueLayer, AllOfQueue
    <2> QED BY <2>1
  <1>k. PICK k \in Nat : /\ n = 0 => k = m
                         /\ n # 0 => k = b + n - 1
    <2>1. CASE n = 0
      BY <2>1
    <2>2. CASE n # 0
      <3>1. b + n - 1 \in Nat
        BY <2>2
      <3> QED BY <2>2, <3>1
    <2> QED BY <2>1, <2>2
  <1>2. /\ Tail(s) \in Seq(F) /\ Len(Tail(s)) = a - 1
        /\ \A i \in 1..Len(Tail(s)) : Tail(s)[i] = s[i + 1]
    BY <1>1, HeadTailProperties
  <1>3. /\ r \in Seq(F) /\ Len(r) = b + a - 1 /\ DOMAIN r = 1..Len(r)
        /\ \A i \in 1..Len(r) : r[i] = IF i <= b THEN q[i] ELSE Tail(s)[i - b]
    <2>1. /\ r \in Seq(F) /\ Len(r) = b + Len(Tail(s))
          /\ \A i \in 1..(b + Len(Tail(s))) :
               r[i] = IF i <= b THEN q[i] ELSE Tail(s)[i - b]
      BY <1>1, <1>2, ConcatProperties
    <2>2. DOMAIN r = 1..Len(r)
      BY <2>1, LenProperties
    <2>3. b + Len(Tail(s)) = b + a - 1
      BY <1>1, <1>2
    <2> QED BY <2>1, <2>2, <2>3
  <1>4. \A i \in 1..Len(r) : r[i] = IF i <= b THEN q[i] ELSE s[i - b + 1]
    <2> TAKE i \in 1..Len(r)
    <2>1. CASE i <= b
      BY <1>3, <2>1
    <2>2. CASE ~(i <= b)
      <3>1. i - b \in 1..Len(Tail(s))
        BY <1>1, <1>2, <1>3, <2>2
      <3> QED BY <1>2, <1>3, <2>2, <3>1
    <2> QED BY <2>1, <2>2
  <1>5. QueueLayer(r, k)
    <2>1. k <= Len(r)
      BY <1>1, <1>k, <1>3
    <2>2. ASSUME NEW i \in DOMAIN r PROVE OfQueue(r[i]) <=> i <= k
      <3>1. CASE i <= b
        <4>1. i \in DOMAIN q /\ r[i] = q[i]
          BY <1>1, <1>3, <1>4, <2>2, <3>1
        <4>2. OfQueue(r[i]) <=> i <= m
          BY <1>0, <4>1 DEF QueueLayer
        <4>3. i \in Nat
          BY <1>1, <4>1
        <4> QED BY <1>1, <1>m, <1>k, <3>1, <4>2, <4>3
      <3>2. CASE ~(i <= b)
        <4>1. i - b + 1 \in DOMAIN s /\ r[i] = s[i - b + 1]
          BY <1>1, <1>3, <1>4, <2>2, <3>2
        <4>2. OfQueue(r[i]) <=> i - b + 1 <= n
          BY <1>0, <4>1 DEF QueueLayer
        <4>3. i \in Nat
          BY <1>1, <1>3, <2>2
        <4> QED BY <1>1, <1>k, <3>2, <4>2, <4>3
      <3> QED BY <3>1, <3>2
    <2> QED BY <2>1, <2>2 DEF QueueLayer
  <1>6. /\ QueuePart(r) \in Seq(F) /\ Len(QueuePart(r)) = k
        /\ \A i \in 1..k : QueuePart(r)[i] = r[i]
    BY <1>3, <1>5, LayerIsPart
  <1>7. /\ QueuePart(q) \in Seq(F) /\ Len(QueuePart(q)) = m
        /\ \A i \in 1..m : QueuePart(q)[i] = q[i]
    BY <1>0, LayerIsPart
  <1>8. /\ QueuePart(s) \in Seq(F) /\ Len(QueuePart(s)) = n
        /\ \A i \in 1..n : QueuePart(s)[i] = s[i]
    BY <1>0, LayerIsPart
  <1>9. ASSUME n = 0 PROVE QueuePart(r) = QueuePart(q)
    <2>1. k = m /\ \A i \in 1..m : i \in 1..Len(r) /\ i <= b
      BY <1>1, <1>k, <1>3, <1>9
    <2>2. \A i \in 1..m : QueuePart(r)[i] = QueuePart(q)[i]
      BY <1>4, <1>6, <1>7, <2>1
    <2> QED BY <1>6, <1>7, <2>1, <2>2, SeqEqual
  <1>10. ASSUME n # 0
         PROVE  QueuePart(r) = q \o Tail(QueuePart(s))
    <2>1. n \in Nat /\ n # 0 /\ m = b /\ k = b + n - 1
      BY <1>m, <1>k, <1>10
    <2>2. QueuePart(s) # <<>>
      BY <1>8, <2>1, EmptySeq
    <2>3. /\ Tail(QueuePart(s)) \in Seq(F) /\ Len(Tail(QueuePart(s))) = n - 1
          /\ \A i \in 1..Len(Tail(QueuePart(s))) : Tail(QueuePart(s))[i] = QueuePart(s)[i + 1]
      BY <1>8, <2>1, <2>2, HeadTailProperties
    <2> DEFINE w == q \o Tail(QueuePart(s))
    <2>4. /\ w \in Seq(F) /\ Len(w) = k
          /\ \A i \in 1..k : w[i] = IF i <= b THEN q[i] ELSE Tail(QueuePart(s))[i - b]
      <3>1. /\ w \in Seq(F) /\ Len(w) = b + Len(Tail(QueuePart(s)))
            /\ \A i \in 1..(b + Len(Tail(QueuePart(s)))) :
                 w[i] = IF i <= b THEN q[i] ELSE Tail(QueuePart(s))[i - b]
        BY <1>1, <2>3, ConcatProperties
      <3>2. b + Len(Tail(QueuePart(s))) = k
        BY <2>1, <2>3
      <3> QED BY <3>1, <3>2
    <2>5. \A i \in 1..k : w[i] = QueuePart(r)[i]
      <3> TAKE i \in 1..k
      <3>0. i \in 1..Len(r) /\ QueuePart(r)[i] = r[i]
        BY <1>1, <1>3, <1>6, <2>1
      <3>1. CASE i <= b
        BY <1>4, <2>4, <3>0, <3>1
      <3>2. CASE ~(i <= b)
        <4>1. i - b \in 1..(n - 1) /\ i - b + 1 \in 1..n
          BY <1>1, <2>1, <3>2
        <4>2. w[i] = s[i - b + 1]
          BY <1>8, <2>3, <2>4, <3>2, <4>1
        <4> QED BY <1>4, <3>0, <3>2, <4>2
      <3> QED BY <3>1, <3>2
    <2>6. w = QueuePart(r)
      <3> HIDE DEF w
      <3> QED BY <1>6, <2>4, <2>5, SeqEqual
    <2> QED BY <2>6
  <1> QED BY <1>5, <1>9, <1>10, <1>h DEF InLayers

\* The locks of the managers are not those of the queue manager.
LEMMA LocksApart ==
  /\ QueueLocks \subseteq Lock
  /\ \A m \in Manager : m \in Lock /\ m \notin QueueLocks
  BY ManagerAssumption DEF QueueLocks, Manager

\* The methods' frames are those the queue manager sees, the ends of other
\* locks' blocks excepted.
LEMMA OfQueueMethods ==
  /\ \A f : OfQueue(f) => f.do \in Methods
  /\ \A f : f.do \in Methods /\ f.do # "leave" => OfQueue(f)
  /\ \A l \in QueueLocks : OfQueue(LeaveFrame(l))
  /\ \A l : l \notin QueueLocks => ~OfQueue(LeaveFrame(l))
  BY DEF OfQueue, QueueFrames, Methods, LeaveFrame

LEMMA QueueTop ==
  ASSUME NEW F, FrameSet(F), TypedIn(F), Layered, NEW t \in Task
  PROVE  /\ ~Busy(t) => QueueStack[t] = <<>>
         /\ Busy(t) /\ ~OfQueue(Top(t)) => QueueStack[t] = <<>>
         /\ Busy(t) /\ OfQueue(Top(t)) =>
              QueueStack[t] # <<>> /\ Head(QueueStack[t]) = Top(t)
  <1>1. PICK n \in Nat : QueueLayer(stack[t], n)
    BY DEF Layered, InLayers
  <1>2. stack[t] \in Seq(F) /\ QueueStack[t] = QueuePart(stack[t])
    BY DEF TypedIn, QueueStack
  <1>3. /\ QueueStack[t] \in Seq(F) /\ Len(QueueStack[t]) = n
        /\ \A i \in 1..n : QueueStack[t][i] = stack[t][i]
    BY <1>1, <1>2, LayerIsPart
  <1>4. ASSUME n = 0 PROVE QueueStack[t] = <<>>
    BY <1>3, <1>4, EmptySeq
  <1>5. CASE ~Busy(t)
    <2>1. Len(stack[t]) = 0
      BY <1>5 DEF Busy
    <2>2. n = 0
      BY <1>1, <2>1 DEF QueueLayer
    <2> QED BY <1>4, <1>5, <2>2
  <1>6. CASE Busy(t)
    <2>1. 1 \in DOMAIN stack[t] /\ stack[t][1] = Top(t)
      BY <1>6, StackDomain
    <2>2. OfQueue(Top(t)) <=> 1 <= n
      BY <1>1, <2>1 DEF QueueLayer
    <2>3. CASE ~OfQueue(Top(t))
      BY <1>4, <1>6, <2>2, <2>3
    <2>4. CASE OfQueue(Top(t))
      <3>1. n # 0 /\ 1 \in 1..n
        BY <2>2, <2>4
      <3>2. QueueStack[t] # <<>>
        BY <1>3, <3>1, EmptySeq
      <3>3. Head(QueueStack[t]) = QueueStack[t][1]
        BY <1>3, <3>2, HeadTailProperties
      <3> QED BY <1>3, <1>6, <2>1, <2>4, <3>1, <3>2, <3>3
    <2> QED BY <2>3, <2>4
  <1> QED BY <1>5, <1>6

\* The frame on top of t is replaced by the frames s.
LEMMA LayersReplaced ==
  ASSUME NEW F, FrameSet(F), TypedIn(F), Layered, NEW t \in Task, Busy(t),
         NEW G, NEW s \in Seq(G), InLayers(s),
         OfQueue(Top(t)) => AllOfQueue(s), Replaces(t, s)
  PROVE  /\ Layered'
         /\ OfQueue(Top(t)) =>
              QueueStack' = [QueueStack EXCEPT ![t] = s \o Tail(QueueStack[t])]
         /\ ~OfQueue(Top(t)) =>
              QueueStack' = [QueueStack EXCEPT ![t] = QueuePart(s)]
  <1> DEFINE H == F \cup G
             st == stack[t]
             r == s \o Tail(stack[t])
  <1>1. InLayers(st)
    BY DEF Layered
  <1>2. st \in Seq(F) /\ st # <<>>
    BY DEF TypedIn, Busy
  <1>3. st \in Seq(H) /\ s \in Seq(H)
    <2>1. /\ st \in [1..Len(st) -> F] /\ Len(st) \in Nat
          /\ s \in [1..Len(s) -> G] /\ Len(s) \in Nat
      BY <1>2, LenProperties
    <2>2. st \in [1..Len(st) -> H] /\ s \in [1..Len(s) -> H]
      BY <2>1
    <2> QED BY <2>1, <2>2
  <1>4. /\ stack'[t] = r
        /\ \A u \in Task \ {t} : stack'[u] = stack[u]
    BY DEF Replaces, TypedIn
  <1>5. /\ InLayers(r)
        /\ ~OfQueue(Top(t)) => QueuePart(r) = QueuePart(s)
        /\ OfQueue(Top(t)) => QueuePart(r) = s \o Tail(QueuePart(st))
    <2>1. r = s \o Tail(st) /\ Top(t) = Head(st)
      BY DEF Top
    <2>2. OfQueue(Head(st)) => AllOfQueue(s)
      BY <2>1
    <2> HIDE DEF H, st, r
    <2>3. /\ InLayers(r)
          /\ ~OfQueue(Head(st)) => QueuePart(r) = QueuePart(s)
          /\ OfQueue(Head(st)) => QueuePart(r) = s \o Tail(QueuePart(st))
      BY <1>1, <1>2, <1>3, <2>1, <2>2, LayerReplaced, ZenonT(40)
    <2> QED BY <2>1, <2>3
  <1>6. Layered'
    <2> HIDE DEF r
    <2> SUFFICES ASSUME NEW u \in Task PROVE InLayers(stack'[u])
      BY DEF Layered
    <2>1. CASE u = t
      BY <1>4, <1>5, <2>1
    <2>2. CASE u # t
      BY <1>4, <2>2 DEF Layered
    <2> QED BY <2>1, <2>2
  <1>7. ASSUME NEW x, QueuePart(r) = x
        PROVE  QueueStack' = [QueueStack EXCEPT ![t] = x]
    <2> HIDE DEF r
    <2>1. \A u \in Task : QueuePart(stack'[u]) = IF u = t THEN x ELSE QueuePart(stack[u])
      BY <1>4, <1>7
    <2>2. QueueStack' = [u \in Task |-> IF u = t THEN x ELSE QueuePart(stack[u])]
      BY <2>1 DEF QueueStack
    <2> QED BY <2>2 DEF QueueStack
  <1>8. QueuePart(st) = QueueStack[t]
    BY DEF QueueStack
  <1> HIDE DEF st, r, H
  <1> QED BY <1>5, <1>6, <1>7, <1>8

LEMMA AllLayers ==
  ASSUME NEW G, NEW s \in Seq(G), AllOfQueue(s)
  PROVE  InLayers(s) /\ QueuePart(s) = s
  <1>1. Len(s) \in Nat /\ DOMAIN s = 1..Len(s)
    BY LenProperties
  <1>2. QueueLayer(s, Len(s))
    BY <1>1 DEF QueueLayer, AllOfQueue
  <1>3. /\ QueuePart(s) \in Seq(G) /\ Len(QueuePart(s)) = Len(s)
        /\ \A i \in 1..Len(s) : QueuePart(s)[i] = s[i]
    BY <1>1, <1>2, LayerIsPart
  <1>4. QueuePart(s) = s
    BY <1>1, <1>3, SeqEqual
  <1> QED BY <1>1, <1>2, <1>4 DEF InLayers

LEMMA NoLayers == InLayers(<<>>) /\ AllOfQueue(<<>>) /\ QueuePart(<<>>) = <<>>
  <1>1. <<>> \in Seq({}) /\ AllOfQueue(<<>>)
    BY DEF AllOfQueue
  <1> QED BY <1>1, AllLayers

\* Only the first of the frames s can be one of the queue manager's.
LEMMA FirstLayer ==
  ASSUME NEW G, NEW s \in Seq(G), \A i \in DOMAIN s : OfQueue(s[i]) => i = 1
  PROVE  /\ InLayers(s)
         /\ \/ QueuePart(s) = <<>>
            \/ 1 \in DOMAIN s /\ OfQueue(s[1]) /\ QueuePart(s) = <<s[1]>>
  <1>1. Len(s) \in Nat /\ DOMAIN s = 1..Len(s)
    BY LenProperties
  <1>2. CASE 1 \in DOMAIN s /\ OfQueue(s[1])
    <2>1. QueueLayer(s, 1)
      BY <1>1, <1>2 DEF QueueLayer
    <2>2. /\ QueuePart(s) \in Seq(G) /\ Len(QueuePart(s)) = 1
          /\ \A i \in 1..1 : QueuePart(s)[i] = s[i]
      BY <2>1, LayerIsPart
    <2>3. QueuePart(s) = <<s[1]>>
      <3>1. s[1] \in G
        BY <1>2
      <3>2. <<s[1]>> \in Seq(G) /\ Len(<<s[1]>>) = 1 /\ <<s[1]>>[1] = s[1]
        BY <3>1
      <3>3. \A i \in 1..1 : QueuePart(s)[i] = <<s[1]>>[i]
        BY <2>2, <3>2
      <3> QED BY <2>2, <3>2, <3>3, SeqEqual
    <2> QED BY <1>2, <2>1, <2>3 DEF InLayers
  <1>3. CASE ~(1 \in DOMAIN s /\ OfQueue(s[1]))
    <2>1. \A i \in DOMAIN s : ~OfQueue(s[i])
      BY <1>3
    <2>2. QueueLayer(s, 0)
      BY <1>1, <2>1 DEF QueueLayer
    <2>3. QueuePart(s) \in Seq(G) /\ Len(QueuePart(s)) = 0
      BY <2>2, LayerIsPart
    <2>4. QueuePart(s) = <<>>
      BY <2>3, EmptySeq
    <2> QED BY <2>2, <2>4 DEF InLayers
  <1> QED BY <1>2, <1>3

-----------------------------------------------------------------------------
(* What a step is to the queue manager.                                    *)

\* The task it sees running, and its locks.
QueueRunning ==
  IF running = NoTask THEN NoTask
  ELSE IF QueueStack[running] = <<>> THEN NoTask ELSE running

QueueHolder == [l \in QueueLocks |-> holder[l]]

LEMMA QueueScheduled ==
  ASSUME NEW F, FrameSet(F), TypedIn(F), Layered, NEW t \in Task, Scheduled(t)
  PROVE  /\ QueueRunning \in {t, NoTask}
         /\ OfQueue(Top(t)) =>
              /\ Q!Scheduled(t) /\ Q!Top(t) = Top(t)
              /\ \A do : Runs(t, do) => Q!Runs(t, do)
         /\ ~OfQueue(Top(t)) => QueueStack[t] = <<>> /\ QueueRunning = NoTask
  <1>1. Busy(t) /\ running \in {t, NoTask}
    BY DEF Scheduled
  <1>2. /\ ~OfQueue(Top(t)) => QueueStack[t] = <<>>
        /\ OfQueue(Top(t)) => QueueStack[t] # <<>> /\ Head(QueueStack[t]) = Top(t)
    BY <1>1, QueueTop
  <1>3. /\ QueueRunning \in {t, NoTask}
        /\ ~OfQueue(Top(t)) => QueueRunning = NoTask
    BY <1>1, <1>2 DEF QueueRunning
  <1>4. ASSUME OfQueue(Top(t)) PROVE Q!Scheduled(t) /\ Q!Top(t) = Top(t)
    BY <1>2, <1>3, <1>4 DEF Q!Scheduled, Q!Busy, Q!Top, QueueRunning
  <1> QED BY <1>2, <1>3, <1>4 DEF Q!Runs, Runs

\* A step of a method of the queue manager makes the calls s.
LEMMA QueueContinues ==
  ASSUME NEW F, FrameSet(F), TypedIn(F), Layered, NEW t \in Task, Busy(t), OfQueue(Top(t)),
         NEW G, NEW s \in Seq(G), AllOfQueue(s), Continue(t, s)
  PROVE  Q!Continue(t, s)
  <1>1. Replaces(t, s)
    BY DEF Continue, Replaces
  <1>2. QueueStack' = [QueueStack EXCEPT ![t] = s \o Tail(QueueStack[t])]
    BY <1>1, AllLayers, LayersReplaced
  <1> DEFINE rest == s \o Tail(QueueStack[t])
  <1>3. QueueStack'[t] = rest
    BY <1>2 DEF QueueStack
  <1>4. running' = IF stack'[t] = <<>> THEN NoTask ELSE t
    BY DEF Continue, TypedIn
  <1>5. stack'[t] = <<>> => QueueStack'[t] = <<>>
    BY NoLayers DEF QueueStack
  <1>6. QueueRunning' = IF rest = <<>> THEN NoTask ELSE t
    <2> HIDE DEF rest
    <2> QED BY <1>3, <1>4, <1>5, TaskAssumption DEF QueueRunning
  <1> QED BY <1>2, <1>6 DEF Q!Continue, QueueRunning

\* The sequences of calls the methods make.
LEMMA QueueContinuesShort ==
  ASSUME NEW F, FrameSet(F), TypedIn(F), Layered, NEW t \in Task, Busy(t), OfQueue(Top(t))
  PROVE  /\ Continue(t, <<>>) => Q!Continue(t, <<>>)
         /\ \A f : OfQueue(f) /\ Continue(t, <<f>>) => Q!Continue(t, <<f>>)
         /\ \A f, g : OfQueue(f) /\ OfQueue(g) /\ Continue(t, <<f, g>>) => Q!Continue(t, <<f, g>>)
  <1>1. Continue(t, <<>>) => Q!Continue(t, <<>>)
    <2>1. <<>> \in Seq({})
      OBVIOUS
    <2> QED BY <2>1, NoLayers, QueueContinues
  <1>2. ASSUME NEW f, OfQueue(f), Continue(t, <<f>>) PROVE Q!Continue(t, <<f>>)
    <2>1. <<f>> \in Seq({f}) /\ AllOfQueue(<<f>>)
      BY <1>2 DEF AllOfQueue
    <2> QED BY <1>2, <2>1, QueueContinues
  <1>3. ASSUME NEW f, NEW g, OfQueue(f), OfQueue(g), Continue(t, <<f, g>>)
        PROVE  Q!Continue(t, <<f, g>>)
    <2>1. <<f, g>> \in Seq({f, g}) /\ AllOfQueue(<<f, g>>)
      BY <1>3 DEF AllOfQueue
    <2> QED BY <1>3, <2>1, QueueContinues
  <1> QED BY <1>1, <1>2, <1>3

\* Its locks are those of the same name.
LEMMA QueueAcquires ==
  ASSUME NEW F, FrameSet(F), TypedIn(F)
  PROVE  /\ \A t \in Task, l \in QueueLocks : Acquire(t, l) => Q!Acquire(t, l)
         /\ UNCHANGED holder => UNCHANGED QueueHolder
         /\ \A t \in Task, m \in Manager : Acquire(t, m) => UNCHANGED QueueHolder
  <1>1. QueueLocks \subseteq Lock
    BY LocksApart
  <1>2. ASSUME NEW t \in Task, NEW l \in QueueLocks, Acquire(t, l) PROVE Q!Acquire(t, l)
    BY <1>1, <1>2 DEF Acquire, Q!Acquire, TypedIn
  <1>3. ASSUME NEW t \in Task, NEW m \in Manager, Acquire(t, m) PROVE UNCHANGED QueueHolder
    BY <1>1, <1>3, LocksApart DEF Acquire, QueueHolder, TypedIn
  <1> QED BY <1>2, <1>3 DEF QueueHolder

\* It reads the same dictionaries.
LEMMA QueueCounts == \A S : Q!Cardinality(S) = Cardinality(S)
  BY DEF Q!Cardinality, Cardinality

LEMMA QueueReads ==
  /\ Q!Waiting = Waiting
  /\ \A o : Q!Registered(o) = Registered(o) /\ Q!CanAcceptChat(o) = CanAcceptChat(o)
  /\ \A ops, o : Q!CanAccept(ops, o) = CanAccept(ops, o)
  /\ Q!AvailableSupport = AvailableSupport /\ Q!LeastLoaded = LeastLoaded
  /\ Q!SortedClients = SortedClients
  /\ \A c : Q!Without(c) = Without(c)
  /\ \A ch, o : Q!Discarding(ch, o) = Discarding(ch, o)
  /\ \A ch, o : Q!Transferable(ch, o) = Transferable(ch, o)
  /\ \A l : Q!LeaveFrame(l) = LeaveFrame(l)
  /\ Q!Calls = Calls
  <1> USE DEF Q!Waiting, Waiting, Q!Registered, Registered, Q!CanAcceptChat, CanAcceptChat,
        Q!CanAccept, CanAccept
  <1>0. \A S : Q!Cardinality(S) = Cardinality(S)
    BY QueueCounts
  <1>1. /\ Q!Waiting = Waiting
        /\ \A o : Q!Registered(o) = Registered(o) /\ Q!CanAcceptChat(o) = CanAcceptChat(o)
        /\ \A ops, o : Q!CanAccept(ops, o) = CanAccept(ops, o)
    BY <1>0
  <1>2. Q!AvailableSupport = AvailableSupport
    BY <1>0 DEF Q!AvailableSupport, AvailableSupport
  <1>3. Q!LeastLoaded = LeastLoaded
    BY <1>0 DEF Q!AvailableSupport, AvailableSupport, Q!LeastLoaded, LeastLoaded, Q!Load, Load
  <1>4. Q!SortedClients = SortedClients
    BY <1>0 DEF Q!SortedClients, SortedClients, Q!Before, Before
  <1>5. /\ \A c : Q!Without(c) = Without(c)
        /\ \A ch, o : Q!Discarding(ch, o) = Discarding(ch, o)
        /\ \A ch, o : Q!Transferable(ch, o) = Transferable(ch, o)
        /\ \A l : Q!LeaveFrame(l) = LeaveFrame(l)
    BY <1>0 DEF Q!Without, Without, Q!Discarding, Discarding, Q!Transferable, Transferable,
       Q!LeaveFrame, LeaveFrame
  <1>6. Q!Calls = Calls
    BY DEF Q!Calls, Calls
  <1> QED BY <1>1, <1>2, <1>3, <1>4, <1>5, <1>6

LEMMA StepTop ==
  ASSUME NEW t \in Task, Step(t)
  PROVE  /\ Busy(t) /\ Top(t).do \in Methods
         /\ running \in {t, NoTask}
         /\ Scheduled(t) \/ WaitForLock(t)
  BY DEF Step, AddClientToQueue, RemoveClientFromQueue, UpdateQueuePosition, UpdateWaitTimes,
     AssignChatToOperator, ReleaseOperatorFromChat, TransferChat, MoveChat, RegisterOperator,
     SetOperatorOnline, SetOperatorOffline, SetOperatorBusy, VacateChats,
     TransferChatToAvailableOperator, TryAutoAssignClients, AssignEachClient,
     TryAssignOperatorToClient, LeaveLock, Leave, LeaveFrame, Runs, Scheduled, Methods,
     WaitForLock, Wait, Asks

\* The methods that take a lock.
LEMMA QueueEnterSteps ==
  ASSUME NEW F, FrameSet(F), TypedIn(F), Layered, NEW t \in Task, OfQueue(Top(t)),
         \/ AddClientToQueue(t) \/ RemoveClientFromQueue(t)
         \/ UpdateQueuePosition(t) \/ UpdateWaitTimes(t)
         \/ AssignChatToOperator(t) \/ ReleaseOperatorFromChat(t) \/ MoveChat(t)
  PROVE  Q!Step(t)
  <1>0. Busy(t) /\ Scheduled(t)
    BY DEF AddClientToQueue, RemoveClientFromQueue, UpdateQueuePosition, UpdateWaitTimes,
       AssignChatToOperator, ReleaseOperatorFromChat, MoveChat, Runs, Scheduled
  <1>1. Q!Top(t) = Top(t) /\ \A do : Runs(t, do) => Q!Runs(t, do)
    BY <1>0, QueueScheduled
  <1>2. /\ \A f : OfQueue(f) /\ Continue(t, <<f>>) => Q!Continue(t, <<f>>)
        /\ \A f, g : OfQueue(f) /\ OfQueue(g) /\ Continue(t, <<f, g>>) => Q!Continue(t, <<f, g>>)
    BY <1>0, QueueContinuesShort
  <1>3. /\ Acquire(t, "queue") => Q!Acquire(t, "queue")
        /\ Acquire(t, "assignment") => Q!Acquire(t, "assignment")
    BY QueueAcquires DEF QueueLocks
  <1>4. /\ OfQueue(LeaveFrame("queue")) /\ OfQueue(LeaveFrame("assignment"))
        /\ \A c : OfQueue([do |-> "tryAssign", client |-> c])
        /\ \A c : OfQueue([do |-> "remove", client |-> c])
        /\ OfQueue([do |-> "autoAssign"])
    BY DEF OfQueue, LeaveFrame, QueueLocks, QueueFrames
  <1>5. /\ Q!LeaveFrame("queue") = LeaveFrame("queue")
        /\ Q!LeaveFrame("assignment") = LeaveFrame("assignment")
    BY QueueReads
  <1>6. CASE AddClientToQueue(t)
    <2>1. Q!AddClientToQueue(t)
      BY <1>1, <1>2, <1>3, <1>4, <1>5, <1>6, QueueReads DEF AddClientToQueue, Q!AddClientToQueue
    <2> QED BY <2>1 DEF Q!Step
  <1>7. CASE RemoveClientFromQueue(t)
    <2>1. Q!RemoveClientFromQueue(t)
      BY <1>1, <1>2, <1>3, <1>4, <1>5, <1>7, QueueReads
      DEF RemoveClientFromQueue, Q!RemoveClientFromQueue
    <2> QED BY <2>1 DEF Q!Step
  <1>8. CASE UpdateQueuePosition(t)
    <2>1. Q!UpdateQueuePosition(t)
      BY <1>1, <1>2, <1>3, <1>4, <1>5, <1>8, QueueReads
      DEF UpdateQueuePosition, Q!UpdateQueuePosition
    <2> QED BY <2>1 DEF Q!Step
  <1>9. CASE UpdateWaitTimes(t)
    <2>1. Q!UpdateWaitTimes(t)
      BY <1>1, <1>2, <1>3, <1>4, <1>5, <1>9
      DEF UpdateWaitTimes, Q!UpdateWaitTimes, queueVars, Q!queueVars
    <2> QED BY <2>1 DEF Q!Step
  <1>10. CASE AssignChatToOperator(t)
    <2>1. Q!AssignChatToOperator(t)
      BY <1>1, <1>2, <1>3, <1>4, <1>5, <1>10, QueueReads
      DEF AssignChatToOperator, Q!AssignChatToOperator
    <2> QED BY <2>1 DEF Q!Step
  <1>11. CASE ReleaseOperatorFromChat(t)
    <2>1. Q!ReleaseOperatorFromChat(t)
      BY <1>1, <1>2, <1>3, <1>4, <1>5, <1>11, QueueReads
      DEF ReleaseOperatorFromChat, Q!ReleaseOperatorFromChat
    <2> QED BY <2>1 DEF Q!Step
  <1>12. CASE MoveChat(t)
    <2>1. Q!MoveChat(t)
      BY <1>1, <1>2, <1>3, <1>4, <1>5, <1>12, QueueReads DEF MoveChat, Q!MoveChat
    <2> QED BY <2>1 DEF Q!Step
  <1> QED BY <1>6, <1>7, <1>8, <1>9, <1>10, <1>11, <1>12

\* The methods that take none.
LEMMA QueuePlainSteps ==
  ASSUME NEW F, FrameSet(F), TypedIn(F), Layered, NEW t \in Task, OfQueue(Top(t)),
         \/ TransferChat(t) \/ RegisterOperator(t) \/ SetOperatorOnline(t)
         \/ SetOperatorOffline(t) \/ SetOperatorBusy(t) \/ VacateChats(t)
         \/ TransferChatToAvailableOperator(t) \/ TryAutoAssignClients(t)
         \/ AssignEachClient(t) \/ TryAssignOperatorToClient(t)
  PROVE  Q!Step(t)
  <1>0. Busy(t) /\ Scheduled(t) /\ UNCHANGED holder
    BY DEF TransferChat, RegisterOperator, SetOperatorOnline, SetOperatorOffline,
       SetOperatorBusy, VacateChats, TransferChatToAvailableOperator, TryAutoAssignClients,
       AssignEachClient, TryAssignOperatorToClient, Runs, Scheduled
  <1>1. Q!Top(t) = Top(t) /\ \A do : Runs(t, do) => Q!Runs(t, do)
    BY <1>0, QueueScheduled
  <1>2. /\ Continue(t, <<>>) => Q!Continue(t, <<>>)
        /\ \A f : OfQueue(f) /\ Continue(t, <<f>>) => Q!Continue(t, <<f>>)
        /\ \A f, g : OfQueue(f) /\ OfQueue(g) /\ Continue(t, <<f, g>>) => Q!Continue(t, <<f, g>>)
    BY <1>0, QueueContinuesShort
  <1>3. UNCHANGED [l \in QueueLocks |-> holder[l]]
    BY <1>0
  <1>4. /\ \A ch, o, p : OfQueue([do |-> "move", chat |-> ch, operator |-> o, from |-> p])
        /\ OfQueue([do |-> "autoAssign"])
        /\ \A chs : OfQueue([do |-> "vacate", chats |-> chs])
        /\ \A ch : OfQueue([do |-> "rehome", chat |-> ch])
        /\ \A ch, o : OfQueue([do |-> "transfer", chat |-> ch, operator |-> o])
        /\ \A ch : OfQueue([do |-> "release", chat |-> ch])
        /\ \A s : OfQueue([do |-> "assignEach", clients |-> s])
        /\ \A c : OfQueue([do |-> "tryAssign", client |-> c])
        /\ \A ch, o, c : OfQueue([do |-> "assign", chat |-> ch, operator |-> o, client |-> c])
    BY DEF OfQueue, QueueFrames
  <1>6. CASE TransferChat(t)
    <2>1. Q!TransferChat(t)
      BY <1>1, <1>2, <1>3, <1>4, <1>6, QueueReads
      DEF TransferChat, Q!TransferChat, queueVars, Q!queueVars
    <2> QED BY <2>1 DEF Q!Step
  <1>7. CASE RegisterOperator(t)
    <2>1. Q!RegisterOperator(t)
      BY <1>1, <1>2, <1>3, <1>7, QueueReads DEF RegisterOperator, Q!RegisterOperator
    <2> QED BY <2>1 DEF Q!Step
  <1>8. CASE SetOperatorOnline(t)
    <2>1. Q!SetOperatorOnline(t)
      BY <1>1, <1>2, <1>3, <1>4, <1>8 DEF SetOperatorOnline, Q!SetOperatorOnline
    <2> QED BY <2>1 DEF Q!Step
  <1>9. CASE SetOperatorOffline(t)
    <2>1. Q!SetOperatorOffline(t)
      BY <1>1, <1>2, <1>3, <1>4, <1>9, QueueReads DEF SetOperatorOffline, Q!SetOperatorOffline
    <2> QED BY <2>1 DEF Q!Step
  <1>10. CASE SetOperatorBusy(t)
    <2>1. Q!SetOperatorBusy(t)
      BY <1>1, <1>2, <1>3, <1>10, QueueReads DEF SetOperatorBusy, Q!SetOperatorBusy
    <2> QED BY <2>1 DEF Q!Step
  <1>11. CASE VacateChats(t)
    <2>1. Q!VacateChats(t)
      BY <1>1, <1>2, <1>3, <1>4, <1>11 DEF VacateChats, Q!VacateChats, queueVars, Q!queueVars
    <2> QED BY <2>1 DEF Q!Step
  <1>12. CASE TransferChatToAvailableOperator(t)
    <2>1. Q!TransferChatToAvailableOperator(t)
      BY <1>1, <1>2, <1>3, <1>4, <1>12, QueueReads
      DEF TransferChatToAvailableOperator, Q!TransferChatToAvailableOperator, queueVars,
          Q!queueVars
    <2> QED BY <2>1 DEF Q!Step
  <1>13. CASE TryAutoAssignClients(t)
    <2>1. Q!TryAutoAssignClients(t)
      BY <1>1, <1>2, <1>3, <1>4, <1>13, QueueReads
      DEF TryAutoAssignClients, Q!TryAutoAssignClients, queueVars, Q!queueVars
    <2> QED BY <2>1 DEF Q!Step
  <1>14. CASE AssignEachClient(t)
    <2>1. Q!AssignEachClient(t)
      BY <1>1, <1>2, <1>3, <1>4, <1>14
      DEF AssignEachClient, Q!AssignEachClient, queueVars, Q!queueVars
    <2> QED BY <2>1 DEF Q!Step
  <1>15. CASE TryAssignOperatorToClient(t)
    <2>1. Q!TryAssignOperatorToClient(t)
      BY <1>1, <1>2, <1>3, <1>4, <1>15, QueueReads
      DEF TryAssignOperatorToClient, Q!TryAssignOperatorToClient, queueVars, Q!queueVars
    <2> QED BY <2>1 DEF Q!Step
  <1> QED BY <1>6, <1>7, <1>8, <1>9, <1>10, <1>11, <1>12, <1>13, <1>14, <1>15

\* Waiting for a lock, and letting go of one.
LEMMA QueueLockSteps ==
  ASSUME NEW F, FrameSet(F), TypedIn(F), Layered, NEW t \in Task, OfQueue(Top(t)),
         WaitForLock(t) \/ LeaveLock(t)
  PROVE  Q!Step(t)
  <1>1. CASE WaitForLock(t)
    <2>1. PICK l \in Lock : Asks(t, l) /\ Wait(t, l) /\ Busy(t) /\ UNCHANGED queueVars
      BY <1>1 DEF WaitForLock
    <2>2. l \in QueueLocks
      BY <2>1 DEF Asks, QueueLocks
    <2>3. /\ running = t /\ holder[l] # NoTask /\ running' = NoTask
          /\ stack' = stack /\ holder' = holder
      BY <2>1 DEF Wait
    <2>4. Q!Top(t) = Top(t) /\ Q!Busy(t) /\ QueueStack[t] # <<>>
      BY <2>1, QueueTop DEF Q!Top, Q!Busy
    <2>5. Q!Asks(t, l)
      BY <2>1, <2>4 DEF Asks, Q!Asks
    <2>6. Q!Wait(t, l)
      <3>1. /\ QueueRunning = t /\ QueueRunning' = NoTask /\ QueueStack' = QueueStack
            /\ QueueHolder' = QueueHolder /\ QueueHolder[l] # NoTask
        BY <2>2, <2>3, <2>4, TaskAssumption DEF QueueRunning, QueueHolder, QueueStack
      <3> QED BY <3>1 DEF QueueRunning, QueueHolder, Q!Wait
    <2>7. Q!WaitForLock(t)
      BY <2>1, <2>2, <2>4, <2>5, <2>6 DEF Q!WaitForLock, queueVars, Q!queueVars
    <2> QED BY <2>7 DEF Q!Step
  <1>2. CASE LeaveLock(t)
    <2>1. PICK l \in Lock : /\ Scheduled(t) /\ Top(t) = LeaveFrame(l)
                            /\ holder' = [holder EXCEPT ![l] = NoTask]
                            /\ Continue(t, <<>>) /\ UNCHANGED queueVars
      BY <1>2 DEF LeaveLock, Leave
    <2>2. l \in QueueLocks
      BY <2>1, OfQueueMethods
    <2>3. Q!Scheduled(t) /\ Q!Top(t) = Q!LeaveFrame(l)
      BY <2>1, QueueScheduled, QueueReads
    <2>4. Q!Continue(t, <<>>)
      BY <2>1, QueueContinuesShort DEF Scheduled
    <2>5. QueueHolder' = [QueueHolder EXCEPT ![l] = NoTask]
      BY <2>1, <2>2, LocksApart DEF QueueHolder, TypedIn
    <2>6. Q!Leave(t)
      BY <2>2, <2>3, <2>4, <2>5 DEF Q!Leave, QueueHolder
    <2>7. Q!LeaveLock(t)
      BY <2>1, <2>6 DEF Q!LeaveLock, queueVars, Q!queueVars
    <2> QED BY <2>7 DEF Q!Step
  <1> QED BY <1>1, <1>2

-----------------------------------------------------------------------------
(* The queue manager is used as SupportQueue says.                         *)

\* A step of one of its methods, or the end of a block of another lock.
LEMMA StepIsUsed ==
  ASSUME NEW F, FrameSet(F), TypedIn(F), Layered, NEW t \in Task, Step(t)
  PROVE  Layered' /\ [Q!Next]_(Q!vars)
  <1>0. Busy(t) /\ Top(t).do \in Methods
    BY StepTop
  <1>a. <<>> \in Seq(F) /\ InLayers(<<>>) /\ AllOfQueue(<<>>) /\ QueuePart(<<>>) = <<>>
    BY NoLayers
  <1>b. ASSUME UNCHANGED stack PROVE Layered'
    BY <1>b DEF Layered
  <1>1. CASE OfQueue(Top(t))
    <2>1. Q!Step(t)
      BY <1>1, QueueEnterSteps, QueuePlainSteps, QueueLockSteps DEF Step
    <2>2. ASSUME NEW G, NEW s \in Seq(G), AllOfQueue(s), Replaces(t, s) PROVE Layered'
      BY <1>0, <2>2, AllLayers, LayersReplaced
    <2>3. ASSUME NEW s \in Seq(Frame), NoBlockEnd(s) PROVE AllOfQueue(s)
      <3>1. \A i \in DOMAIN s : s[i] \in Frame
        OBVIOUS
      <3> QED BY <2>3, <3>1, OnlyMethods, OfQueueMethods DEF NoBlockEnd, AllOfQueue
    <2>4. ASSUME NEW s \in Seq(Frame), Plain(t, s) PROVE Layered'
      BY <2>2, <2>3, <2>4 DEF Plain, Keeps
    <2>5. ASSUME NEW s \in Seq(Frame), NEW l \in Lock, TakesLock(t, l, s) PROVE Layered'
      <3>1. AllOfQueue(s) /\ OfQueue(LeaveFrame(l))
        BY <2>3, <2>5, OfQueueMethods DEF TakesLock, Opens, Asks, QueueLocks
      <3>2. LeaveFrame(l) \in Frame
        BY FramesMade
      <3>3. /\ Append(s, LeaveFrame(l)) \in Seq(Frame)
            /\ AllOfQueue(Append(s, LeaveFrame(l)))
        BY <3>1, <3>2, AppendProperties, LenProperties DEF AllOfQueue
      <3> QED BY <2>2, <2>5, <3>3 DEF TakesLock, Opens
    <2>6. ASSUME NEW l \in Lock, LeaveBlock(t, l) PROVE Layered'
      BY <1>a, <2>2, <2>6 DEF LeaveBlock, Replaces, Continue
    <2>7. Layered'
      BY <1>b, <2>4, <2>5, <2>6, StepShape DEF LockStep, WaitForLock, Wait
    <2> QED BY <2>1, <2>7 DEF Q!Next
  <1>2. CASE ~OfQueue(Top(t))
    <2>1. Top(t).do = "leave"
      BY <1>0, <1>2, OfQueueMethods
    <2>2. LeaveLock(t)
      BY <2>1 DEF Step, AddClientToQueue, RemoveClientFromQueue, UpdateQueuePosition,
         UpdateWaitTimes, AssignChatToOperator, ReleaseOperatorFromChat, TransferChat, MoveChat,
         RegisterOperator, SetOperatorOnline, SetOperatorOffline, SetOperatorBusy, VacateChats,
         TransferChatToAvailableOperator, TryAutoAssignClients, AssignEachClient,
         TryAssignOperatorToClient, Runs, WaitForLock, Asks
    <2>3. PICK l \in Lock : /\ Scheduled(t) /\ Top(t) = LeaveFrame(l)
                            /\ holder' = [holder EXCEPT ![l] = NoTask]
                            /\ Continue(t, <<>>) /\ UNCHANGED queueVars
      BY <2>2 DEF LeaveLock, Leave
    <2>4. l \notin QueueLocks
      BY <1>2, <2>3, OfQueueMethods
    <2>5. QueueStack[t] = <<>> /\ QueueRunning = NoTask
      BY <1>2, <2>3, QueueScheduled
    <2>6. Layered' /\ QueueStack' = [QueueStack EXCEPT ![t] = <<>>]
      <3>1. Replaces(t, <<>>)
        BY <2>3 DEF Replaces, Continue
      <3> QED BY <1>0, <1>2, <1>a, <3>1, LayersReplaced
    <2>7. QueueStack' = QueueStack
      BY <2>5, <2>6 DEF QueueStack
    <2>8. QueueRunning' = QueueRunning
      <3>1. running' \in {t, NoTask}
        BY <2>3 DEF Continue
      <3> QED BY <2>5, <2>7, <3>1 DEF QueueRunning
    <2>9. QueueHolder' = QueueHolder
      BY <2>3, <2>4, LocksApart DEF QueueHolder, TypedIn
    <2> QED BY <2>3, <2>6, <2>7, <2>8, <2>9
            DEF Q!vars, Q!asyncVars, Q!queueVars, queueVars, QueueRunning, QueueHolder
  <1> QED BY <1>1, <1>2

\* A step of a task whose top frame is not the queue manager's, or of an idle
\* task: either it stays as it was, or it gets a call of the queue manager.
LEMMA CallOrStutter ==
  ASSUME NEW F, FrameSet(F), TypedIn(F), NEW t \in Task, NEW x,
         QueueStack[t] = <<>>, QueueRunning = NoTask,
         QueueStack' = [QueueStack EXCEPT ![t] = x],
         x = <<>> \/ (running' = t /\ \E f \in Calls : x = <<f>>),
         running' \in {t, NoTask}, UNCHANGED QueueHolder, UNCHANGED queueVars
  PROVE  [Q!Next]_(Q!vars)
  <1>1. QueueStack'[t] = x
    BY DEF QueueStack
  <1>2. CASE x = <<>>
    <2>1. QueueStack' = QueueStack
      BY <1>2 DEF QueueStack
    <2>2. QueueRunning' = QueueRunning
      BY <1>1, <1>2 DEF QueueRunning
    <2> QED BY <2>1, <2>2
            DEF Q!vars, Q!asyncVars, Q!queueVars, queueVars, QueueRunning, QueueHolder
  <1>3. ASSUME NEW f \in Calls, x = <<f>>, running' = t PROVE Q!Next
    <2>1. QueueRunning' = t
      BY <1>1, <1>3, TaskAssumption DEF QueueRunning
    <2>2. Q!Start(t, f)
      BY <1>3, <2>1 DEF Q!Start, Q!Busy, QueueRunning, QueueHolder
    <2>3. Q!Call(t)
      BY <2>2, QueueReads DEF Q!Call, Q!queueVars, queueVars
    <2> QED BY <2>3 DEF Q!Next
  <1> QED BY <1>2, <1>3

\* A step of the managers, of the end points, or of what else runs on the stacks.
LEMMA OtherIsUsed ==
  ASSUME NEW F, FrameSet(F), TypedIn(F), Layered, NEW t \in Task,
         Scheduled(t), ~OfQueue(Top(t)),
         NEW q \in Seq(F), \A i \in DOMAIN q : OfQueue(q[i]) => i = 1 /\ q[i] \in Calls,
         Replaces(t, q), Continue(t, q) \/ (q = <<>> /\ running' = NoTask),
         UNCHANGED QueueHolder, UNCHANGED queueVars
  PROVE  Layered' /\ [Q!Next]_(Q!vars)
  <1>1. Busy(t) /\ QueueStack[t] = <<>> /\ QueueRunning = NoTask
    BY QueueScheduled DEF Scheduled
  <1>2. /\ InLayers(q)
        /\ \/ QueuePart(q) = <<>>
           \/ 1 \in DOMAIN q /\ OfQueue(q[1]) /\ QueuePart(q) = <<q[1]>>
    BY FirstLayer
  <1>3. Layered' /\ QueueStack' = [QueueStack EXCEPT ![t] = QueuePart(q)]
    BY <1>1, <1>2, LayersReplaced
  <1>4. running' \in {t, NoTask}
    BY DEF Continue
  <1>5. ASSUME 1 \in DOMAIN q PROVE running' = t
    <2>1. q # <<>> /\ Len(q) \in Nat \ {0}
      BY <1>5, LenProperties, EmptySeq
    <2>2. Tail(stack[t]) \in Seq(F)
      BY <1>1, HeadTailProperties DEF TypedIn, Busy
    <2>3. q \o Tail(stack[t]) # <<>>
      BY <2>1, <2>2, ConcatProperties, EmptySeq
    <2> QED BY <2>1, <2>3 DEF Continue
  <1>6. QueuePart(q) = <<>> \/ (running' = t /\ \E f \in Calls : QueuePart(q) = <<f>>)
    BY <1>2, <1>5
  <1> QED BY <1>1, <1>3, <1>4, <1>6, CallOrStutter

LEMMA HostStepIsUsed ==
  ASSUME NEW F, HostSet(F), TypedIn(F), Layered, NEW t \in Task, HostStep(t)
  PROVE  Layered' /\ [Q!Next]_(Q!vars)
  <1>1. /\ Scheduled(t) /\ FrameSet(F)
        /\ ~OfQueue(Top(t))
    BY OfQueueMethods DEF HostStep, HostSet, ManagerMethods, Methods
  <1>2. ASSUME NEW s, Made(s)
        PROVE  s \in Seq(F) /\ \A i \in DOMAIN s : OfQueue(s[i]) => i = 1 /\ s[i] \in Calls
    BY <1>2, HostSequences, OfQueueMethods DEF Made
  <1>3. CASE Passing(t)
    <2>1. PICK s : /\ Made(s) /\ Replaces(t, s)
                   /\ Continue(t, s) \/ (s = <<>> /\ running' = NoTask)
                   /\ UNCHANGED <<holder, queueVars>>
      BY <1>3 DEF Passing
    <2>2. UNCHANGED QueueHolder
      BY <2>1 DEF QueueHolder
    <2> QED BY <1>1, <1>2, <2>1, <2>2, OtherIsUsed
  <1>4. CASE Entering(t)
    <2>0. PICK m \in Manager : \E s : /\ Made(s) /\ Acquire(t, m)
                                      /\ Continue(t, s \o <<LeaveFrame(m)>>)
                                      /\ UNCHANGED queueVars
      BY <1>4 DEF Entering
    <2>1. PICK s : /\ Made(s) /\ Acquire(t, m)
                   /\ Continue(t, s \o <<LeaveFrame(m)>>)
                   /\ UNCHANGED queueVars
      BY <2>0
    <2> DEFINE q == s \o <<LeaveFrame(m)>>
    <2>2. m \in Lock /\ ~OfQueue(LeaveFrame(m)) /\ LeaveFrame(m) \in F
      BY LocksApart, OfQueueMethods, FramesMade, <1>1 DEF FrameSet
    <2>3. /\ <<LeaveFrame(m)>> \in Seq(F) /\ Len(<<LeaveFrame(m)>>) = 1
          /\ <<LeaveFrame(m)>>[1] = LeaveFrame(m)
      BY <2>2
    <2>4. /\ s \in Seq(F) /\ Len(s) \in Nat /\ DOMAIN s = 1..Len(s)
          /\ \A i \in DOMAIN s : OfQueue(s[i]) => i = 1 /\ s[i] \in Calls
      BY <1>2, <2>1, LenProperties
    <2>5. /\ q \in Seq(F) /\ Len(q) = Len(s) + 1
          /\ \A i \in 1..Len(q) : q[i] = IF i <= Len(s) THEN s[i] ELSE LeaveFrame(m)
      <3>1. /\ q \in Seq(F) /\ Len(q) = Len(s) + 1
            /\ \A i \in 1..(Len(s) + 1) :
                 q[i] = IF i <= Len(s) THEN s[i] ELSE <<LeaveFrame(m)>>[i - Len(s)]
        BY <2>3, <2>4, ConcatProperties
      <3>2. \A i \in 1..(Len(s) + 1) : ~(i <= Len(s)) => i - Len(s) = 1
        BY <2>4
      <3> QED BY <2>3, <3>1, <3>2
    <2>6. \A i \in DOMAIN q : OfQueue(q[i]) => i = 1 /\ q[i] \in Calls
      <3>1. DOMAIN q = 1..Len(q)
        BY <2>5, LenProperties
      <3> HIDE DEF q
      <3> QED BY <2>2, <2>4, <2>5, <3>1
    <2>7. Replaces(t, q) /\ UNCHANGED QueueHolder
      BY <1>1, <2>1, QueueAcquires DEF Replaces, Continue
    <2> HIDE DEF q
    <2>8. Continue(t, q)
      BY <2>1 DEF q
    <2> QED BY <1>1, <2>1, <2>5, <2>6, <2>7, <2>8, OtherIsUsed
  <1> QED BY <1>3, <1>4 DEF HostStep

\* A task waits for the lock of a manager.
LEMMA WaitIsUsed ==
  ASSUME NEW F, FrameSet(F), TypedIn(F), Layered, NEW t \in Task, WaitForManager(t)
  PROVE  Layered' /\ [Q!Next]_(Q!vars)
  <1>1. /\ Busy(t) /\ running = t /\ running' = NoTask /\ stack' = stack /\ holder' = holder
        /\ Top(t).do \in {"managerAssign", "managerTransfer", "managerLawyer"}
        /\ UNCHANGED queueVars
    BY DEF WaitForManager, Wait, AsksManager
  <1>2. ~OfQueue(Top(t)) /\ Scheduled(t)
    BY <1>1, OfQueueMethods DEF Methods, Scheduled
  <1>3. QueueRunning = NoTask
    BY <1>2, QueueScheduled
  <1>4. Layered' /\ QueueStack' = QueueStack /\ QueueRunning' = NoTask /\ QueueHolder' = QueueHolder
    BY <1>1 DEF Layered, QueueStack, QueueRunning, QueueHolder
  <1> QED BY <1>1, <1>3, <1>4
          DEF Q!vars, Q!asyncVars, Q!queueVars, queueVars, QueueRunning, QueueHolder

\* An idle task is given frame f.
LEMMA StartIsUsed ==
  ASSUME NEW F, FrameSet(F), TypedIn(F), Layered, NEW t \in Task, NEW f,
         OfQueue(f) => f \in Calls, Start(t, f), UNCHANGED queueVars
  PROVE  Layered' /\ [Q!Next]_(Q!vars)
  <1>1. /\ running = NoTask /\ running' = t /\ holder' = holder /\ ~Busy(t)
        /\ stack'[t] = <<f>> /\ \A u \in Task \ {t} : stack'[u] = stack[u]
    BY DEF Start, TypedIn
  <1>2. <<f>> \in Seq({f}) /\ DOMAIN <<f>> = {1} /\ <<f>>[1] = f
    OBVIOUS
  <1>3. /\ InLayers(<<f>>)
        /\ QueuePart(<<f>>) = <<>> \/ (OfQueue(f) /\ QueuePart(<<f>>) = <<f>>)
    BY <1>2, FirstLayer
  <1>4. Layered'
    <2> SUFFICES ASSUME NEW u \in Task PROVE InLayers(stack'[u])
      BY DEF Layered
    <2> QED BY <1>1, <1>3 DEF Layered
  <1>5. QueueStack' = [QueueStack EXCEPT ![t] = QueuePart(<<f>>)]
    <2>1. \A u \in Task :
            QueuePart(stack'[u]) = IF u = t THEN QueuePart(<<f>>) ELSE QueuePart(stack[u])
      BY <1>1
    <2> QED BY <2>1 DEF QueueStack
  <1>6. QueueStack[t] = <<>> /\ QueueRunning = NoTask /\ UNCHANGED QueueHolder
    BY <1>1, QueueTop DEF QueueRunning, QueueHolder
  <1> QED BY <1>1, <1>3, <1>4, <1>5, <1>6, CallOrStutter

\* What is needed of a reachable state for that.
UseInv == StorageInv(AssignmentFrame) /\ Layered

LEMMA UseStart ==
  ASSUME AssignmentInit
  PROVE  UseInv /\ Q!Init
  <1>1. StorageInv(AssignmentFrame)
    BY StorageStart
  <1>2. stack = [t \in Task |-> <<>>] /\ running = NoTask /\ holder = [l \in Lock |-> NoTask]
    BY DEF AssignmentInit, Init, AsyncInit
  <1>3. Layered
    BY <1>2, NoLayers DEF Layered
  <1>4. QueueStack = [t \in Task |-> <<>>]
    BY <1>2, NoLayers DEF QueueStack
  <1>5. [l \in QueueLocks |-> holder[l]] = [l \in QueueLocks |-> NoTask]
    BY <1>2, LocksApart
  <1>6. Q!AsyncInit
    BY <1>2, <1>4, <1>5 DEF Q!AsyncInit
  <1>7. Q!QueueInit
    BY DEF AssignmentInit, Init, QueueInit, Q!QueueInit
  <1> QED BY <1>1, <1>3, <1>6, <1>7 DEF UseInv, Q!Init

LEMMA UseStep ==
  ASSUME UseInv, [AssignmentNext]_allVars
  PROVE  UseInv' /\ [Q!Next]_(Q!vars)
  <1> DEFINE F == AssignmentFrame
  <1>1. HostSet(F) /\ FrameSet(F) /\ TypedIn(F) /\ StorageInv(F) /\ Layered
    BY AssignmentHosts DEF UseInv, StorageInv, HostSet
  <1>2. StorageTypeOK /\ AllGrounded
    BY <1>1 DEF StorageInv
  <1>3. StorageInv(F)'
    BY <1>1, StorageStep
  <1> HIDE DEF F
  <1>4. CASE UNCHANGED allVars
    <2>1. Layered'
      BY <1>1, <1>4 DEF allVars, vars, asyncVars, Layered
    <2>2. UNCHANGED Q!vars
      BY <1>4 DEF allVars, vars, asyncVars, queueVars, Q!vars, Q!asyncVars, Q!queueVars, QueueStack
    <2> QED BY <1>3, <2>1, <2>2 DEF UseInv, F
  <1>5. ASSUME NEW t \in Task, Enter(t) PROVE Layered' /\ [Q!Next]_(Q!vars)
    <2>1. PICK f \in EntryCalls : Start(t, f)
      BY <1>5 DEF Enter
    <2>2. OfQueue(f) => f \in Calls
      <3>0. ASSUME f.do \in Methods
            PROVE  f \in PriorityCalls \cup RemovalCalls \cup [do : {"tick"}]
                         \cup [do : {"busy"}, operator : Operator, busy : BOOLEAN]
        BY <3>0 DEF EntryCalls, Methods
      <3>1. OfQueue(f) => f.do \in Methods
        BY OfQueueMethods
      <3> QED BY <3>0, <3>1 DEF Calls, PriorityCalls, RemovalCalls
    <2> QED BY <1>1, <1>5, <2>1, <2>2, StartIsUsed DEF Enter
  <1>6. ASSUME NEW t \in Task, QueueStep(t) PROVE Layered' /\ [Q!Next]_(Q!vars)
    BY <1>1, <1>6, StepIsUsed DEF QueueStep
  <1>7. ASSUME NEW t \in Task, ManagerStep(t) PROVE Layered' /\ [Q!Next]_(Q!vars)
    BY <1>1, <1>2, <1>7, ManagerShape, HostStepIsUsed, WaitIsUsed
  <1>8. CASE AssignmentNext
    BY <1>3, <1>5, <1>6, <1>7, <1>8 DEF AssignmentNext, UseInv, F
  <1> QED BY <1>4, <1>8

\* The managers and the end points use the queue manager as SupportQueue says:
\* to it, they are tasks that call its methods one at a time, although its
\* methods run in the middle of theirs.
THEOREM QueueIsUsed == AssignmentSpec => QueueIsUsedAsSpecified
  <1>1. AssignmentInit => UseInv /\ Q!Init
    BY UseStart
  <1>2. UseInv /\ [AssignmentNext]_allVars => UseInv' /\ [Q!Next]_(Q!vars)
    BY UseStep
  <1> QED BY <1>1, <1>2, PTL DEF AssignmentSpec, QueueIsUsedAsSpecified, Q!Spec

-----------------------------------------------------------------------------
(* The locks of the managers add no deadlock.                              *)
(*                                                                         *)
(* Inside the lock of a manager no lock of a manager is asked for, so only *)
(* the locks of the queue can be waited for in a circle.  Of those the     *)
(* argument of SupportQueue holds again, for the tasks that have yielded   *)
(* inside the queue manager: it never yields but on a lock.                *)

\* Above the end of a manager's block there are only calls made inside it.
InnerFrames ==
  \A t \in Task, m \in Manager : \A i, j \in DOMAIN stack[t] :
    i < j /\ stack[t][j] = LeaveFrame(m) => stack[t][i].do \in Inner

\* Task t has yielded inside a method of the queue manager.
QueueWaits(t) == Busy(t) /\ OfQueue(Top(t)) /\ running # t

QueueWaitersStuck ==
  \A t \in Task : QueueWaits(t) =>
    \E l \in QueueLocks : Asks(t, l) /\ holder[l] # NoTask /\ QueueWaits(holder[l])

QueueSelfDeadlock ==
  (\E t \in Task : QueueWaits(t)) =>
    \E t \in Task, l \in QueueLocks : QueueWaits(t) /\ Asks(t, l) /\ holder[l] = t

QueueLockInv == LockDiscipline /\ QueueWaitersStuck /\ QueueSelfDeadlock

LEMMA InnerReplaced ==
  ASSUME NEW F, FrameSet(F), TypedIn(F), InnerFrames, NEW t \in Task, Busy(t),
         NEW s \in Seq(F), Replaces(t, s), Top(t).do \in Inner => AllInner(s),
         \A m \in Manager : \A i, j \in DOMAIN s :
           i < j /\ s[j] = LeaveFrame(m) => s[i].do \in Inner
  PROVE  InnerFrames'
  <1>1. /\ \A u \in Task \ {t} : stack'[u] = stack[u]
        /\ stack'[t] \in Seq(F)
        /\ Len(stack'[t]) = Len(s) + Len(stack[t]) - 1
        /\ \A i \in DOMAIN stack'[t] :
             stack'[t][i] = IF i <= Len(s) THEN s[i] ELSE stack[t][i - Len(s) + 1]
    BY ReplacedFrames
  <1>2. /\ DOMAIN stack'[t] = 1..Len(stack'[t]) /\ DOMAIN s = 1..Len(s) /\ Len(s) \in Nat
        /\ DOMAIN stack[t] = 1..Len(stack[t]) /\ Len(stack[t]) \in Nat
        /\ 1 \in DOMAIN stack[t] /\ stack[t][1] = Top(t)
    BY <1>1, StackDomain, LenProperties
  <1>3. ASSUME NEW m \in Manager, NEW i \in DOMAIN stack'[t], NEW j \in DOMAIN stack'[t],
               i < j, stack'[t][j] = LeaveFrame(m)
        PROVE  stack'[t][i].do \in Inner
    <2>1. CASE j <= Len(s)
      <3>1. /\ i \in DOMAIN s /\ j \in DOMAIN s
            /\ stack'[t][i] = s[i] /\ stack'[t][j] = s[j]
        BY <1>1, <1>2, <1>3, <2>1
      <3> QED BY <1>3, <3>1
    <2>2. CASE ~(j <= Len(s))
      <3> DEFINE k == j - Len(s) + 1
      <3>0. PICK n \in Nat, a \in Nat : n = Len(s) /\ a = Len(stack[t])
        BY <1>2
      <3>5. DOMAIN stack'[t] = 1..n + a - 1 /\ DOMAIN stack[t] = 1..a
        BY <1>1, <1>2, <3>0
      <3>6. k \in 1..a /\ 1 < k
        BY <1>3, <2>2, <3>0, <3>5
      <3>1. k \in DOMAIN stack[t] /\ 1 < k /\ stack[t][k] = LeaveFrame(m)
        BY <1>1, <1>3, <2>2, <3>5, <3>6
      <3>2. Top(t).do \in Inner
        BY <1>2, <3>1 DEF InnerFrames
      <3>3. CASE i <= Len(s)
        <4>1. i \in DOMAIN s /\ stack'[t][i] = s[i]
          BY <1>1, <1>2, <1>3, <3>3
        <4> QED BY <3>2, <4>1 DEF AllInner
      <3>4. CASE ~(i <= Len(s))
        <4>1. i - Len(s) + 1 \in DOMAIN stack[t] /\ i - Len(s) + 1 < k
          <5>1. i \in Nat /\ j \in Nat /\ Len(stack'[t]) \in Nat /\ i <= Len(stack'[t])
            BY <1>1, <1>2, <1>3, LenProperties
          <5> QED BY <1>1, <1>2, <1>3, <3>4, <5>1
        <4>2. stack'[t][i] = stack[t][i - Len(s) + 1]
          BY <1>1, <1>3, <3>4
        <4> HIDE DEF k
        <4> QED BY <3>1, <4>1, <4>2 DEF InnerFrames
      <3> QED BY <3>3, <3>4
    <2> QED BY <2>1, <2>2
  <1>4. ASSUME NEW u \in Task, NEW m \in Manager, NEW i \in DOMAIN stack'[u],
               NEW j \in DOMAIN stack'[u], i < j, stack'[u][j] = LeaveFrame(m)
        PROVE  stack'[u][i].do \in Inner
    <2>1. CASE u = t
      BY <1>3, <1>4, <2>1
    <2>2. CASE u # t
      BY <1>1, <1>4, <2>2 DEF InnerFrames
    <2> QED BY <2>1, <2>2
  <1> QED BY <1>4 DEF InnerFrames

\* What a step of t does to the others' stacks and to the locks they hold.
Minds(t) ==
  /\ running \in {t, NoTask} /\ running' \in {t, NoTask}
  /\ \A u \in Task \ {t} : stack'[u] = stack[u]
  /\ \A l \in Lock : holder[l] \notin {t, NoTask} => holder'[l] = holder[l]

\* If t is not left waiting in the queue manager, nobody's wait has changed.
LEMMA WaitersKept ==
  ASSUME NEW F, FrameSet(F), TypedIn(F), QueueWaitersStuck, QueueSelfDeadlock,
         NEW t \in Task, Minds(t), ~QueueWaits(t), ~QueueWaits(t)'
  PROVE  QueueWaitersStuck' /\ QueueSelfDeadlock'
  <1>1. \A u \in Task \ {t} : /\ QueueWaits(u)' <=> QueueWaits(u)
                              /\ \A l : Asks(u, l)' <=> Asks(u, l)
    BY TaskAssumption DEF Minds, QueueWaits, Busy, Top, Asks
  <1>2. ASSUME NEW u \in Task, QueueWaits(u), NEW l \in QueueLocks, holder[l] = u
        PROVE  holder'[l] = u
    BY <1>2, LocksApart, TaskAssumption DEF Minds
  <1>3. QueueWaitersStuck'
    <2> SUFFICES ASSUME NEW u \in Task, QueueWaits(u)'
                 PROVE  \E l \in QueueLocks :
                          Asks(u, l)' /\ holder'[l] # NoTask /\ QueueWaits(holder[l])'
      BY DEF QueueWaitersStuck
    <2>1. u # t /\ QueueWaits(u)
      BY <1>1
    <2>2. PICK l \in QueueLocks : Asks(u, l) /\ holder[l] # NoTask /\ QueueWaits(holder[l])
      BY <2>1 DEF QueueWaitersStuck
    <2>3. PICK v \in Task : v = holder[l]
      BY <2>2, LocksApart DEF TypedIn
    <2>4. v # t /\ QueueWaits(v)' /\ holder'[l] = v
      BY <1>1, <1>2, <2>2, <2>3
    <2> QED BY <1>1, <2>1, <2>2, <2>4, TaskAssumption
  <1>4. QueueSelfDeadlock'
    <2> SUFFICES ASSUME NEW u \in Task, QueueWaits(u)'
                 PROVE  \E v \in Task, l \in QueueLocks :
                          QueueWaits(v)' /\ Asks(v, l)' /\ holder'[l] = v
      BY DEF QueueSelfDeadlock
    <2>1. QueueWaits(u)
      BY <1>1
    <2>2. PICK v \in Task, l \in QueueLocks : QueueWaits(v) /\ Asks(v, l) /\ holder[l] = v
      BY <2>1 DEF QueueSelfDeadlock
    <2> QED BY <1>1, <1>2, <2>2
  <1> QED BY <1>3, <1>4

\* Who holds a lock of the queue is inside the queue manager.
LEMMA QueueHolderTop ==
  ASSUME NEW F, FrameSet(F), TypedIn(F), Layered, LockDiscipline,
         NEW l \in QueueLocks, holder[l] # NoTask
  PROVE  holder[l] \in Task /\ Busy(holder[l]) /\ OfQueue(Top(holder[l]))
  <1>1. PICK u \in Task : u = holder[l] /\ Busy(u)
    BY LocksApart, HolderBusy
  <1>2. PICK i \in DOMAIN stack[u] : stack[u][i] = LeaveFrame(l)
    BY <1>1, LocksApart DEF LockDiscipline
  <1>3. PICK n \in Nat : QueueLayer(stack[u], n)
    BY DEF Layered, InLayers
  <1>4. /\ 1 \in DOMAIN stack[u] /\ stack[u][1] = Top(u) /\ DOMAIN stack[u] = 1..Len(stack[u])
        /\ Len(stack[u]) \in Nat
    BY <1>1, StackDomain
  <1>5. i <= n
    BY <1>2, <1>3, OfQueueMethods DEF QueueLayer
  <1>6. 1 <= n
    BY <1>3, <1>4, <1>5
  <1> QED BY <1>1, <1>3, <1>4, <1>6 DEF QueueLayer

\* A task that is done waiting for the database is not inside the queue manager.
LEMMA NoneBelow ==
  ASSUME NEW F, FrameSet(F), TypedIn(F), Layered, NEW t \in Task, Busy(t), ~OfQueue(Top(t)),
         Replaces(t, <<>>)
  PROVE  Busy(t)' => ~OfQueue(Top(t)')
  <1>1. <<>> \in Seq(F) /\ Len(<<>>) = 0
    BY EmptySeq
  <1>2. /\ stack'[t] \in Seq(F) /\ Len(stack'[t]) = Len(stack[t]) - 1
        /\ \A i \in DOMAIN stack'[t] : stack'[t][i] = stack[t][i + 1]
    <2>1. /\ stack'[t] \in Seq(F)
          /\ Len(stack'[t]) = 0 + Len(stack[t]) - 1
          /\ \A i \in DOMAIN stack'[t] :
               stack'[t][i] = IF i <= 0 THEN <<>>[i] ELSE stack[t][i - 0 + 1]
      BY <1>1, ReplacedFrames
    <2>2. DOMAIN stack'[t] = 1..Len(stack'[t]) /\ Len(stack'[t]) \in Nat
      BY <2>1, LenProperties
    <2> QED BY <2>1, <2>2, StackDomain
  <1>3. PICK n \in Nat : QueueLayer(stack[t], n)
    BY DEF Layered, InLayers
  <1>4. /\ 1 \in DOMAIN stack[t] /\ stack[t][1] = Top(t) /\ DOMAIN stack[t] = 1..Len(stack[t])
        /\ Len(stack[t]) \in Nat
    BY StackDomain
  <1>5. ~(1 <= n)
    BY <1>3, <1>4 DEF QueueLayer
  <1>6. ASSUME stack'[t] # <<>> PROVE ~OfQueue(Head(stack'[t]))
    <2>1. Len(stack'[t]) \in Nat \ {0} /\ DOMAIN stack'[t] = 1..Len(stack'[t])
      BY <1>2, <1>6, LenProperties, EmptySeq
    <2>a. PICK a \in Nat : a = Len(stack[t])
      BY <1>4
    <2>b. a - 1 \in Nat \ {0} /\ DOMAIN stack'[t] = 1..(a - 1) /\ DOMAIN stack[t] = 1..a
      BY <1>2, <1>4, <2>1, <2>a
    <2>c. 1 \in 1..(a - 1) /\ 1 + 1 \in 1..a
      BY <2>b
    <2>2. 1 \in DOMAIN stack'[t] /\ 1 + 1 \in DOMAIN stack[t] /\ stack'[t][1] = stack[t][1 + 1]
      BY <1>2, <2>b, <2>c
    <2>3. Head(stack'[t]) = stack'[t][1]
      BY <1>2, <1>6, HeadTailProperties
    <2>4. ~(1 + 1 <= n)
      BY <1>5
    <2>5. ~OfQueue(stack[t][1 + 1])
      BY <1>3, <2>2, <2>4 DEF QueueLayer
    <2> QED BY <2>2, <2>3, <2>5
  <1> QED BY <1>6 DEF Busy, Top

\* A step of the managers: what it pushes, and what becomes of the locks.
LEMMA HostStepLocks ==
  ASSUME NEW F, HostSet(F), TypedIn(F), Layered, InnerFrames, QueueLockInv,
         NEW t \in Task, HostStep(t)
  PROVE  InnerFrames' /\ QueueLockInv'
  <1>1. /\ Scheduled(t) /\ Busy(t) /\ FrameSet(F)
        /\ ~OfQueue(Top(t)) /\ Top(t).do # "leave"
        /\ LockDiscipline /\ QueueWaitersStuck /\ QueueSelfDeadlock
    BY OfQueueMethods DEF HostStep, HostSet, ManagerMethods, Methods, Scheduled, QueueLockInv
  <1>2. ~QueueWaits(t)
    BY <1>1 DEF QueueWaits
  <1>3. ASSUME NEW s, Made(s)
        PROVE  /\ s \in Seq(F) /\ NoBlockEnd(s)
               /\ \A l : LeaveFrame(l) \in F => Append(s, LeaveFrame(l)) = s \o <<LeaveFrame(l)>>
    <2>1. s \in Seq(F)
      BY <1>3, HostSequences DEF Made
    <2>2. \A f \in Calls : f.do # "leave"
      BY DEF Calls
    <2>3. NoBlockEnd(s)
      BY <1>3, <2>2 DEF Made, NoBlockEnd, Methods
    <2> QED BY <2>1, <2>3, AppendIsConcat
  <1>4. CASE Passing(t)
    <2>1. PICK s : /\ Made(s) /\ Replaces(t, s)
                   /\ Top(t).do \in Inner => AllInner(s)
                   /\ Continue(t, s) \/ (s = <<>> /\ running' = NoTask)
                   /\ UNCHANGED <<holder, queueVars>>
      BY <1>4 DEF Passing
    <2>2. s \in Seq(F) /\ NoBlockEnd(s)
      BY <1>3, <2>1
    <2>3. LockDiscipline'
      <3>1. Keeps(t, s)
        BY <1>1, <2>1, <2>2 DEF Keeps
      <3> QED BY <1>1, <2>2, <3>1, KeepsDiscipline
    <2>4. InnerFrames'
      <3>1. \A m \in Manager : \A i, j \in DOMAIN s :
              i < j /\ s[j] = LeaveFrame(m) => s[i].do \in Inner
        BY <2>2 DEF NoBlockEnd, LeaveFrame
      <3> QED BY <1>1, <2>1, <2>2, <3>1, InnerReplaced
    <2>5. Minds(t)
      <3>1. \A u \in Task \ {t} : stack'[u] = stack[u]
        BY <1>1, <2>1, <2>2, ReplacedFrames
      <3> QED BY <1>1, <2>1, <3>1 DEF Minds, Scheduled, Continue
    <2>6. ~QueueWaits(t)'
      <3>1. CASE Continue(t, s)
        <4>1. running' = IF stack'[t] = <<>> THEN NoTask ELSE t
          BY <1>1, <2>2, <3>1, ContinueFrames
        <4> QED BY <4>1 DEF QueueWaits, Busy
      <3>2. CASE s = <<>>
        BY <1>1, <2>1, <3>2, NoneBelow DEF QueueWaits
      <3> QED BY <2>1, <3>1, <3>2
    <2> QED BY <1>1, <1>2, <2>3, <2>4, <2>5, <2>6, WaitersKept DEF QueueLockInv
  <1>5. CASE Entering(t) /\ Top(t).do \notin Inner
    <2>0. PICK m \in Manager : \E s : /\ Made(s) /\ AllInner(s)
                                      /\ Acquire(t, m)
                                      /\ Continue(t, s \o <<LeaveFrame(m)>>)
                                      /\ UNCHANGED queueVars
      BY <1>5 DEF Entering
    <2>1. PICK s : /\ Made(s) /\ AllInner(s)
                   /\ Acquire(t, m)
                   /\ Continue(t, s \o <<LeaveFrame(m)>>)
                   /\ UNCHANGED queueVars
      BY <2>0
    <2>2. m \in Lock /\ LeaveFrame(m) \in F
      BY <1>1, LocksApart, FramesMade DEF FrameSet
    <2> DEFINE q == Append(s, LeaveFrame(m))
    <2>3. s \in Seq(F) /\ NoBlockEnd(s) /\ q \in Seq(F) /\ Continue(t, q) /\ Replaces(t, q)
      <3>1. s \in Seq(F) /\ NoBlockEnd(s) /\ q = s \o <<LeaveFrame(m)>>
        BY <1>3, <2>1, <2>2
      <3>2. q \in Seq(F)
        BY <2>2, <3>1, AppendProperties
      <3> QED BY <2>1, <3>1, <3>2 DEF Continue, Replaces
    <2>4. LockDiscipline'
      <3>1. Opens(t, m, s)
        BY <1>1, <2>1, <2>3 DEF Opens
      <3> QED BY <1>1, <2>2, <2>3, <3>1, OpensDiscipline
    <2>5. AllInner(q)
      <3>1. DOMAIN s = 1..Len(s) /\ DOMAIN q = 1..Len(q) /\ Len(s) \in Nat
        BY <2>3, LenProperties
      <3>2. /\ Len(q) = Len(s) + 1 /\ \A i \in 1..Len(s) : q[i] = s[i]
            /\ q[Len(s) + 1] = LeaveFrame(m)
        BY <2>2, <2>3, AppendProperties
      <3>3. LeaveFrame(m).do \in Inner
        BY DEF LeaveFrame, Inner, Methods
      <3> HIDE DEF q
      <3>4. \A i \in DOMAIN q : i \in 1..Len(s) \/ i = Len(s) + 1
        BY <3>1, <3>2
      <3> QED BY <2>1, <3>1, <3>2, <3>3, <3>4 DEF AllInner
    <2> HIDE DEF q
    <2>6. InnerFrames'
      <3>1. \A k \in Manager : \A i, j \in DOMAIN q :
              i < j /\ q[j] = LeaveFrame(k) => q[i].do \in Inner
        BY <2>5 DEF AllInner
      <3> QED BY <1>1, <2>3, <2>5, <3>1, InnerReplaced
    <2>7. /\ \A u \in Task \ {t} : stack'[u] = stack[u]
          /\ running' = IF stack'[t] = <<>> THEN NoTask ELSE t
      BY <1>1, <2>3, ContinueFrames
    <2>8. Minds(t)
      BY <1>1, <2>1, <2>7 DEF Minds, Scheduled, Acquire, TypedIn
    <2>9. ~QueueWaits(t)'
      BY <2>7 DEF QueueWaits, Busy
    <2> QED BY <1>1, <1>2, <2>4, <2>6, <2>8, <2>9, WaitersKept DEF QueueLockInv
  <1> QED BY <1>4, <1>5 DEF HostStep

\* A step of the queue manager that is not a wait.
LEMMA MethodStepLocks ==
  ASSUME NEW F, HostSet(F), TypedIn(F), Layered, InnerFrames, QueueLockInv,
         NEW t \in Task, Step(t), LockStep(t)
  PROVE  InnerFrames' /\ QueueLockInv'
  <1>1. /\ Scheduled(t) /\ Busy(t) /\ FrameSet(F) /\ Top(t).do \in Methods
        /\ LockDiscipline /\ QueueWaitersStuck /\ QueueSelfDeadlock
    BY StepTop DEF HostSet, LockStep, Scheduled, QueueLockInv
  <1>2. ~QueueWaits(t)
    <2>1. ASSUME QueueWaits(t) PROVE FALSE
      <3>1. PICK l \in QueueLocks : Asks(t, l) /\ holder[l] # NoTask
        BY <2>1 DEF QueueWaitersStuck, QueueLockInv
      <3>2. l \in Lock /\ \A k \in Lock : Asks(t, k) => k = l
        BY <3>1, LocksApart DEF Asks
      <3>3. ~ \E s \in Seq(Frame) : Plain(t, s)
        BY <3>1, <3>2 DEF Plain
      <3>4. ~ \E s \in Seq(Frame), k \in Lock : TakesLock(t, k, s)
        BY <3>1, <3>2 DEF TakesLock, Opens, Acquire
      <3>5. ~ \E k \in Lock : LeaveBlock(t, k)
        BY <3>1 DEF LeaveBlock, LeaveFrame, Asks
      <3> QED BY <3>3, <3>4, <3>5 DEF LockStep
    <2> QED BY <2>1
  \* All it pushes may be inside a manager's block.
  <1>3. ASSUME NEW s \in Seq(Frame)
        PROVE  /\ s \in Seq(F) /\ AllInner(s)
               /\ \A m \in Manager : \A i, j \in DOMAIN s :
                    i < j /\ s[j] = LeaveFrame(m) => s[i].do \in Inner
    <2>1. \A i \in DOMAIN s : s[i] \in Frame
      OBVIOUS
    <2>2. AllInner(s)
      BY <2>1, OnlyMethods DEF AllInner, Inner
    <2> QED BY <1>1, <2>2, FramesInSet DEF AllInner
  <1>4. ASSUME NEW s \in Seq(Frame), Continue(t, s)
        PROVE  /\ InnerFrames' /\ ~QueueWaits(t)'
               /\ (\A l \in Lock : holder[l] \notin {t, NoTask} => holder'[l] = holder[l])
                    => Minds(t)
    <2>1. s \in Seq(F) /\ Replaces(t, s)
      BY <1>3, <1>4 DEF Continue, Replaces
    <2>2. InnerFrames'
      BY <1>1, <1>3, <2>1, InnerReplaced
    <2>3. /\ \A u \in Task \ {t} : stack'[u] = stack[u]
          /\ running' = IF stack'[t] = <<>> THEN NoTask ELSE t
      BY <1>1, <1>4, <2>1, ContinueFrames
    <2> QED BY <1>1, <2>2, <2>3 DEF QueueWaits, Busy, Minds, Scheduled
  <1>5. ASSUME NEW s \in Seq(Frame), Plain(t, s) PROVE InnerFrames' /\ QueueLockInv'
    <2>1. LockDiscipline'
      BY <1>1, <1>3, <1>5, KeepsDiscipline DEF Plain
    <2>2. Minds(t) /\ InnerFrames' /\ ~QueueWaits(t)'
      BY <1>4, <1>5 DEF Plain, Keeps
    <2> QED BY <1>1, <1>2, <2>1, <2>2, WaitersKept DEF QueueLockInv
  <1>6. ASSUME NEW s \in Seq(Frame), NEW l \in Lock, TakesLock(t, l, s)
        PROVE  InnerFrames' /\ QueueLockInv'
    <2>1. LockDiscipline'
      BY <1>1, <1>3, <1>6, OpensDiscipline DEF TakesLock
    <2>2. Append(s, LeaveFrame(l)) \in Seq(Frame) /\ Continue(t, Append(s, LeaveFrame(l)))
      BY <1>6, FramesMade, AppendProperties DEF TakesLock
    <2>3. \A k \in Lock : holder[k] \notin {t, NoTask} => holder'[k] = holder[k]
      BY <1>6 DEF TakesLock, Opens, Acquire, TypedIn
    <2>4. Minds(t) /\ InnerFrames' /\ ~QueueWaits(t)'
      BY <1>4, <2>2, <2>3
    <2> QED BY <1>1, <1>2, <2>1, <2>4, WaitersKept DEF QueueLockInv
  <1>7. ASSUME NEW l \in Lock, LeaveBlock(t, l) PROVE InnerFrames' /\ QueueLockInv'
    <2>1. LockDiscipline' /\ holder[l] = t
      BY <1>1, <1>7, LeaveDiscipline
    <2>2. <<>> \in Seq(Frame) /\ Continue(t, <<>>)
      BY <1>7 DEF LeaveBlock
    <2>3. \A k \in Lock : holder[k] \notin {t, NoTask} => holder'[k] = holder[k]
      BY <1>7, <2>1 DEF LeaveBlock, TypedIn
    <2>4. Minds(t) /\ InnerFrames' /\ ~QueueWaits(t)'
      BY <1>4, <2>2, <2>3
    <2> QED BY <1>1, <1>2, <2>1, <2>4, WaitersKept DEF QueueLockInv
  <1> QED BY <1>5, <1>6, <1>7 DEF LockStep

\* A task starts to wait: for a lock of the queue ...
LEMMA QueueWaitLocks ==
  ASSUME NEW F, HostSet(F), TypedIn(F), Layered, InnerFrames, QueueLockInv,
         NEW t \in Task, WaitForLock(t)
  PROVE  InnerFrames' /\ QueueLockInv'
  <1>1. PICK l \in Lock : Asks(t, l) /\ Wait(t, l) /\ Busy(t)
    BY DEF WaitForLock
  <1>2. /\ running = t /\ holder[l] # NoTask /\ running' = NoTask
        /\ stack' = stack /\ holder' = holder /\ l \in QueueLocks
        /\ OfQueue(Top(t)) /\ FrameSet(F)
        /\ LockDiscipline /\ QueueWaitersStuck /\ QueueSelfDeadlock
    BY <1>1, OfQueueMethods DEF Wait, Asks, QueueLocks, OfQueue, QueueFrames, HostSet, QueueLockInv
  <1>3. LockDiscipline' /\ InnerFrames'
    BY <1>2 DEF LockDiscipline, InnerFrames
  <1>4. \A u \in Task : QueueWaits(u)' <=> Busy(u) /\ OfQueue(Top(u))
    BY <1>2, TaskAssumption DEF QueueWaits, Busy, Top
  <1>5. \A u \in Task : QueueWaits(u)' <=> QueueWaits(u) \/ u = t
    BY <1>1, <1>2, <1>4 DEF QueueWaits
  <1>6. \A u \in Task : \A k : Asks(u, k)' <=> Asks(u, k)
    BY <1>2 DEF Asks, Top
  <1>7. holder[l] \in Task /\ Busy(holder[l]) /\ OfQueue(Top(holder[l]))
    BY <1>2, QueueHolderTop
  <1>8. QueueWaitersStuck'
    <2> SUFFICES ASSUME NEW u \in Task, QueueWaits(u)'
                 PROVE  \E k \in QueueLocks :
                          Asks(u, k) /\ holder[k] # NoTask /\ QueueWaits(holder[k])'
      BY <1>2, <1>6 DEF QueueWaitersStuck
    <2>1. CASE u = t
      <3>1. PICK v \in Task : v = holder[l]
        BY <1>7
      <3>2. QueueWaits(v)'
        BY <1>4, <1>7, <3>1
      <3>3. QueueWaits(holder[l])'
        BY <1>2, <3>1, <3>2
      <3> QED BY <1>1, <1>2, <2>1, <3>3
    <2>2. CASE QueueWaits(u)
      <3>1. PICK k \in QueueLocks : Asks(u, k) /\ holder[k] # NoTask /\ QueueWaits(holder[k])
        BY <1>2, <2>2 DEF QueueWaitersStuck
      <3>2. PICK v \in Task : v = holder[k]
        BY <3>1, LocksApart DEF TypedIn
      <3>3. QueueWaits(v)'
        BY <1>5, <3>1, <3>2
      <3>4. QueueWaits(holder[k])'
        BY <1>2, <3>2, <3>3
      <3> QED BY <3>1, <3>4
    <2> QED BY <1>5, <2>1, <2>2
  \* The first to wait waits for the only task inside the queue manager, itself.
  <1>9. QueueSelfDeadlock'
    <2>1. CASE \E u \in Task : QueueWaits(u)
      BY <1>2, <1>5, <1>6, <2>1 DEF QueueSelfDeadlock
    <2>2. CASE ~ \E u \in Task : QueueWaits(u)
      <3>1. holder[l] = t
        BY <1>2, <1>7, <2>2 DEF QueueWaits
      <3> QED BY <1>1, <1>2, <1>5, <1>6, <3>1 DEF QueueSelfDeadlock
    <2> QED BY <2>1, <2>2
  <1> QED BY <1>3, <1>8, <1>9 DEF QueueLockInv

\* ... or of a manager, or is given a call.
LEMMA ManagerWaitLocks ==
  ASSUME NEW F, HostSet(F), TypedIn(F), InnerFrames, QueueLockInv,
         NEW t \in Task, WaitForManager(t)
  PROVE  InnerFrames' /\ QueueLockInv'
  <1>1. /\ Busy(t) /\ running = t /\ running' = NoTask /\ stack' = stack /\ holder' = holder
        /\ Top(t).do \in {"managerAssign", "managerTransfer", "managerLawyer"}
        /\ LockDiscipline /\ QueueWaitersStuck /\ QueueSelfDeadlock
    BY DEF WaitForManager, Wait, AsksManager, QueueLockInv
  <1>2. LockDiscipline' /\ InnerFrames'
    BY <1>1 DEF LockDiscipline, InnerFrames
  <1>3. ~OfQueue(Top(t)) /\ ~OfQueue(Top(t)')
    BY <1>1, OfQueueMethods DEF Methods, Top
  <1>4. ~QueueWaits(t) /\ ~QueueWaits(t)' /\ Minds(t)
    BY <1>1, <1>3 DEF QueueWaits, Minds
  <1> QED BY <1>1, <1>2, <1>4, WaitersKept DEF HostSet, QueueLockInv

LEMMA StartLocks ==
  ASSUME NEW F, HostSet(F), TypedIn(F), InnerFrames, QueueLockInv,
         NEW t \in Task, NEW f, f.do # "leave", Start(t, f)
  PROVE  InnerFrames' /\ QueueLockInv'
  <1>1. /\ running = NoTask /\ running' = t /\ ~Busy(t) /\ holder' = holder
        /\ stack'[t] = <<f>> /\ \A u \in Task \ {t} : stack'[u] = stack[u]
        /\ LockDiscipline /\ QueueWaitersStuck /\ QueueSelfDeadlock /\ FrameSet(F)
    BY DEF Start, TypedIn, QueueLockInv, HostSet
  <1>2. DOMAIN stack'[t] = {1} /\ stack'[t][1] = f
    BY <1>1
  <1>3. \A l \in Lock : holder[l] # NoTask => holder[l] \in Task \ {t}
    BY <1>1, HolderBusy
  <1>4. LockDiscipline'
    <2>1. ASSUME NEW l \in Lock, holder'[l] # NoTask
          PROVE  \E i \in DOMAIN stack'[holder'[l]] : stack'[holder'[l]][i] = LeaveFrame(l)
      BY <1>1, <1>3, <2>1 DEF LockDiscipline
    <2>2. ASSUME NEW u \in Task, NEW l \in Lock, NEW i \in DOMAIN stack'[u],
                 stack'[u][i] = LeaveFrame(l)
          PROVE  /\ holder'[l] = u
                 /\ \A j \in DOMAIN stack'[u] : stack'[u][j] = LeaveFrame(l) => j = i
      <3>1. u # t
        BY <1>2, <2>2 DEF LeaveFrame
      <3> QED BY <1>1, <2>2, <3>1 DEF LockDiscipline
    <2> QED BY <2>1, <2>2 DEF LockDiscipline
  <1>5. InnerFrames'
    <2> SUFFICES ASSUME NEW u \in Task, NEW m \in Manager, NEW i \in DOMAIN stack'[u],
                        NEW j \in DOMAIN stack'[u], i < j, stack'[u][j] = LeaveFrame(m)
                 PROVE  stack'[u][i].do \in Inner
      BY DEF InnerFrames
    <2>1. u # t
      BY <1>2 DEF LeaveFrame
    <2> QED BY <1>1, <2>1 DEF InnerFrames
  <1>6. ~QueueWaits(t) /\ ~QueueWaits(t)' /\ Minds(t)
    BY <1>1 DEF QueueWaits, Minds
  <1> QED BY <1>1, <1>4, <1>5, <1>6, WaitersKept DEF QueueLockInv

\* What is needed of a reachable state for the locks.
DeadlockInv == UseInv /\ InnerFrames /\ QueueLockInv

LEMMA DeadlockStep ==
  ASSUME DeadlockInv, [AssignmentNext]_allVars
  PROVE  DeadlockInv'
  <1> DEFINE F == AssignmentFrame
  <1>1. /\ HostSet(F) /\ TypedIn(F) /\ StorageTypeOK /\ AllGrounded
        /\ Layered /\ InnerFrames /\ QueueLockInv /\ UseInv
    BY AssignmentHosts DEF DeadlockInv, UseInv, StorageInv
  <1>2. UseInv'
    BY <1>1, UseStep
  <1> HIDE DEF F
  <1>3. CASE UNCHANGED allVars
    BY <1>1, <1>2, <1>3 DEF allVars, vars, asyncVars, DeadlockInv, InnerFrames, QueueLockInv,
       LockDiscipline, QueueWaitersStuck, QueueSelfDeadlock, QueueWaits, Busy, Top, Asks
  <1>4. ASSUME NEW t \in Task, Enter(t) PROVE InnerFrames' /\ QueueLockInv'
    <2>1. PICK f \in EntryCalls : Start(t, f)
      BY <1>4 DEF Enter
    <2>2. f.do # "leave"
      BY DEF EntryCalls, PriorityCalls, RemovalCalls
    <2> QED BY <1>1, <2>1, <2>2, StartLocks
  <1>5. ASSUME NEW t \in Task, QueueStep(t) PROVE InnerFrames' /\ QueueLockInv'
    <2>1. Step(t) /\ FrameSet(F)
      BY <1>1, <1>5 DEF QueueStep, HostSet
    <2> QED BY <1>1, <2>1, StepShape, MethodStepLocks, QueueWaitLocks
  <1>6. ASSUME NEW t \in Task, ManagerStep(t) PROVE InnerFrames' /\ QueueLockInv'
    BY <1>1, <1>6, ManagerShape, HostStepLocks, ManagerWaitLocks
  <1> QED BY <1>2, <1>3, <1>4, <1>5, <1>6 DEF AssignmentNext, DeadlockInv

\* If every task that is in a call waits, one waits for itself.
LEMMA StuckOnItself ==
  ASSUME DeadlockInv
  PROVE  ManagersAddNoDeadlock
  <1> DEFINE F == AssignmentFrame
             busy == {t \in Task : Busy(t)}
  <1>1. FrameSet(F) /\ TypedIn(F) /\ Layered /\ InnerFrames
        /\ LockDiscipline /\ QueueSelfDeadlock
    BY AssignmentHosts DEF DeadlockInv, UseInv, StorageInv, HostSet, QueueLockInv
  <1> HIDE DEF F
  <1> SUFFICES ASSUME busy # {}, \A t \in busy : Stuck(t)
               PROVE  \E t \in busy : \E l \in QueueLocks : Asks(t, l) /\ holder[l] = t
    BY DEF ManagersAddNoDeadlock
  <1>2. CASE \E t \in busy : \E l \in QueueLocks : Asks(t, l) /\ holder[l] # NoTask
    <2>1. PICK t \in busy, l \in QueueLocks : Asks(t, l) /\ holder[l] # NoTask
      BY <1>2
    <2>2. PICK u \in Task : u = holder[l] /\ Busy(u) /\ OfQueue(Top(u))
      BY <1>1, <2>1, QueueHolderTop
    <2>3. OfQueue(Top(t))
      BY <2>1, OfQueueMethods DEF Asks, Methods
    <2>4. CASE u = t
      BY <2>1, <2>2, <2>4
    <2>5. CASE u # t
      <3>1. QueueWaits(t) \/ QueueWaits(u)
        BY <2>2, <2>3, <2>5 DEF QueueWaits
      <3>2. PICK v \in Task, k \in QueueLocks : QueueWaits(v) /\ Asks(v, k) /\ holder[k] = v
        BY <1>1, <3>1 DEF QueueSelfDeadlock
      <3> QED BY <3>2 DEF QueueWaits
    <2> QED BY <2>4, <2>5
  \* Nobody can be waiting for a manager alone: its holder is at work inside.
  <1>3. CASE ~ \E t \in busy : \E l \in QueueLocks : Asks(t, l) /\ holder[l] # NoTask
    <2>1. \A t \in busy : \E m \in Manager : AsksManager(t, m) /\ holder[m] # NoTask
      BY <1>3 DEF Stuck
    <2>2. PICK t \in busy, m \in Manager : AsksManager(t, m) /\ holder[m] # NoTask
      BY <2>1
    <2>3. PICK u \in Task : u = holder[m] /\ Busy(u)
      BY <1>1, <2>2, HolderBusy, LocksApart
    <2>4. PICK j \in DOMAIN stack[u] : stack[u][j] = LeaveFrame(m)
      BY <1>1, <2>2, <2>3, LocksApart DEF LockDiscipline
    <2>5. Top(u).do \in {"managerAssign", "managerTransfer", "managerLawyer"}
      BY <2>1, <2>3 DEF AsksManager
    <2>6. /\ 1 \in DOMAIN stack[u] /\ stack[u][1] = Top(u) /\ j \in Nat /\ j >= 1
      BY <1>1, <2>3, StackDomain
    <2>7. 1 < j
      BY <2>4, <2>5, <2>6 DEF LeaveFrame
    <2>8. Top(u).do \in Inner
      BY <1>1, <2>4, <2>6, <2>7 DEF InnerFrames
    <2> QED BY <2>5, <2>8 DEF Inner, Methods
  <1> QED BY <1>2, <1>3

\* The managers' locks, held while others are asked for and while the database
\* is waited for, add no deadlock to those of the queue manager.
THEOREM NoManagerDeadlock == AssignmentSpec => []ManagersAddNoDeadlock
  <1>1. AssignmentInit => DeadlockInv
    <2> SUFFICES ASSUME AssignmentInit PROVE DeadlockInv
      OBVIOUS
    <2>1. UseInv /\ (\A t \in Task : stack[t] = <<>>) /\ (\A l \in Lock : holder[l] = NoTask)
      BY UseStart DEF AssignmentInit, Init, AsyncInit
    <2> QED BY <2>1, LocksApart DEF DeadlockInv, InnerFrames, QueueLockInv, LockDiscipline,
            QueueWaitersStuck, QueueSelfDeadlock, QueueWaits, Busy
  <1>2. DeadlockInv /\ [AssignmentNext]_allVars => DeadlockInv'
    BY DeadlockStep
  <1>3. DeadlockInv => ManagersAddNoDeadlock
    BY StuckOnItself
  <1> QED BY <1>1, <1>2, <1>3, PTL DEF AssignmentSpec

-----------------------------------------------------------------------------
(* What a manager has stored agrees with the queue.                        *)
(*                                                                         *)
(* As long as the database answers and the administrators leave the chats  *)
(* alone, only the operators' manager gives a chat to an operator who is   *)
(* no support operator, and it holds its lock from before the queue moves  *)
(* the chat until the tables say so.                                       *)

\* The methods of the queue that move a chat to an operator, the steps that look
\* at their answer, the steps that store the operator, and what may run before
\* one of those does.
Moving  == {"assign", "transfer", "move"}
Results == {"storeAssignment", "storeTransfer"}
Storing == Results \cup {"updateChat", "addParticipant", "transferStored"}
Passed  == {"remove", "leave", "io"}

\* The automatic assignment may serve o.
Supports(o) == operators[o].type = "support"

\* Only the operators' manager moves chats, and nothing is taken back.
Single(f) ==
  /\ f.do \notin {"adminTransfer", "adminClose", "managerRelease", "markLeft", "rollback", "send"}
  /\ f.do = "closeChat" => ~f.release
  /\ f.do \in {"managerAssign", "managerTransfer"} => f.manager = "chat"

\* Frame f moves the chat whose move frame g is to store.
SameMove(f, g) ==
  f.do \in Moving /\ g.do \in Results /\ f.chat = g.chat /\ f.operator = g.operator

\* Frame j of stack s comes next but for waiting and the end of a block.
Reached(s, j) == \A i \in DOMAIN s : i < j => s[i].do \in Passed

\* It is inside the block of the operators' manager.
InBlock(s, j) == \E k \in DOMAIN s : j < k /\ s[k] = LeaveFrame("chat")

StackOK(s) ==
  \A j \in DOMAIN s :
    /\ Single(s[j])
    /\ s[j].do \in Storing =>
         InBlock(s, j) /\ (Reached(s, j) \/ (j = 2 /\ SameMove(s[1], s[2])))
    /\ s[j].do \in Moving =>
         Supports(s[j].operator) \/ (j = 1 /\ 2 \in DOMAIN s /\ SameMove(s[1], s[2]))

\* A transfer that is under way has been answered.
MoveTold(t) ==
  Busy(t) /\ Top(t).do = "move" => Supports(Top(t).operator) \/ returned[t]

StacksOK == \A t \in Task : StackOK(stack[t]) /\ MoveTold(t)

\* Task t is about to store what frame f says.
Stores(t, f) ==
  \E j \in DOMAIN stack[t] :
    /\ stack[t][j] = f
    /\ f.do \in Storing /\ (f.do \in Results => returned[t])
    /\ Reached(stack[t], j)

\* The chat of an operator who is no support operator is stored as his, or is
\* about to be, and as nobody else's.
Agrees ==
  \A ch \in Chat :
    LET o == chat_assignments[ch] IN
    o # NoOperator /\ ~Supports(o) =>
      /\ \A t \in Task, f \in AssignmentFrame : Stores(t, f) /\ f.chat = ch =>
           f.operator = o /\ (f.do = "addParticipant" => chat_operator[ch] = o)
      /\ \/ chat_operator[ch] = o /\ o \in participants[ch]
         \/ \E t \in Task, f \in AssignmentFrame : Stores(t, f) /\ f.chat = ch

\* Where the frames of t are once its top has been replaced by the n frames s.
Shifted(t, s, n, m) ==
  /\ DOMAIN s = 1..n /\ DOMAIN stack[t] = 1..m /\ DOMAIN stack'[t] = 1..(n + m - 1)
  /\ \A i \in 1..n : i \in DOMAIN stack'[t] /\ stack'[t][i] = s[i]
  /\ \A k \in DOMAIN stack[t] : k >= 2 =>
       k - 1 + n \in DOMAIN stack'[t] /\ stack'[t][k - 1 + n] = stack[t][k]
  /\ \A i \in DOMAIN stack'[t] :
       i \in 1..n \/ \E k \in DOMAIN stack[t] : k >= 2 /\ i = k - 1 + n

LEMMA Positions ==
  ASSUME NEW F, stack \in [Task -> Seq(F)], NEW t \in Task, Busy(t),
         NEW S, NEW s \in Seq(S), Replaces(t, s)
  PROVE  /\ 1 \in DOMAIN stack[t] /\ stack[t][1] = Top(t)
         /\ \E n \in Nat, m \in Nat : Shifted(t, s, n, m)
  <1> DEFINE A == S \cup F
             r == Tail(stack[t])
  <1>1. s \in Seq(A) /\ stack[t] \in Seq(A) /\ stack[t] # <<>>
    <2>1. Len(s) \in Nat /\ s \in [1..Len(s) -> S]
      BY LenProperties
    <2>2. stack[t] \in Seq(F)
      OBVIOUS
    <2>3. Len(stack[t]) \in Nat /\ stack[t] \in [1..Len(stack[t]) -> F]
      BY <2>2, LenProperties
    <2>4. s \in [1..Len(s) -> A] /\ stack[t] \in [1..Len(stack[t]) -> A]
      BY <2>1, <2>3
    <2> QED BY <2>1, <2>3, <2>4 DEF Busy
  <1> HIDE DEF A
  <1>2. /\ r \in Seq(A) /\ Len(r) = Len(stack[t]) - 1
        /\ \A i \in 1..Len(r) : r[i] = stack[t][i + 1]
    BY <1>1, HeadTailProperties
  <1>3. PICK n \in Nat, m \in Nat : n = Len(s) /\ m = Len(stack[t]) /\ m >= 1
    <2>1. Len(s) \in Nat /\ Len(stack[t]) \in Nat \ {0}
      BY <1>1, LenProperties, EmptySeq
    <2> QED BY <2>1
  <1>4. DOMAIN s = 1..n /\ DOMAIN stack[t] = 1..m
    BY <1>1, <1>3, LenProperties
  <1>5. /\ s \o r \in Seq(A) /\ Len(s \o r) = n + (m - 1)
        /\ \A i \in 1..(n + (m - 1)) : (s \o r)[i] = IF i <= n THEN s[i] ELSE r[i - n]
    BY <1>1, <1>2, <1>3, ConcatProperties
  <1>6. stack'[t] = s \o r
    BY DEF Replaces
  <1>7. DOMAIN stack'[t] = 1..(n + m - 1)
    <2>1. DOMAIN (s \o r) = 1..(n + (m - 1))
      BY <1>5, LenProperties
    <2> QED BY <1>3, <1>6, <2>1
  <1> HIDE DEF r
  <1>8. ASSUME NEW i \in 1..n PROVE i \in DOMAIN stack'[t] /\ stack'[t][i] = s[i]
    BY <1>3, <1>5, <1>6, <1>7
  <1>9. ASSUME NEW k \in DOMAIN stack[t], k >= 2
        PROVE  k - 1 + n \in DOMAIN stack'[t] /\ stack'[t][k - 1 + n] = stack[t][k]
    <2>1. k - 1 + n \in 1..(n + (m - 1)) /\ ~(k - 1 + n <= n) /\ (k - 1 + n) - n = k - 1
          /\ k - 1 \in 1..(m - 1) /\ (k - 1) + 1 = k
      BY <1>3, <1>4, <1>9
    <2>2. r[k - 1] = stack[t][k]
      BY <1>2, <1>3, <2>1
    <2> QED BY <1>5, <1>6, <1>7, <2>1, <2>2
  <1>10. ASSUME NEW i \in DOMAIN stack'[t], i \notin 1..n
         PROVE  \E k \in DOMAIN stack[t] : k >= 2 /\ i = k - 1 + n
    <2>1. i + 1 - n \in 1..m /\ i + 1 - n >= 2 /\ i = (i + 1 - n) - 1 + n
      BY <1>3, <1>7, <1>10
    <2> QED BY <1>4, <2>1
  <1>11. 1 \in DOMAIN stack[t] /\ stack[t][1] = Top(t)
    BY <1>1, <1>3, <1>4, HeadTailProperties DEF Top
  <1>12. Shifted(t, s, n, m)
    BY <1>4, <1>7, <1>8, <1>9, <1>10 DEF Shifted
  <1> QED BY <1>11, <1>12

\* The frames a task has above one that stores are waiting, the end of a block,
\* or the move whose outcome it stores.
LEMMA StoringOnTop ==
  ASSUME NEW F, stack \in [Task -> Seq(F)], NEW t \in Task, Busy(t), StackOK(stack[t]),
         NEW k \in DOMAIN stack[t], k >= 2, stack[t][k].do \in Storing
  PROVE  \/ Top(t).do \in Passed /\ Reached(stack[t], k)
         \/ k = 2 /\ SameMove(Top(t), stack[t][2])
  <1>1. 1 \in DOMAIN stack[t] /\ stack[t][1] = Top(t) /\ k \in Nat
    <2>1. stack[t] \in Seq(F) /\ stack[t] # <<>>
      BY DEF Busy
    <2>2. Len(stack[t]) \in Nat \ {0} /\ DOMAIN stack[t] = 1..Len(stack[t])
      BY <2>1, LenProperties, EmptySeq
    <2> QED BY <2>1, <2>2, HeadTailProperties DEF Top
  <1>2. 1 < k
    BY <1>1
  <1> QED BY <1>1, <1>2 DEF StackOK, Reached

\* What t stores is on top, or below frames that are passed.
LEMMA StoresTop ==
  ASSUME NEW F, stack \in [Task -> Seq(F)], NEW t \in Task, Busy(t), StackOK(stack[t])
  PROVE  /\ Top(t).do \notin Passed \cup Storing => \A f : ~Stores(t, f)
         /\ Top(t).do \in Storing =>
              \A f : Stores(t, f) <=> f = Top(t) /\ (f.do \in Results => returned[t])
  <1>1. /\ 1 \in DOMAIN stack[t] /\ stack[t][1] = Top(t)
        /\ \A k \in DOMAIN stack[t] : k = 1 \/ k >= 2
        /\ \A k \in DOMAIN stack[t] : k >= 1
    <2>1. stack[t] \in Seq(F) /\ stack[t] # <<>>
      BY DEF Busy
    <2>2. Len(stack[t]) \in Nat \ {0} /\ DOMAIN stack[t] = 1..Len(stack[t])
      BY <2>1, LenProperties, EmptySeq
    <2> QED BY <2>1, <2>2, HeadTailProperties DEF Top
  <1>2. ASSUME NEW k \in DOMAIN stack[t], k >= 2, Reached(stack[t], k)
        PROVE  Top(t).do \in Passed
    <2>1. 1 < k
      BY <1>1, <1>2
    <2> QED BY <1>1, <1>2, <2>1 DEF Reached
  <1>3. Reached(stack[t], 1)
    BY <1>1 DEF Reached
  <1>4. Passed \cap Storing = {}
    BY DEF Passed, Storing, Results
  <1> QED BY <1>1, <1>2, <1>3, <1>4 DEF Stores

SupportsNext(o) == operators'[o].type = "support"

SupportsStay == \A o \in Operator : Supports(o) => SupportsNext(o)

\* The operators named by the frames that move chats.
Movers(s) == \A i \in DOMAIN s : s[i].do \in Moving => s[i].operator \in Operator

\* The frames s are ones that may be put on a stack, inside the block of the
\* manager if b holds.
Fresh(s, b) ==
  \A j \in DOMAIN s :
    /\ Single(s[j])
    /\ s[j].do \in Storing =>
         (b \/ InBlock(s, j)) /\ (Reached(s, j) \/ (j = 2 /\ SameMove(s[1], s[2])))
    /\ s[j].do \in Moving =>
         SupportsNext(s[j].operator) \/ (j = 1 /\ 2 \in DOMAIN s /\ SameMove(s[1], s[2]))

\* A step that is none of the queue's in a move replaces what is on top.
LEMMA BareStack ==
  ASSUME NEW F, stack \in [Task -> Seq(F)], NEW t \in Task, Busy(t),
         StackOK(stack[t]), Movers(stack[t]), SupportsStay,
         NEW S, NEW s \in Seq(S), Replaces(t, s),
         Top(t).do \notin Passed \cup Moving, Fresh(s, Top(t).do \in Storing)
  PROVE  /\ StackOK(stack[t])'
         /\ \A f : Stores(t, f)' <=>
              \E j \in DOMAIN s : /\ s[j] = f /\ f.do \in Storing
                                  /\ f.do \in Results => returned'[t]
                                  /\ Reached(s, j)
  <1>1. /\ 1 \in DOMAIN stack[t] /\ stack[t][1] = Top(t)
        /\ \E n \in Nat, m \in Nat : Shifted(t, s, n, m)
    BY Positions
  <1>p. PICK n \in Nat, m \in Nat : Shifted(t, s, n, m)
    BY <1>1
  <1>2. /\ DOMAIN s = 1..n /\ DOMAIN stack[t] = 1..m /\ DOMAIN stack'[t] = 1..(n + m - 1)
        /\ \A i \in 1..n : i \in DOMAIN stack'[t] /\ stack'[t][i] = s[i]
        /\ \A k \in DOMAIN stack[t] : k >= 2 =>
             k - 1 + n \in DOMAIN stack'[t] /\ stack'[t][k - 1 + n] = stack[t][k]
        /\ \A i \in DOMAIN stack'[t] :
             i \in 1..n \/ \E k \in DOMAIN stack[t] : k >= 2 /\ i = k - 1 + n
    BY <1>p DEF Shifted
  <1>3. \A k \in DOMAIN stack[t] : k >= 2 => stack[t][k].do \notin Storing
    BY StoringOnTop DEF SameMove
  <1>4. ASSUME NEW j \in 1..n PROVE Reached(s, j) <=> Reached(stack'[t], j)
    <2>1. \A i \in 1..n : i \in DOMAIN s /\ i \in DOMAIN stack'[t] /\ stack'[t][i] = s[i]
      BY <1>2
    <2>2. \A i \in DOMAIN stack'[t] : i < j => i \in 1..n
      BY <1>2, <1>4
    <2> QED BY <1>2, <2>1, <2>2 DEF Reached
  <1>5. ASSUME NEW j \in 1..n, InBlock(s, j) PROVE InBlock(stack'[t], j)
    BY <1>2, <1>5 DEF InBlock
  <1>6. ASSUME NEW j \in 1..n, Top(t).do \in Storing PROVE InBlock(stack'[t], j)
    <2>1. PICK k \in DOMAIN stack[t] : 1 < k /\ stack[t][k] = LeaveFrame("chat")
      BY <1>1, <1>6 DEF StackOK, InBlock
    <2>2. k >= 2 /\ j < k - 1 + n
      BY <1>2, <2>1
    <2> QED BY <1>2, <2>1, <2>2 DEF InBlock
  <1>7. ASSUME NEW j \in DOMAIN stack'[t]
        PROVE  /\ Single(stack'[t][j])
               /\ stack'[t][j].do \in Storing =>
                    /\ InBlock(stack'[t], j)
                    /\ Reached(stack'[t], j) \/ (j = 2 /\ SameMove(stack'[t][1], stack'[t][2]))
               /\ stack'[t][j].do \in Moving =>
                    \/ SupportsNext(stack'[t][j].operator)
                    \/ j = 1 /\ 2 \in DOMAIN stack'[t] /\ SameMove(stack'[t][1], stack'[t][2])
    <2>1. CASE j \in 1..n
      <3>1. stack'[t][j] = s[j] /\ j \in DOMAIN s
        BY <1>2, <2>1
      <3>2. 2 \in DOMAIN s => 1 \in 1..n /\ 2 \in 1..n
        BY <1>2
      <3>3. 2 \in DOMAIN s => 2 \in DOMAIN stack'[t] /\ stack'[t][1] = s[1] /\ stack'[t][2] = s[2]
        BY <1>2, <3>2
      <3> QED BY <1>4, <1>5, <1>6, <2>1, <3>1, <3>3 DEF Fresh
    <2>2. CASE j \notin 1..n
      <3>1. PICK k \in DOMAIN stack[t] : k >= 2 /\ j = k - 1 + n /\ stack'[t][j] = stack[t][k]
        BY <1>2, <2>2
      <3>2. stack[t][k].do \in Moving => Supports(stack[t][k].operator)
        BY <3>1 DEF StackOK
      <3>3. stack[t][k].do \in Moving => SupportsNext(stack[t][k].operator)
        BY <3>2 DEF SupportsStay, Movers
      <3> QED BY <1>3, <3>1, <3>3 DEF StackOK
    <2> QED BY <2>1, <2>2
  <1>8. StackOK(stack[t])'
    BY <1>7 DEF StackOK, Supports, SupportsNext
  <1>9. ASSUME NEW f
        PROVE  Stores(t, f)' <=>
                 \E j \in DOMAIN s : /\ s[j] = f /\ f.do \in Storing
                                     /\ f.do \in Results => returned'[t]
                                     /\ Reached(s, j)
    <2>1. ASSUME NEW j \in DOMAIN stack'[t], stack'[t][j].do \in Storing PROVE j \in 1..n
      BY <1>2, <1>3, <2>1
    <2>2. \A j \in 1..n : j \in DOMAIN s /\ j \in DOMAIN stack'[t] /\ stack'[t][j] = s[j]
      BY <1>2
    <2>3. \A j \in DOMAIN s : j \in 1..n
      BY <1>2
    <2> QED BY <1>4, <2>1, <2>2, <2>3 DEF Stores
  <1> QED BY <1>8, <1>9

\* A step between a move, or waiting, and what stores the outcome.
LEMMA PassedStack ==
  ASSUME NEW F, stack \in [Task -> Seq(F)], NEW t \in Task, Busy(t),
         StackOK(stack[t]), Movers(stack[t]), SupportsStay,
         NEW S, NEW s \in Seq(S), Replaces(t, s),
         Top(t).do \in Passed \cup Moving,
         \A i \in DOMAIN s : s[i].do \in Passed
  PROVE  /\ StackOK(stack[t])'
         /\ Top(t).do \in Passed /\ returned'[t] = returned[t] =>
              \A f : Stores(t, f)' <=> Stores(t, f)
         /\ Top(t).do \in Moving =>
              /\ \A f : Stores(t, f)' => SameMove(Top(t), f) /\ returned'[t]
              /\ 2 \in DOMAIN stack[t] /\ SameMove(Top(t), stack[t][2]) /\ returned'[t] =>
                   \A f : f = stack[t][2] => Stores(t, f)'
  <1>0. /\ Passed \cap Storing = {} /\ Passed \cap Moving = {} /\ Moving \cap Storing = {}
        /\ \A f : f.do \in Passed => Single(f)
        /\ Results \subseteq Storing
    BY DEF Passed, Storing, Moving, Results, Single
  <1>1. /\ 1 \in DOMAIN stack[t] /\ stack[t][1] = Top(t)
        /\ \E n \in Nat, m \in Nat : Shifted(t, s, n, m)
    BY Positions
  <1>p. PICK n \in Nat, m \in Nat : Shifted(t, s, n, m)
    BY <1>1
  <1>2. /\ DOMAIN s = 1..n /\ DOMAIN stack[t] = 1..m /\ DOMAIN stack'[t] = 1..(n + m - 1)
        /\ \A i \in 1..n : i \in DOMAIN stack'[t] /\ stack'[t][i] = s[i]
        /\ \A k \in DOMAIN stack[t] : k >= 2 =>
             k - 1 + n \in DOMAIN stack'[t] /\ stack'[t][k - 1 + n] = stack[t][k]
        /\ \A i \in DOMAIN stack'[t] :
             i \in 1..n \/ \E k \in DOMAIN stack[t] : k >= 2 /\ i = k - 1 + n
    BY <1>p DEF Shifted
  \* What was reached, or was about to be by the move on top, is reached now.
  <1>3. ASSUME NEW k \in DOMAIN stack[t], k >= 2, k = 2 \/ Reached(stack[t], k)
        PROVE  Reached(stack'[t], k - 1 + n)
    <2> SUFFICES ASSUME NEW i \in DOMAIN stack'[t], i < k - 1 + n
                 PROVE  stack'[t][i].do \in Passed
      BY DEF Reached
    <2>1. CASE i \in 1..n
      BY <1>2, <2>1
    <2>2. CASE i \notin 1..n
      <3>1. PICK l \in DOMAIN stack[t] : l >= 2 /\ i = l - 1 + n /\ stack'[t][i] = stack[t][l]
        BY <1>2, <2>2
      <3>2. l < k /\ k # 2
        BY <1>2, <3>1
      <3> QED BY <1>3, <3>1, <3>2 DEF Reached
    <2> QED BY <2>1, <2>2
  <1>4. ASSUME NEW k \in DOMAIN stack[t], k >= 2, Reached(stack'[t], k - 1 + n), Top(t).do \in Passed
        PROVE  Reached(stack[t], k)
    <2> SUFFICES ASSUME NEW i \in DOMAIN stack[t], i < k
                 PROVE  stack[t][i].do \in Passed
      BY DEF Reached
    <2>1. CASE i = 1
      BY <1>1, <1>4, <2>1
    <2>2. CASE i # 1
      <3>1. i >= 2 /\ i - 1 + n < k - 1 + n
        BY <1>2, <2>2
      <3> QED BY <1>2, <1>4, <3>1 DEF Reached
    <2> QED BY <2>1, <2>2
  <1>5. ASSUME NEW k \in DOMAIN stack[t], k >= 2, stack[t][k].do \in Storing
        PROVE  /\ k = 2 \/ Reached(stack[t], k)
               /\ Top(t).do \in Moving => k = 2 /\ SameMove(Top(t), stack[t][2])
               /\ Top(t).do \in Passed => Reached(stack[t], k)
               /\ InBlock(stack'[t], k - 1 + n)
    <2>1. \/ Top(t).do \in Passed /\ Reached(stack[t], k)
          \/ k = 2 /\ SameMove(Top(t), stack[t][2])
      BY <1>5, StoringOnTop
    <2>2. PICK l \in DOMAIN stack[t] : k < l /\ stack[t][l] = LeaveFrame("chat")
      BY <1>5 DEF StackOK, InBlock
    <2>3. l >= 2 /\ k - 1 + n < l - 1 + n
      BY <1>2, <1>5, <2>2
    <2>4. InBlock(stack'[t], k - 1 + n)
      BY <1>2, <2>2, <2>3 DEF InBlock
    <2> QED BY <1>0, <2>1, <2>4 DEF SameMove
  <1>6. ASSUME NEW j \in DOMAIN stack'[t]
        PROVE  /\ Single(stack'[t][j])
               /\ stack'[t][j].do \in Storing => InBlock(stack'[t], j) /\ Reached(stack'[t], j)
               /\ stack'[t][j].do \in Moving => SupportsNext(stack'[t][j].operator)
    <2>1. CASE j \in 1..n
      BY <1>0, <1>2, <2>1
    <2>2. CASE j \notin 1..n
      <3>1. PICK k \in DOMAIN stack[t] : k >= 2 /\ j = k - 1 + n /\ stack'[t][j] = stack[t][k]
        BY <1>2, <2>2
      <3>2. stack[t][k].do \in Moving => Supports(stack[t][k].operator)
        BY <3>1 DEF StackOK
      <3>3. stack[t][k].do \in Moving => SupportsNext(stack[t][k].operator)
        BY <3>2 DEF SupportsStay, Movers
      <3> QED BY <1>3, <1>5, <3>1, <3>3 DEF StackOK
    <2> QED BY <2>1, <2>2
  <1>7. StackOK(stack[t])'
    BY <1>6 DEF StackOK, Supports, SupportsNext
  \* A frame that stores was below the top before.
  <1>8. ASSUME NEW f, Stores(t, f)'
        PROVE  \E k \in DOMAIN stack[t] :
                 /\ k >= 2 /\ stack[t][k] = f /\ f.do \in Storing
                 /\ f.do \in Results => returned'[t]
                 /\ Reached(stack'[t], k - 1 + n)
    <2>1. PICK j \in DOMAIN stack'[t] :
            /\ stack'[t][j] = f /\ f.do \in Storing /\ (f.do \in Results => returned'[t])
            /\ Reached(stack'[t], j)
      BY <1>8 DEF Stores
    <2>2. j \notin 1..n
      BY <1>0, <1>2, <2>1
    <2> QED BY <1>2, <2>1, <2>2
  <1>9. ASSUME Top(t).do \in Passed, returned'[t] = returned[t], NEW f
        PROVE  Stores(t, f)' <=> Stores(t, f)
    <2>1. ASSUME Stores(t, f)' PROVE Stores(t, f)
      BY <1>4, <1>8, <1>9, <2>1 DEF Stores
    <2>2. ASSUME Stores(t, f) PROVE Stores(t, f)'
      <3>1. PICK k \in DOMAIN stack[t] :
              /\ stack[t][k] = f /\ f.do \in Storing /\ (f.do \in Results => returned[t])
              /\ Reached(stack[t], k)
        BY <2>2 DEF Stores
      <3>2. k >= 2
        BY <1>0, <1>1, <1>2, <1>9, <3>1
      <3> QED BY <1>2, <1>3, <1>9, <3>1, <3>2 DEF Stores
    <2> QED BY <2>1, <2>2
  <1>10. ASSUME Top(t).do \in Moving, NEW f, Stores(t, f)'
         PROVE  SameMove(Top(t), f) /\ returned'[t]
    BY <1>5, <1>8, <1>10 DEF SameMove
  <1>11. ASSUME 2 \in DOMAIN stack[t], SameMove(Top(t), stack[t][2]), returned'[t],
                NEW f, f = stack[t][2]
         PROVE  Stores(t, f)'
    <2>1. 2 - 1 + n \in DOMAIN stack'[t] /\ stack'[t][2 - 1 + n] = stack[t][2]
          /\ Reached(stack'[t], 2 - 1 + n)
      BY <1>2, <1>3, <1>11
    <2> QED BY <1>0, <1>11, <2>1 DEF Stores, SameMove
  <1> QED BY <1>7, <1>9, <1>10, <1>11

\* transfer_chat goes on to its lock.
LEMMA MovingStack ==
  ASSUME NEW F, stack \in [Task -> Seq(F)], NEW t \in Task, Busy(t),
         StackOK(stack[t]), Movers(stack[t]), SupportsStay,
         NEW f, Replaces(t, <<f>>), Top(t).do \in Moving, Top(t).operator \in Operator,
         f.do \in Moving, f.chat = Top(t).chat, f.operator = Top(t).operator
  PROVE  StackOK(stack[t])' /\ \A g : ~Stores(t, g)'
  <1> DEFINE s == <<f>>
  <1>s. s \in Seq({f}) /\ DOMAIN s = {1} /\ s[1] = f /\ Replaces(t, s)
    OBVIOUS
  <1> HIDE DEF s
  <1>0. Moving \cap Passed = {} /\ Moving \cap Storing = {} /\ Single(f)
    BY DEF Passed, Storing, Moving, Results, Single
  <1>1. /\ 1 \in DOMAIN stack[t] /\ stack[t][1] = Top(t)
        /\ \E n \in Nat, m \in Nat : Shifted(t, s, n, m)
    BY <1>s, Positions
  <1>2. PICK m \in Nat :
             /\ DOMAIN stack[t] = 1..m /\ DOMAIN stack'[t] = 1..m
             /\ 1 \in DOMAIN stack'[t] /\ stack'[t][1] = f
             /\ \A k \in DOMAIN stack[t] : k >= 2 => stack'[t][k] = stack[t][k]
    <2>p. PICK n \in Nat, m \in Nat : Shifted(t, s, n, m)
      BY <1>1
    <2>1. /\ DOMAIN s = 1..n /\ DOMAIN stack[t] = 1..m /\ DOMAIN stack'[t] = 1..(n + m - 1)
          /\ \A i \in 1..n : i \in DOMAIN stack'[t] /\ stack'[t][i] = s[i]
          /\ \A k \in DOMAIN stack[t] : k >= 2 =>
               k - 1 + n \in DOMAIN stack'[t] /\ stack'[t][k - 1 + n] = stack[t][k]
      BY <2>p DEF Shifted
    <2>2. n = 1
      <3>1. 1 \in DOMAIN s /\ 2 \notin DOMAIN s
        BY <1>s
      <3> QED BY <2>1, <3>1
    <2>3. \A k \in DOMAIN stack[t] : k - 1 + n = k /\ n + m - 1 = m
      BY <2>1, <2>2
    <2> QED BY <1>s, <1>1, <2>1, <2>2, <2>3
  <1>3. \A j \in DOMAIN stack'[t] : j = 1 \/ (j \in DOMAIN stack[t] /\ j >= 2)
    BY <1>2
  <1>4. SameMove(Top(t), stack[t][2]) => SameMove(f, stack[t][2])
    BY DEF SameMove
  <1>5. ASSUME NEW j \in DOMAIN stack'[t]
        PROVE  /\ Single(stack'[t][j])
               /\ stack'[t][j].do \in Storing =>
                    /\ InBlock(stack'[t], j)
                    /\ Reached(stack'[t], j) \/ (j = 2 /\ SameMove(stack'[t][1], stack'[t][2]))
               /\ stack'[t][j].do \in Moving =>
                    \/ SupportsNext(stack'[t][j].operator)
                    \/ j = 1 /\ 2 \in DOMAIN stack'[t] /\ SameMove(stack'[t][1], stack'[t][2])
    <2>1. CASE j = 1
      <3>1. \/ Supports(f.operator)
            \/ 2 \in DOMAIN stack[t] /\ SameMove(Top(t), stack[t][2])
        BY <1>1 DEF StackOK
      <3>2. 2 \in DOMAIN stack[t] => 2 \in DOMAIN stack'[t] /\ stack'[t][2] = stack[t][2]
        BY <1>2
      <3> QED BY <1>0, <1>2, <1>4, <2>1, <3>1, <3>2 DEF SupportsStay
    <2>2. CASE j \in DOMAIN stack[t] /\ j >= 2
      <3>1. stack'[t][j] = stack[t][j] /\ j # 1
        BY <1>2, <2>2
      <3>2. stack[t][j].do \in Moving => SupportsNext(stack[t][j].operator)
        BY <2>2, <3>1 DEF StackOK, SupportsStay, Movers
      <3>3. ASSUME stack[t][j].do \in Storing
            PROVE  InBlock(stack'[t], j) /\ j = 2 /\ SameMove(stack'[t][1], stack'[t][2])
        <4>1. j = 2 /\ SameMove(Top(t), stack[t][2])
          BY <1>0, <2>2, <3>3, StoringOnTop
        <4>2. PICK l \in DOMAIN stack[t] : j < l /\ stack[t][l] = LeaveFrame("chat")
          BY <2>2, <3>3 DEF StackOK, InBlock
        <4>3. l >= 2
          BY <1>2, <2>2, <4>2
        <4>4. InBlock(stack'[t], j)
          BY <1>2, <4>2, <4>3 DEF InBlock
        <4> QED BY <1>2, <1>4, <3>1, <4>1, <4>4
      <3> QED BY <2>2, <3>1, <3>2, <3>3 DEF StackOK
    <2> QED BY <1>3, <2>1, <2>2
  <1>6. ASSUME NEW g, Stores(t, g)' PROVE FALSE
    <2>1. PICK j \in DOMAIN stack'[t] : stack'[t][j].do \in Storing /\ Reached(stack'[t], j)
      BY <1>6 DEF Stores
    <2>2. 1 < j
      BY <1>0, <1>2, <1>3, <2>1
    <2> QED BY <1>0, <1>2, <2>1, <2>2 DEF Reached
  <1> QED BY <1>5, <1>6 DEF StackOK, Supports, SupportsNext

\* A step of t, for the other tasks.
TurnOf(t) ==
  /\ \A u \in Task \ {t} : stack'[u] = stack[u] /\ returned'[u] = returned[u]
  /\ SupportsStay

LEMMA OthersAgree ==
  ASSUME NEW F, stack \in [Task -> Seq(F)], StacksOK, \A u \in Task : Movers(stack[u]),
         NEW t \in Task, TurnOf(t),
         NEW u \in Task \ {t}
  PROVE  /\ StackOK(stack[u])' /\ MoveTold(u)'
         /\ \A f : Stores(u, f)' <=> Stores(u, f)
  <1>1. stack'[u] = stack[u] /\ returned'[u] = returned[u] /\ Movers(stack[u])
        /\ StackOK(stack[u]) /\ MoveTold(u)
    BY DEF TurnOf, StacksOK
  <1>2. \A f : Stores(u, f)' <=> Stores(u, f)
    BY <1>1 DEF Stores
  <1>3. ASSUME NEW j \in DOMAIN stack[u], stack[u][j].do \in Moving, Supports(stack[u][j].operator)
        PROVE  SupportsNext(stack[u][j].operator)
    BY <1>1, <1>3 DEF TurnOf, SupportsStay, Movers
  <1>4. StackOK(stack[u])'
    <2> SUFFICES ASSUME NEW j \in DOMAIN stack[u]
                 PROVE  /\ Single(stack[u][j])
                        /\ stack[u][j].do \in Storing =>
                             /\ InBlock(stack[u], j)
                             /\ Reached(stack[u], j) \/ (j = 2 /\ SameMove(stack[u][1], stack[u][2]))
                        /\ stack[u][j].do \in Moving =>
                             \/ SupportsNext(stack[u][j].operator)
                             \/ j = 1 /\ 2 \in DOMAIN stack[u] /\ SameMove(stack[u][1], stack[u][2])
      BY <1>1 DEF StackOK, Supports, SupportsNext
    <2> QED BY <1>1, <1>3 DEF StackOK
  <1>5. MoveTold(u)'
    <2> SUFFICES ASSUME Busy(u), Top(u).do = "move"
                 PROVE  SupportsNext(Top(u).operator) \/ returned[u]
      BY <1>1 DEF MoveTold, Busy, Top, Supports, SupportsNext
    <2>1. stack[u] \in Seq(F) /\ stack[u] # <<>>
      BY DEF Busy
    <2>2. 1 \in DOMAIN stack[u] /\ stack[u][1] = Top(u)
      BY <2>1, LenProperties, EmptySeq, HeadTailProperties DEF Top
    <2>3. "move" \in Moving
      BY DEF Moving
    <2> QED BY <1>1, <1>3, <2>2, <2>3 DEF MoveTold
  <1> QED BY <1>1, <1>2, <1>4, <1>5

\* A step that stores nothing and gives no chat to anybody.
LEMMA QuietAgrees ==
  ASSUME Agrees, chat_assignments \in [Chat -> Operator \cup {NoOperator}], SupportsStay,
         \A u \in Task, f \in AssignmentFrame : Stores(u, f)' <=> Stores(u, f),
         UNCHANGED <<chat_operator, participants>>,
         \A ch \in Chat : chat_assignments'[ch] \in {chat_assignments[ch], NoOperator}
  PROVE  Agrees'
  <1> SUFFICES ASSUME NEW ch \in Chat, NEW o, o = chat_assignments'[ch], o # NoOperator,
                      ~SupportsNext(o)
               PROVE  /\ \A t \in Task, f \in AssignmentFrame : Stores(t, f)' /\ f.chat = ch =>
                           f.operator = o /\ (f.do = "addParticipant" => chat_operator'[ch] = o)
                      /\ \/ chat_operator'[ch] = o /\ o \in participants'[ch]
                         \/ \E t \in Task, f \in AssignmentFrame : Stores(t, f)' /\ f.chat = ch
    BY DEF Agrees, Supports, SupportsNext
  <1>1. o = chat_assignments[ch] /\ o \in Operator /\ ~Supports(o)
    BY DEF SupportsStay
  <1> QED BY <1>1 DEF Agrees

\* One of the two writes is done, or what is to be written has been decided on.
LEMMA GoesOnAgrees ==
  ASSUME Agrees, NEW t \in Task, SupportsStay, chat_assignments' = chat_assignments,
         chat_assignments \in [Chat -> Operator \cup {NoOperator}],
         \A u \in Task \ {t}, f \in AssignmentFrame : Stores(u, f)' <=> Stores(u, f),
         NEW g \in AssignmentFrame, NEW h \in AssignmentFrame,
         \A f : Stores(t, f) <=> f = g,
         \A f : Stores(t, f)' <=> f = h,
         g.chat = h.chat, g.operator = h.operator,
         participants' = participants,
         \A ch \in Chat : \/ chat_operator'[ch] = chat_operator[ch] /\ h.do # "addParticipant"
                          \/ chat_operator'[ch] = chat_operator[ch] /\ h.chat # ch
                          \/ chat_operator'[ch] = h.operator /\ h.chat = ch
  PROVE  Agrees'
  <1> SUFFICES ASSUME NEW ch \in Chat, NEW o, o = chat_assignments'[ch], o # NoOperator,
                      ~SupportsNext(o)
               PROVE  /\ \A u \in Task, f \in AssignmentFrame : Stores(u, f)' /\ f.chat = ch =>
                           f.operator = o /\ (f.do = "addParticipant" => chat_operator'[ch] = o)
                      /\ \/ chat_operator'[ch] = o /\ o \in participants'[ch]
                         \/ \E u \in Task, f \in AssignmentFrame : Stores(u, f)' /\ f.chat = ch
    BY DEF Agrees, Supports, SupportsNext
  <1>1. o = chat_assignments[ch] /\ o \in Operator /\ ~Supports(o)
    BY DEF SupportsStay
  <1>2. /\ \A u \in Task, f \in AssignmentFrame : Stores(u, f) /\ f.chat = ch =>
             f.operator = o /\ (f.do = "addParticipant" => chat_operator[ch] = o)
        /\ \/ chat_operator[ch] = o /\ o \in participants[ch]
           \/ \E u \in Task, f \in AssignmentFrame : Stores(u, f) /\ f.chat = ch
    BY <1>1 DEF Agrees
  <1>3. CASE h.chat = ch
    <2>1. h.operator = o
      BY <1>2, <1>3
    <2>2. Stores(t, h)'
      OBVIOUS
    <2>3. ASSUME NEW u \in Task, NEW f \in AssignmentFrame, Stores(u, f)', f.chat = ch
          PROVE  f.operator = o /\ (f.do = "addParticipant" => chat_operator'[ch] = o)
      <3>1. CASE u = t
        BY <1>3, <2>1, <2>3, <3>1
      <3>2. CASE u # t
        BY <1>2, <2>1, <2>3, <3>2
      <3> QED BY <3>1, <3>2
    <2> QED BY <1>3, <2>2, <2>3
  <1>4. CASE h.chat # ch
    <2>1. chat_operator'[ch] = chat_operator[ch]
      BY <1>4
    <2>2. \A u \in Task, f \in AssignmentFrame : f.chat = ch => (Stores(u, f)' <=> Stores(u, f))
      BY <1>4
    <2> QED BY <1>2, <2>1, <2>2
  <1> QED BY <1>3, <1>4

\* All that was to be written is written.
LEMMA DoneAgrees ==
  ASSUME Agrees, NEW t \in Task, SupportsStay, chat_assignments' = chat_assignments,
         chat_assignments \in [Chat -> Operator \cup {NoOperator}],
         \A u \in Task \ {t}, f \in AssignmentFrame : Stores(u, f)' <=> Stores(u, f),
         NEW g \in AssignmentFrame, Stores(t, g), \A f : Stores(t, f) => f = g,
         \A f : ~Stores(t, f)',
         g.operator \in participants'[g.chat],
         chat_operator'[g.chat] = g.operator \/ (chat_operator' = chat_operator /\ g.do = "addParticipant"),
         \A ch \in Chat : ch # g.chat =>
           participants'[ch] = participants[ch] /\ chat_operator'[ch] = chat_operator[ch]
  PROVE  Agrees'
  <1> SUFFICES ASSUME NEW ch \in Chat, NEW o, o = chat_assignments'[ch], o # NoOperator,
                      ~SupportsNext(o)
               PROVE  /\ \A u \in Task, f \in AssignmentFrame : Stores(u, f)' /\ f.chat = ch =>
                           f.operator = o /\ (f.do = "addParticipant" => chat_operator'[ch] = o)
                      /\ \/ chat_operator'[ch] = o /\ o \in participants'[ch]
                         \/ \E u \in Task, f \in AssignmentFrame : Stores(u, f)' /\ f.chat = ch
    BY DEF Agrees, Supports, SupportsNext
  <1>1. o = chat_assignments[ch] /\ o \in Operator /\ ~Supports(o)
    BY DEF SupportsStay
  <1>2. /\ \A u \in Task, f \in AssignmentFrame : Stores(u, f) /\ f.chat = ch =>
             f.operator = o /\ (f.do = "addParticipant" => chat_operator[ch] = o)
        /\ \/ chat_operator[ch] = o /\ o \in participants[ch]
           \/ \E u \in Task, f \in AssignmentFrame : Stores(u, f) /\ f.chat = ch
    BY <1>1 DEF Agrees
  <1>3. CASE g.chat = ch
    <2>1. g.operator = o /\ (g.do = "addParticipant" => chat_operator[ch] = o)
      BY <1>2, <1>3
    <2>2. chat_operator'[ch] = o /\ o \in participants'[ch]
      BY <1>3, <2>1
    <2>3. ASSUME NEW u \in Task, NEW f \in AssignmentFrame, Stores(u, f)', f.chat = ch
          PROVE  f.operator = o
      BY <1>2, <2>3
    <2> QED BY <2>2, <2>3
  <1>4. CASE g.chat # ch
    <2>1. chat_operator'[ch] = chat_operator[ch] /\ participants'[ch] = participants[ch]
      BY <1>4
    <2>2. \A u \in Task, f \in AssignmentFrame : f.chat = ch => (Stores(u, f)' <=> Stores(u, f))
      BY <1>4
    <2> QED BY <1>2, <2>1, <2>2
  <1> QED BY <1>3, <1>4

\* The queue gives chat c to operator p.
LEMMA MovedAgrees ==
  ASSUME Agrees, NEW t \in Task, SupportsStay, NEW c, NEW p,
         chat_assignments' = [chat_assignments EXCEPT ![c] = p],
         chat_assignments \in [Chat -> Operator \cup {NoOperator}],
         \A u \in Task \ {t}, f \in AssignmentFrame : Stores(u, f)' <=> Stores(u, f),
         \A f : ~Stores(t, f),
         \A f : Stores(t, f)' => f.do \in Results /\ f.chat = c /\ f.operator = p,
         \/ SupportsNext(p)
         \/ /\ \E f \in AssignmentFrame : Stores(t, f)' /\ f.chat = c
            /\ \A u \in Task \ {t} : \A f : ~Stores(u, f),
         UNCHANGED <<chat_operator, participants>>
  PROVE  Agrees'
  <1> SUFFICES ASSUME NEW ch \in Chat, NEW o, o = chat_assignments'[ch], o # NoOperator,
                      ~SupportsNext(o)
               PROVE  /\ \A u \in Task, f \in AssignmentFrame : Stores(u, f)' /\ f.chat = ch =>
                           f.operator = o /\ (f.do = "addParticipant" => chat_operator'[ch] = o)
                      /\ \/ chat_operator'[ch] = o /\ o \in participants'[ch]
                         \/ \E u \in Task, f \in AssignmentFrame : Stores(u, f)' /\ f.chat = ch
    BY DEF Agrees, Supports, SupportsNext
  <1>0. "addParticipant" \notin Results
    BY DEF Results
  <1>1. CASE ch = c
    <2>1. o = p
      BY <1>1
    <2>2. \A u \in Task, f \in AssignmentFrame : Stores(u, f)' => u = t
      BY <2>1
    <2> QED BY <1>0, <1>1, <2>1, <2>2
  <1>2. CASE ch # c
    <2>1. o = chat_assignments[ch] /\ o \in Operator /\ ~Supports(o)
      BY <1>2 DEF SupportsStay
    <2>2. \A u \in Task, f \in AssignmentFrame : f.chat = ch => (Stores(u, f)' <=> Stores(u, f))
      BY <1>2
    <2> QED BY <2>1, <2>2 DEF Agrees
  <1> QED BY <1>1, <1>2

\* Frames that neither move a chat nor store its operator.
PlainFrame(f) == Single(f) /\ f.do \notin Storing \cup Moving

PlainSeq(s) == (\E S : s \in Seq(S)) /\ \A i \in DOMAIN s : PlainFrame(s[i])

LEMMA ShortPlain ==
  /\ PlainSeq(<<>>)
  /\ \A f : PlainFrame(f) =>
       /\ PlainSeq(<<f>>)
       /\ \A g : PlainFrame(g) =>
            /\ PlainSeq(<<f, g>>)
            /\ \A h : PlainFrame(h) => PlainSeq(<<f, g, h>>)
  <1>1. PlainSeq(<<>>)
    <2>1. <<>> \in Seq({}) /\ DOMAIN <<>> = {}
      BY EmptySeq
    <2> QED BY <2>1 DEF PlainSeq
  <1>2. ASSUME NEW f, PlainFrame(f) PROVE PlainSeq(<<f>>)
    <2>1. <<f>> \in Seq({f}) /\ \A i \in DOMAIN <<f>> : <<f>>[i] = f
      OBVIOUS
    <2>2. \E S : <<f>> \in Seq(S)
      BY <2>1
    <2> QED BY <1>2, <2>1, <2>2 DEF PlainSeq
  <1>3. ASSUME NEW f, PlainFrame(f), NEW g, PlainFrame(g) PROVE PlainSeq(<<f, g>>)
    <2>1. <<f, g>> \in Seq({f, g}) /\ \A i \in DOMAIN <<f, g>> : <<f, g>>[i] \in {f, g}
      OBVIOUS
    <2>2. \E S : <<f, g>> \in Seq(S)
      BY <2>1
    <2> QED BY <1>3, <2>1, <2>2 DEF PlainSeq
  <1>4. ASSUME NEW f, PlainFrame(f), NEW g, PlainFrame(g), NEW h, PlainFrame(h)
        PROVE  PlainSeq(<<f, g, h>>)
    <2>1. /\ <<f, g, h>> \in Seq({f, g, h})
          /\ \A i \in DOMAIN <<f, g, h>> : <<f, g, h>>[i] \in {f, g, h}
      OBVIOUS
    <2>2. \E S : <<f, g, h>> \in Seq(S)
      BY <2>1
    <2> QED BY <1>4, <2>1, <2>2 DEF PlainSeq
  <1> QED BY <1>1, <1>2, <1>3, <1>4

LEMMA PlainConcat ==
  ASSUME NEW s, PlainSeq(s), NEW r, PlainSeq(r)
  PROVE  PlainSeq(s \o r)
  <1>1. PICK S : s \in Seq(S)
    BY DEF PlainSeq
  <1>2. PICK R : r \in Seq(R)
    BY DEF PlainSeq
  <1>3. S \subseteq S \cup R /\ R \subseteq S \cup R
    OBVIOUS
  <1>4. s \in Seq(S \cup R) /\ r \in Seq(S \cup R)
    BY <1>1, <1>2, <1>3, LargerSet
  <1>5. /\ s \o r \in Seq(S \cup R)
        /\ Len(s \o r) = Len(s) + Len(r)
        /\ \A i \in 1..(Len(s) + Len(r)) :
             (s \o r)[i] = IF i <= Len(s) THEN s[i] ELSE r[i - Len(s)]
    BY <1>4, ConcatProperties
  <1>6. /\ DOMAIN (s \o r) = 1..(Len(s) + Len(r))
        /\ DOMAIN s = 1..Len(s) /\ Len(s) \in Nat /\ DOMAIN r = 1..Len(r) /\ Len(r) \in Nat
    BY <1>4, <1>5, LenProperties
  <1>7. ASSUME NEW i \in DOMAIN (s \o r) PROVE PlainFrame((s \o r)[i])
    <2>1. CASE i <= Len(s)
      <3>1. i \in DOMAIN s /\ (s \o r)[i] = s[i]
        BY <1>5, <1>6, <2>1
      <3> QED BY <3>1 DEF PlainSeq
    <2>2. CASE ~(i <= Len(s))
      <3>1. i - Len(s) \in DOMAIN r /\ (s \o r)[i] = r[i - Len(s)]
        BY <1>5, <1>6, <2>2
      <3> QED BY <3>1 DEF PlainSeq
    <2> QED BY <2>1, <2>2
  <1>8. \E A : s \o r \in Seq(A)
    BY <1>5
  <1> QED BY <1>7, <1>8 DEF PlainSeq

\* Most frames.
LEMMA Ordinary ==
  \A f : f.do \in (Methods \ Moving) \cup
                  {"io", "goOnline", "joinQueue", "readLawyer", "managerLawyer",
                   "createLawyerChat", "storeLawyer", "connect", "operatorClose", "accept",
                   "operatorTransfer", "operatorLawyer", "adminLawyer", "goOffline"}
           => PlainFrame(f)
  BY DEF PlainFrame, Single, Storing, Results, Moving, Methods

StoreFacts ==
  TypedIn(AssignmentFrame) /\ StorageTypeOK /\ LockDiscipline /\ StacksOK /\ Agrees

LEMMA StackFacts ==
  ASSUME TypedIn(AssignmentFrame)
  PROVE  /\ FrameSet(AssignmentFrame)
         /\ stack \in [Task -> Seq(AssignmentFrame)]
         /\ chat_assignments \in [Chat -> Operator \cup {NoOperator}]
         /\ \A u \in Task : Movers(stack[u])
  <1>1. FrameSet(AssignmentFrame)
    BY AssignmentHosts DEF HostSet
  <1>2. ASSUME NEW u \in Task, NEW i \in DOMAIN stack[u], stack[u][i].do \in Moving
        PROVE  stack[u][i].operator \in Operator
    <2>1. stack[u] \in Seq(AssignmentFrame)
      BY DEF TypedIn
    <2>2. stack[u][i] \in AssignmentFrame
      BY <2>1, LenProperties
    <2>3. stack[u][i] \in Frame
      BY <1>1, <1>2, <2>2 DEF FrameSet, Moving, Methods
    <2> QED BY <1>2, <2>3, FrameArguments DEF Moving
  <1> QED BY <1>1, <1>2 DEF TypedIn, Movers

\* A move that comes to the top was below a step of the queue.
LEMMA NoMoveOnTop ==
  ASSUME NEW F, stack \in [Task -> Seq(F)], NEW t \in Task, Busy(t),
         StackOK(stack[t]), Movers(stack[t]), SupportsStay,
         NEW S, NEW s \in Seq(S), Replaces(t, s), \A i \in DOMAIN s : s[i].do # "move"
  PROVE  MoveTold(t)'
  <1>1. PICK n \in Nat, m \in Nat : Shifted(t, s, n, m)
    BY Positions
  <1>2. ASSUME NEW i \in DOMAIN stack'[t], stack'[t][i].do = "move"
        PROVE  SupportsNext(stack'[t][i].operator)
    <2>1. i \notin 1..n
      BY <1>1, <1>2 DEF Shifted
    <2>2. PICK k \in DOMAIN stack[t] : k >= 2 /\ i = k - 1 + n
      BY <1>1, <2>1 DEF Shifted
    <2>3. stack'[t][i] = stack[t][k]
      BY <1>1, <2>2 DEF Shifted
    <2>4. stack[t][k].do \in Moving
      BY <1>2, <2>3 DEF Moving
    <2>5. k # 1
      BY <1>1, <2>2 DEF Shifted
    <2>6. Supports(stack[t][k].operator)
      BY <2>4, <2>5 DEF StackOK
    <2> QED BY <2>3, <2>4, <2>6 DEF SupportsStay, Movers
  <1>3. stack'[t] \in Seq(F \cup S)
    <2>0. stack[t] \in Seq(F) /\ stack[t] # <<>>
      BY DEF Busy
    <2>1. Tail(stack[t]) \in Seq(F)
      BY <2>0, HeadTailProperties
    <2>2. Tail(stack[t]) \in Seq(F \cup S) /\ s \in Seq(F \cup S)
      <3>1. F \subseteq F \cup S /\ S \subseteq F \cup S
        OBVIOUS
      <3> QED BY <2>1, <3>1, LargerSet
    <2>3. s \o Tail(stack[t]) \in Seq(F \cup S)
      BY <2>2, ConcatProperties
    <2> QED BY <2>3 DEF Replaces
  <1>4. stack'[t] # <<>> => 1 \in DOMAIN stack'[t] /\ Head(stack'[t]) = stack'[t][1]
    BY <1>3, LenProperties, EmptySeq, HeadTailProperties
  <1> QED BY <1>2, <1>4 DEF MoveTold, Busy, Top, Supports, SupportsNext

\* Who has not come to store, and pushes nothing that has, leaves all as it is.
LEMMA BareStep ==
  ASSUME StoreFacts, NEW t \in Task, Busy(t), TurnOf(t), \A f : ~Stores(t, f),
         NEW S, NEW s \in Seq(S), Replaces(t, s),
         Top(t).do \notin Passed \cup Moving, Fresh(s, Top(t).do \in Storing),
         \A j \in DOMAIN s : s[j].do # "move" /\ (s[j].do \in Storing => ~Reached(s, j)),
         UNCHANGED <<chat_operator, participants>>,
         \A ch \in Chat : chat_assignments'[ch] \in {chat_assignments[ch], NoOperator}
  PROVE  StacksOK' /\ Agrees'
  <1>0. /\ stack \in [Task -> Seq(AssignmentFrame)] /\ StackOK(stack[t]) /\ Movers(stack[t])
        /\ chat_assignments \in [Chat -> Operator \cup {NoOperator}]
        /\ SupportsStay /\ StacksOK /\ Agrees /\ \A u \in Task : Movers(stack[u])
    BY StackFacts DEF StoreFacts, StacksOK, TurnOf
  <1>1. /\ StackOK(stack[t])'
        /\ \A f : Stores(t, f)' <=>
             \E j \in DOMAIN s : /\ s[j] = f /\ f.do \in Storing
                                 /\ f.do \in Results => returned'[t]
                                 /\ Reached(s, j)
    BY <1>0, BareStack
  <1>2. MoveTold(t)'
    BY <1>0, NoMoveOnTop
  <1>3. \A f : ~Stores(t, f)'
    BY <1>1
  <1>4. \A u \in Task \ {t} : StackOK(stack[u])' /\ MoveTold(u)'
                                /\ \A f : Stores(u, f)' <=> Stores(u, f)
    BY <1>0, OthersAgree
  <1>5. StacksOK'
    BY <1>1, <1>2, <1>4 DEF StacksOK
  <1>6. \A u \in Task, f \in AssignmentFrame : Stores(u, f)' <=> Stores(u, f)
    BY <1>3, <1>4
  <1>7. Agrees'
    BY <1>0, <1>6, QuietAgrees
  <1> QED BY <1>5, <1>7

LEMMA PassedStep ==
  ASSUME StoreFacts, NEW t \in Task, Busy(t), TurnOf(t), returned'[t] = returned[t],
         NEW S, NEW s \in Seq(S), Replaces(t, s),
         Top(t).do \in Passed, \A i \in DOMAIN s : s[i].do \in Passed,
         UNCHANGED <<chat_operator, participants, chat_assignments>>
  PROVE  StacksOK' /\ Agrees'
  <1>0. /\ stack \in [Task -> Seq(AssignmentFrame)] /\ StackOK(stack[t]) /\ Movers(stack[t])
        /\ chat_assignments \in [Chat -> Operator \cup {NoOperator}]
        /\ SupportsStay /\ StacksOK /\ Agrees /\ \A u \in Task : Movers(stack[u])
    BY StackFacts DEF StoreFacts, StacksOK, TurnOf
  <1>1. StackOK(stack[t])' /\ \A f : Stores(t, f)' <=> Stores(t, f)
    BY <1>0, PassedStack
  <1>2. MoveTold(t)'
    <2>1. \A i \in DOMAIN s : s[i].do # "move"
      BY DEF Passed
    <2> QED BY <1>0, <2>1, NoMoveOnTop
  <1>4. \A u \in Task \ {t} : StackOK(stack[u])' /\ MoveTold(u)'
                                /\ \A f : Stores(u, f)' <=> Stores(u, f)
    BY <1>0, OthersAgree
  <1>5. StacksOK'
    BY <1>1, <1>2, <1>4 DEF StacksOK
  <1>6. \A u \in Task, f \in AssignmentFrame : Stores(u, f)' <=> Stores(u, f)
    BY <1>1, <1>4
  <1>7. Agrees'
    BY <1>0, <1>6, QuietAgrees
  <1> QED BY <1>5, <1>7

LEMMA PlainStep ==
  ASSUME StoreFacts, NEW t \in Task, Busy(t), SupportsStay, returned' = returned,
         NEW s, PlainSeq(s), Replaces(t, s), Top(t).do \notin Passed \cup Moving \cup Storing,
         UNCHANGED <<chat_operator, participants>>,
         \A ch \in Chat : chat_assignments'[ch] \in {chat_assignments[ch], NoOperator}
  PROVE  StacksOK' /\ Agrees'
  <1>0. stack \in [Task -> Seq(AssignmentFrame)] /\ StackOK(stack[t])
    BY StackFacts DEF StoreFacts, StacksOK
  <1>1. TurnOf(t)
    BY <1>0 DEF TurnOf, Replaces
  <1>2. PICK S : s \in Seq(S)
    BY DEF PlainSeq
  <1>3. \A f : ~Stores(t, f)
    BY <1>0, StoresTop
  <1>4. Fresh(s, Top(t).do \in Storing)
    BY DEF Fresh, PlainSeq, PlainFrame
  <1>5. \A j \in DOMAIN s : s[j].do # "move" /\ s[j].do \notin Storing
    BY DEF PlainSeq, PlainFrame, Moving
  <1> QED BY <1>1, <1>2, <1>3, <1>4, <1>5, BareStep

\* Once the automatic assignment may serve an operator, it always may.
LEMMA SupportsKept ==
  ASSUME TypedIn(AssignmentFrame), NEW t \in Task, Step(t)
  PROVE  SupportsStay
  <1> USE DEF Runs, Scheduled
  <1> DEFINE f == Top(t)
  <1>0. ASSUME Busy(t), f.do \in Methods PROVE f \in Frame
    BY <1>0, StackFacts, TopType
  <1>1. CASE operators' = operators
    BY <1>1 DEF SupportsStay, Supports, SupportsNext
  <1>2. ASSUME NEW p \in Operator, operators' = [operators EXCEPT ![p] = operators'[p]],
               operators[p].type = "support" => operators'[p].type = "support"
        PROVE  SupportsStay
    BY <1>2 DEF SupportsStay, Supports, SupportsNext, TypedIn
  <1>3. CASE RegisterOperator(t)
    <2>1. f.operator \in Operator
      BY <1>0, <1>3, FrameArguments DEF RegisterOperator, Methods
    <2>2. \A o \in Operator : o # f.operator => operators'[o] = operators[o]
      BY <1>3, <2>1 DEF RegisterOperator, TypedIn
    <2>3. Supports(f.operator) => operators' = operators
      BY <1>3, SupportAssumption DEF RegisterOperator, Registered, Supports
    <2> QED BY <2>2, <2>3 DEF SupportsStay, Supports, SupportsNext
  <1>4. CASE SetOperatorOnline(t)
    <2>1. f.operator \in Operator
      BY <1>0, <1>4, FrameArguments DEF SetOperatorOnline, Methods
    <2>2. \A o \in Operator : o # f.operator => operators'[o] = operators[o]
      BY <1>4, <2>1 DEF SetOperatorOnline, TypedIn
    <2>3. operators[f.operator] \in OperatorStatus /\ "support" # Unregistered
      BY <2>1, SupportAssumption DEF TypedIn
    <2>4. Supports(f.operator) => SupportsNext(f.operator)
      BY <1>4, <2>1, <2>3 DEF SetOperatorOnline, TypedIn, OperatorStatus, Supports, SupportsNext
    <2> QED BY <2>2, <2>4 DEF SupportsStay, Supports, SupportsNext
  <1>5. CASE SetOperatorOffline(t) \/ SetOperatorBusy(t)
    <2>1. f.operator \in Operator
      BY <1>0, <1>5, FrameArguments DEF SetOperatorOffline, SetOperatorBusy, Methods
    <2>0. operators[f.operator] \in OperatorStatus /\ operators \in [Operator -> OperatorStatus]
      BY <2>1 DEF TypedIn
    <2>3. \/ operators' = operators
          \/ operators' = [operators EXCEPT ![f.operator].is_online = FALSE,
                                           ![f.operator].is_available = FALSE]
          \/ operators' = [operators EXCEPT ![f.operator].is_available = ~f.busy]
      BY <1>5 DEF SetOperatorOffline, SetOperatorBusy
    <2>2. \A o \in Operator : operators'[o].type = operators[o].type
      BY <2>0, <2>1, <2>3 DEF OperatorStatus
    <2> QED BY <2>2 DEF SupportsStay, Supports, SupportsNext
  <1>6. CASE AssignChatToOperator(t)
    <2>1. f.operator \in Operator
      BY <1>0, <1>6, FrameArguments DEF AssignChatToOperator, Methods
    <2>0. operators[f.operator] \in OperatorStatus /\ operators \in [Operator -> OperatorStatus]
      BY <2>1 DEF TypedIn
    <2>3. \/ operators' = operators
          \/ operators' = [operators EXCEPT ![f.operator].current_chats = @ \cup {f.chat}]
      BY <1>6 DEF AssignChatToOperator
    <2>2. \A o \in Operator : operators'[o].type = operators[o].type
      BY <2>0, <2>1, <2>3 DEF OperatorStatus
    <2> QED BY <2>2 DEF SupportsStay, Supports, SupportsNext
  <1>7. ASSUME NEW ch, NEW o \in Operator \cup {NoOperator}
        PROVE  \A p \in Operator : Discarding(ch, o)[p].type = operators[p].type
    BY <1>7 DEF Discarding, TypedIn, OperatorStatus
  <1>8. CASE ReleaseOperatorFromChat(t)
    <2>1. f.chat \in Chat
      BY <1>0, <1>8, FrameArguments DEF ReleaseOperatorFromChat, Methods
    <2>2. chat_assignments[f.chat] \in Operator \cup {NoOperator}
      BY <2>1 DEF TypedIn
    <2>3. \A o \in Operator : operators'[o].type = operators[o].type
      BY <1>7, <1>8, <2>2 DEF ReleaseOperatorFromChat
    <2> QED BY <2>3 DEF SupportsStay, Supports, SupportsNext
  <1>9. CASE MoveChat(t)
    <2>1. f.operator \in Operator /\ f.from \in Operator
      BY <1>0, <1>9, FrameArguments DEF MoveChat, Methods
    <2>2. /\ \A p \in Operator : Discarding(f.chat, f.from)[p].type = operators[p].type
          /\ Discarding(f.chat, f.from) \in [Operator -> OperatorStatus]
      <3>1. operators[f.from] \in OperatorStatus
        BY <2>1 DEF TypedIn
      <3>2. Discarding(f.chat, f.from) \in [Operator -> OperatorStatus]
        BY <2>1, <3>1, SupportAssumption DEF Discarding, TypedIn, OperatorStatus
      <3> QED BY <1>7, <2>1, <3>2
    <2> DEFINE d == Discarding(f.chat, f.from)
    <2>3. operators' = [d EXCEPT ![f.operator].current_chats = @ \cup {f.chat}]
      BY <1>9 DEF MoveChat
    <2> HIDE DEF d
    <2>4. d \in [Operator -> OperatorStatus] /\ \A p \in Operator : d[p].type = operators[p].type
      BY <2>2 DEF d
    <2>5. \A p \in Operator : operators'[p].type = operators[p].type
      BY <2>1, <2>3, <2>4 DEF OperatorStatus
    <2> QED BY <2>5 DEF SupportsStay, Supports, SupportsNext
  <1>10. CASE ~(operators' = operators)
    <2>1. \/ AssignChatToOperator(t) \/ ReleaseOperatorFromChat(t) \/ MoveChat(t)
          \/ RegisterOperator(t) \/ SetOperatorOnline(t) \/ SetOperatorOffline(t)
          \/ SetOperatorBusy(t)
      BY <1>10 DEF Step, AddClientToQueue, RemoveClientFromQueue, UpdateQueuePosition,
         UpdateWaitTimes, TransferChat, VacateChats, TransferChatToAvailableOperator,
         TryAutoAssignClients, AssignEachClient, TryAssignOperatorToClient, WaitForLock,
         LeaveLock, queueVars
    <2> QED BY <1>3, <1>4, <1>5, <1>6, <1>8, <1>9, <2>1
  <1> QED BY <1>1, <1>10

\* Two tasks are never about to store: the one that is holds the manager's lock.
LEMMA OneInBlock ==
  ASSUME StoreFacts, NEW t \in Task, NEW j \in DOMAIN stack[t], stack[t][j].do \in Storing,
         NEW u \in Task \ {t}
  PROVE  \A f : ~Stores(u, f)
  <1>0. StackOK(stack[t]) /\ StackOK(stack[u]) /\ LockDiscipline /\ "chat" \in Lock
    BY ManagerAssumption DEF StoreFacts, StacksOK, Manager
  <1>1. holder["chat"] = t
    BY <1>0 DEF StackOK, InBlock, LockDiscipline
  <1> SUFFICES ASSUME NEW f, Stores(u, f) PROVE FALSE
    OBVIOUS
  <1>2. PICK k \in DOMAIN stack[u] : stack[u][k].do \in Storing
    BY DEF Stores
  <1>3. holder["chat"] = u
    BY <1>0, <1>2 DEF StackOK, InBlock, LockDiscipline
  <1> QED BY <1>1, <1>3

\* The queue has moved a chat.
LEMMA MovedStep ==
  ASSUME StoreFacts, NEW t \in Task, Busy(t), TurnOf(t),
         NEW S, NEW s \in Seq(S), Replaces(t, s),
         Top(t).do \in Moving, \A i \in DOMAIN s : s[i].do \in Passed,
         chat_assignments' = [chat_assignments EXCEPT ![Top(t).chat] = Top(t).operator],
         returned'[t] \/ Supports(Top(t).operator),
         UNCHANGED <<chat_operator, participants>>
  PROVE  StacksOK' /\ Agrees'
  <1>0. /\ stack \in [Task -> Seq(AssignmentFrame)] /\ StackOK(stack[t]) /\ Movers(stack[t])
        /\ chat_assignments \in [Chat -> Operator \cup {NoOperator}]
        /\ SupportsStay /\ StacksOK /\ Agrees /\ \A u \in Task : Movers(stack[u])
        /\ FrameSet(AssignmentFrame) /\ TypedIn(AssignmentFrame)
    BY StackFacts DEF StoreFacts, StacksOK, TurnOf
  <1>1. /\ StackOK(stack[t])'
        /\ \A f : Stores(t, f)' => SameMove(Top(t), f) /\ returned'[t]
        /\ 2 \in DOMAIN stack[t] /\ SameMove(Top(t), stack[t][2]) /\ returned'[t] =>
             \A f : f = stack[t][2] => Stores(t, f)'
    BY <1>0, PassedStack
  <1>2. MoveTold(t)'
    <2>1. \A i \in DOMAIN s : s[i].do # "move"
      BY DEF Passed
    <2> QED BY <1>0, <2>1, NoMoveOnTop
  <1>3. \A u \in Task \ {t} : StackOK(stack[u])' /\ MoveTold(u)'
                                /\ \A f : Stores(u, f)' <=> Stores(u, f)
    BY <1>0, OthersAgree
  <1>4. StacksOK'
    BY <1>1, <1>2, <1>3 DEF StacksOK
  <1>5. \A f : ~Stores(t, f)
    BY <1>0, StoresTop DEF Moving, Passed, Storing, Results
  <1>6. 1 \in DOMAIN stack[t] /\ stack[t][1] = Top(t)
    BY <1>0, StackDomain
  <1>7. \A f : Stores(t, f)' => /\ f.do \in Results /\ f.chat = Top(t).chat
                                /\ f.operator = Top(t).operator
    BY <1>1 DEF SameMove
  <1>8. \/ SupportsNext(Top(t).operator)
        \/ /\ \E f \in AssignmentFrame : Stores(t, f)' /\ f.chat = Top(t).chat
           /\ \A u \in Task \ {t} : \A f : ~Stores(u, f)
    <2>1. CASE Supports(Top(t).operator)
      BY <1>0, <1>6, <2>1 DEF SupportsStay, Movers
    <2>2. CASE ~Supports(Top(t).operator)
      <3>1. 2 \in DOMAIN stack[t] /\ SameMove(Top(t), stack[t][2])
        BY <1>0, <1>6, <2>2 DEF StackOK
      <3>2. PICK g : g = stack[t][2]
        OBVIOUS
      <3>3. Stores(t, g)' /\ g.chat = Top(t).chat /\ g.do \in Storing
        BY <1>1, <2>2, <3>1, <3>2 DEF SameMove, Storing
      <3>4. g \in AssignmentFrame
        <4>1. stack[t] \in Seq(AssignmentFrame)
          BY <1>0
        <4> QED BY <3>1, <3>2, <4>1, LenProperties
      <3>5. \A u \in Task \ {t} : \A f : ~Stores(u, f)
        BY <3>1, <3>2, <3>3, OneInBlock
      <3> QED BY <3>3, <3>4, <3>5
    <2> QED BY <2>1, <2>2
  <1>9. PICK c, p : c = Top(t).chat /\ p = Top(t).operator
    OBVIOUS
  <1>10. Agrees'
    BY <1>0, <1>3, <1>5, <1>7, <1>8, <1>9, MovedAgrees
  <1> QED BY <1>4, <1>10

\* The queue has refused to move a chat.
LEMMA RefusedStep ==
  ASSUME StoreFacts, NEW t \in Task, Busy(t), TurnOf(t),
         NEW S, NEW s \in Seq(S), Replaces(t, s),
         Top(t).do \in Moving, \A i \in DOMAIN s : s[i].do \in Passed,
         ~returned'[t],
         UNCHANGED <<chat_operator, participants, chat_assignments>>
  PROVE  StacksOK' /\ Agrees'
  <1>0. /\ stack \in [Task -> Seq(AssignmentFrame)] /\ StackOK(stack[t]) /\ Movers(stack[t])
        /\ chat_assignments \in [Chat -> Operator \cup {NoOperator}]
        /\ SupportsStay /\ StacksOK /\ Agrees /\ \A u \in Task : Movers(stack[u])
    BY StackFacts DEF StoreFacts, StacksOK, TurnOf
  <1>1. StackOK(stack[t])' /\ \A f : ~Stores(t, f)'
    BY <1>0, PassedStack
  <1>2. MoveTold(t)'
    <2>1. \A i \in DOMAIN s : s[i].do # "move"
      BY DEF Passed
    <2> QED BY <1>0, <2>1, NoMoveOnTop
  <1>3. \A u \in Task \ {t} : StackOK(stack[u])' /\ MoveTold(u)'
                                /\ \A f : Stores(u, f)' <=> Stores(u, f)
    BY <1>0, OthersAgree
  <1>4. StacksOK'
    BY <1>1, <1>2, <1>3 DEF StacksOK
  <1>5. \A f : ~Stores(t, f)
    BY <1>0, StoresTop DEF Moving, Passed, Storing, Results
  <1>6. \A u \in Task, f \in AssignmentFrame : Stores(u, f)' <=> Stores(u, f)
    BY <1>1, <1>3, <1>5
  <1>7. Agrees'
    BY <1>0, <1>6, QuietAgrees
  <1> QED BY <1>4, <1>7

LEMMA KindsApart ==
  /\ Passed \cap (Storing \cup Moving) = {} /\ Moving \cap Storing = {}
  /\ Methods \cap Storing = {}
  /\ \A l : LeaveFrame(l).do \in Passed
  BY DEF Passed, Storing, Results, Moving, Methods, LeaveFrame

\* What the queue's answer leaves alone.
LEMMA AnswerKept ==
  ASSUME StoreFacts, NEW t \in Task, QueueStep(t)
  PROVE  /\ \A u \in Task \ {t} : returned'[u] = returned[u]
         /\ Top(t).do \notin {"assign", "transfer"} => returned' = returned
         /\ Top(t).do = "assign" => returned'[t] = CanTake(Top(t).operator)
         /\ Top(t).do = "transfer" => returned'[t] = Transferable(Top(t).chat, Top(t).operator)
         /\ Step(t) /\ UNCHANGED <<chat_operator, participants>>
  <1>1. returned \in [Task -> BOOLEAN]
    BY DEF StoreFacts, StorageTypeOK
  <1>2. returned' = [returned EXCEPT ![t] =
          CASE Top(t).do = "assign"   -> CanTake(Top(t).operator)
            [] Top(t).do = "transfer" -> Transferable(Top(t).chat, Top(t).operator)
            [] OTHER -> returned[t]]
    BY DEF QueueStep
  <1>3. Step(t) /\ UNCHANGED <<chat_operator, participants>>
    BY DEF QueueStep, storageVars
  <1>4. \A u \in Task \ {t} : returned'[u] = returned[u]
    BY <1>1, <1>2
  <1>5. CASE Top(t).do \notin {"assign", "transfer"}
    BY <1>1, <1>2, <1>3, <1>4, <1>5
  <1>6. CASE Top(t).do = "assign"
    BY <1>1, <1>2, <1>3, <1>4, <1>6
  <1>7. CASE Top(t).do = "transfer"
    BY <1>1, <1>2, <1>3, <1>4, <1>7
  <1> QED BY <1>5, <1>6, <1>7

\* The methods that call no other that moves a chat.
LEMMA QueuePlainStores ==
  ASSUME StoreFacts, NEW t \in Task, QueueStep(t),
         \/ AddClientToQueue(t) \/ UpdateQueuePosition(t) \/ UpdateWaitTimes(t)
         \/ ReleaseOperatorFromChat(t) \/ RegisterOperator(t) \/ SetOperatorOnline(t)
         \/ SetOperatorOffline(t) \/ SetOperatorBusy(t) \/ VacateChats(t)
         \/ TryAutoAssignClients(t) \/ AssignEachClient(t)
  PROVE  StacksOK' /\ Agrees'
  <1> USE DEF Runs, Scheduled
  <1> DEFINE f == Top(t)
  <1>0. Busy(t) /\ f.do \in {"add", "reprioritise", "tick", "release", "register", "online",
                              "offline", "busy", "vacate", "autoAssign", "assignEach"}
    BY DEF AddClientToQueue, UpdateQueuePosition, UpdateWaitTimes, ReleaseOperatorFromChat,
       RegisterOperator, SetOperatorOnline, SetOperatorOffline, SetOperatorBusy, VacateChats,
       TryAutoAssignClients, AssignEachClient
  <1>1. f.do \notin Passed \cup Moving \cup Storing /\ f.do \notin {"assign", "transfer"}
        /\ f.do \in Methods
    BY <1>0 DEF Passed, Moving, Storing, Results, Methods
  <1>2. /\ SupportsStay /\ returned' = returned /\ UNCHANGED <<chat_operator, participants>>
        /\ TypedIn(AssignmentFrame)
    BY <1>1, AnswerKept, SupportsKept DEF StoreFacts
  <1>3. f \in Frame
    BY <1>0, <1>1, <1>2, StackFacts, TopType
  <1>4. \A ch \in Chat : chat_assignments'[ch] \in {chat_assignments[ch], NoOperator}
    <2>1. CASE chat_assignments' = chat_assignments
      BY <2>1
    <2>2. CASE ReleaseOperatorFromChat(t)
      <3>1. \/ chat_assignments' = chat_assignments
            \/ chat_assignments' = [chat_assignments EXCEPT ![f.chat] = NoOperator]
        BY <2>2 DEF ReleaseOperatorFromChat
      <3> QED BY <1>2, <3>1 DEF TypedIn
    <2>3. CASE ~ReleaseOperatorFromChat(t)
      BY <2>1, <2>3 DEF AddClientToQueue, UpdateQueuePosition, UpdateWaitTimes,
         RegisterOperator, SetOperatorOnline, SetOperatorOffline, SetOperatorBusy, VacateChats,
         TryAutoAssignClients, AssignEachClient, queueVars
    <2> QED BY <2>2, <2>3
  <1>5. ASSUME NEW s, PlainSeq(s), Continue(t, s) PROVE StacksOK' /\ Agrees'
    <2>1. Replaces(t, s)
      BY <1>5 DEF Continue, Replaces
    <2> QED BY <1>0, <1>1, <1>2, <1>4, <1>5, <2>1, PlainStep
  <1>6. ASSUME NEW g, g.do \in Methods \ Moving PROVE PlainFrame(g)
    BY <1>6, Ordinary
  <1>7. \A l : PlainFrame(LeaveFrame(l))
    BY <1>6 DEF LeaveFrame, Methods, Moving
  <1>a. ASSUME Continue(t, <<>>) PROVE StacksOK' /\ Agrees'
    BY <1>5, <1>a, ShortPlain
  <1>b. ASSUME NEW g, g.do \in Methods \ Moving, Continue(t, <<g>>)
        PROVE  StacksOK' /\ Agrees'
    BY <1>5, <1>6, <1>b, ShortPlain
  <1>c. ASSUME NEW g, g.do \in Methods \ Moving, NEW h, h.do \in Methods \ Moving,
               Continue(t, <<g, h>>)
        PROVE  StacksOK' /\ Agrees'
    <2>1. PlainSeq(<<g, h>>)
      BY <1>6, <1>c, ShortPlain
    <2> QED BY <1>5, <1>c, <2>1
  <1>l. \A l : LeaveFrame(l).do \in Methods \ Moving
    BY DEF LeaveFrame, Methods, Moving
  <1>m. {"tryAssign", "autoAssign", "vacate", "rehome", "assignEach"} \subseteq Methods \ Moving
    BY DEF Methods, Moving
  <1>8. CASE AddClientToQueue(t)
    <2> DEFINE g == [do |-> "tryAssign", client |-> f.client]
    <2>1. g.do \in Methods \ Moving
      BY <1>m
    <2>2. Continue(t, <<LeaveFrame("queue")>>) \/ Continue(t, <<g, LeaveFrame("queue")>>)
      BY <1>8 DEF AddClientToQueue
    <2> HIDE DEF g
    <2> QED BY <1>b, <1>c, <1>l, <2>1, <2>2
  <1>9. CASE UpdateQueuePosition(t) \/ UpdateWaitTimes(t)
    <2>1. Continue(t, <<LeaveFrame("queue")>>)
      BY <1>9 DEF UpdateQueuePosition, UpdateWaitTimes
    <2> QED BY <1>b, <1>l, <2>1
  <1>10. CASE ReleaseOperatorFromChat(t)
    <2> DEFINE g == [do |-> "autoAssign"]
    <2>1. g.do \in Methods \ Moving
      BY <1>m
    <2>2. Continue(t, <<LeaveFrame("assignment")>>) \/ Continue(t, <<g, LeaveFrame("assignment")>>)
      BY <1>10 DEF ReleaseOperatorFromChat
    <2> HIDE DEF g
    <2> QED BY <1>b, <1>c, <1>l, <2>1, <2>2
  <1>11. CASE RegisterOperator(t) \/ SetOperatorBusy(t)
    BY <1>a, <1>11 DEF RegisterOperator, SetOperatorBusy
  <1>12. CASE SetOperatorOnline(t)
    <2> DEFINE g == [do |-> "autoAssign"]
    <2>1. g.do \in Methods \ Moving
      BY <1>m
    <2>2. Continue(t, <<g>>)
      BY <1>12 DEF SetOperatorOnline
    <2> HIDE DEF g
    <2> QED BY <1>b, <2>1, <2>2
  <1>13. CASE SetOperatorOffline(t)
    <2> DEFINE g == [do |-> "vacate", chats |-> operators[f.operator].current_chats]
    <2>1. g.do \in Methods \ Moving
      BY <1>m
    <2>2. Continue(t, <<>>) \/ Continue(t, <<g>>)
      BY <1>13 DEF SetOperatorOffline
    <2> HIDE DEF g
    <2> QED BY <1>a, <1>b, <2>1, <2>2
  <1>14. CASE VacateChats(t)
    <2>1. CASE Continue(t, <<>>)
      BY <1>a, <2>1
    <2>2. ASSUME NEW ch \in f.chats,
                 Continue(t, <<[do |-> "rehome", chat |-> ch],
                               [do |-> "vacate", chats |-> f.chats \ {ch}]>>)
          PROVE  StacksOK' /\ Agrees'
      <3> DEFINE g == [do |-> "rehome", chat |-> ch]
                 h == [do |-> "vacate", chats |-> f.chats \ {ch}]
      <3>1. g.do \in Methods \ Moving /\ h.do \in Methods \ Moving
        BY <1>m
      <3>2. Continue(t, <<g, h>>)
        BY <2>2
      <3> HIDE DEF g, h
      <3> QED BY <1>c, <3>1, <3>2
    <2>3. \/ Continue(t, <<>>)
          \/ \E ch \in f.chats : Continue(t, <<[do |-> "rehome", chat |-> ch],
                                               [do |-> "vacate", chats |-> f.chats \ {ch}]>>)
      BY <1>14 DEF VacateChats
    <2> QED BY <2>1, <2>2, <2>3
  <1>15. CASE TryAutoAssignClients(t)
    <2>1. PICK s \in SortedClients : Continue(t, <<[do |-> "assignEach", clients |-> s]>>)
      BY <1>15 DEF TryAutoAssignClients
    <2> DEFINE g == [do |-> "assignEach", clients |-> s]
    <2>2. g.do \in Methods \ Moving /\ Continue(t, <<g>>)
      BY <1>m, <2>1
    <2> HIDE DEF g
    <2> QED BY <1>b, <2>2
  <1>16. CASE AssignEachClient(t)
    <2> DEFINE g == [do |-> "tryAssign", client |-> Head(f.clients)]
               h == [do |-> "assignEach", clients |-> Tail(f.clients)]
    <2>1. g.do \in Methods \ Moving /\ h.do \in Methods \ Moving
      BY <1>m
    <2>2. Continue(t, <<>>) \/ Continue(t, <<g, h>>)
      BY <1>16 DEF AssignEachClient
    <2> HIDE DEF g, h
    <2> QED BY <1>a, <1>c, <2>1, <2>2
  <1> QED BY <1>8, <1>9, <1>10, <1>11, <1>12, <1>13, <1>14, <1>15, <1>16

\* The methods that call one that moves a chat, for a support operator.
LEMMA QueuePushesMove ==
  ASSUME StoreFacts, NEW t \in Task, QueueStep(t),
         TransferChatToAvailableOperator(t) \/ TryAssignOperatorToClient(t)
  PROVE  StacksOK' /\ Agrees'
  <1> USE DEF Runs, Scheduled
  <1> DEFINE f == Top(t)
  <1>0. Busy(t) /\ f.do \in {"rehome", "tryAssign"} /\ UNCHANGED queueVars
    BY DEF TransferChatToAvailableOperator, TryAssignOperatorToClient
  <1>1. f.do \notin Passed \cup Moving \cup Storing /\ f.do \notin {"assign", "transfer"}
    BY <1>0 DEF Passed, Moving, Storing, Results
  <1>2. /\ SupportsStay /\ returned' = returned /\ UNCHANGED <<chat_operator, participants>>
        /\ stack \in [Task -> Seq(AssignmentFrame)] /\ StackOK(stack[t])
    BY <1>1, AnswerKept, SupportsKept, StackFacts DEF StoreFacts, StacksOK
  <1>4. \A ch \in Chat : chat_assignments'[ch] \in {chat_assignments[ch], NoOperator}
    BY <1>0 DEF queueVars
  <1>5. ASSUME NEW s, PlainSeq(s), Continue(t, s) PROVE StacksOK' /\ Agrees'
    <2>1. Replaces(t, s)
      BY <1>5 DEF Continue, Replaces
    <2> QED BY <1>0, <1>1, <1>2, <1>4, <1>5, <2>1, PlainStep
  <1>6. ASSUME NEW g, g.do \in {"assign", "transfer"}, SupportsNext(g.operator), Continue(t, <<g>>)
        PROVE  StacksOK' /\ Agrees'
    <2> DEFINE s == <<g>>
    <2>1. s \in Seq({g}) /\ DOMAIN s = {1} /\ s[1] = g /\ Replaces(t, s)
      BY <1>6 DEF Continue, Replaces
    <2> HIDE DEF s
    <2>2. TurnOf(t)
      BY <1>2, <2>1 DEF TurnOf, Replaces
    <2>3. \A h : ~Stores(t, h)
      BY <1>0, <1>1, <1>2, StoresTop
    <2>4. Single(g) /\ g.do \notin Storing /\ g.do # "move"
      BY <1>6 DEF Single, Storing, Results
    <2>5. Fresh(s, f.do \in Storing)
      BY <1>6, <2>1, <2>4 DEF Fresh
    <2>6. \A j \in DOMAIN s : s[j].do # "move" /\ s[j].do \notin Storing
      BY <2>1, <2>4
    <2> QED BY <1>0, <1>1, <1>2, <1>4, <2>1, <2>2, <2>3, <2>5, <2>6, BareStep
  <1>7. CASE Continue(t, <<>>)
    BY <1>5, <1>7, ShortPlain
  <1>8. \A o \in LeastLoaded : SupportsNext(o)
    BY <1>0 DEF LeastLoaded, AvailableSupport, SupportsNext, queueVars
  <1>9. CASE TransferChatToAvailableOperator(t)
    <2>1. ASSUME NEW o \in LeastLoaded,
                 Continue(t, <<[do |-> "transfer", chat |-> f.chat, operator |-> o]>>)
          PROVE  StacksOK' /\ Agrees'
      <3> DEFINE g == [do |-> "transfer", chat |-> f.chat, operator |-> o]
      <3>1. g.do = "transfer" /\ g.operator = o /\ Continue(t, <<g>>)
        BY <2>1
      <3> HIDE DEF g
      <3> QED BY <1>6, <1>8, <2>1, <3>1
    <2>2. CASE Continue(t, <<[do |-> "release", chat |-> f.chat]>>)
      <3> DEFINE g == [do |-> "release", chat |-> f.chat]
      <3>1. PlainFrame(g) /\ Continue(t, <<g>>)
        BY <2>2, Ordinary DEF Methods, Moving
      <3> HIDE DEF g
      <3> QED BY <1>5, <3>1, ShortPlain
    <2> QED BY <1>7, <1>9, <2>1, <2>2 DEF TransferChatToAvailableOperator
  <1>10. CASE TryAssignOperatorToClient(t)
    <2>1. ASSUME NEW o \in LeastLoaded,
                 Continue(t, <<[do |-> "assign", chat |-> waiting_clients[f.client].chat,
                                operator |-> o, client |-> f.client]>>)
          PROVE  StacksOK' /\ Agrees'
      <3> DEFINE g == [do |-> "assign", chat |-> waiting_clients[f.client].chat,
                       operator |-> o, client |-> f.client]
      <3>1. g.do = "assign" /\ g.operator = o /\ Continue(t, <<g>>)
        BY <2>1
      <3> HIDE DEF g
      <3> QED BY <1>6, <1>8, <2>1, <3>1
    <2> QED BY <1>7, <1>10, <2>1 DEF TryAssignOperatorToClient
  <1> QED BY <1>9, <1>10

\* Waiting, and the ends of blocks.
LEMMA QueuePassedStores ==
  ASSUME StoreFacts, NEW t \in Task, QueueStep(t), RemoveClientFromQueue(t) \/ LeaveLock(t)
  PROVE  StacksOK' /\ Agrees'
  <1> USE DEF Runs, Scheduled
  <1>0. /\ Busy(t) /\ Top(t).do \in {"remove", "leave"} /\ chat_assignments' = chat_assignments
        /\ Continue(t, <<>>) \/ Continue(t, <<LeaveFrame("queue")>>)
    BY DEF RemoveClientFromQueue, LeaveLock, Leave, LeaveFrame, queueVars
  <1>1. Top(t).do \in Passed /\ Top(t).do \notin {"assign", "transfer"}
    BY <1>0 DEF Passed
  <1>2. /\ SupportsStay /\ returned' = returned /\ UNCHANGED <<chat_operator, participants>>
        /\ stack \in [Task -> Seq(AssignmentFrame)]
    BY <1>1, AnswerKept, SupportsKept, StackFacts DEF StoreFacts
  <1>3. ASSUME NEW S, NEW s \in Seq(S), Continue(t, s), \A i \in DOMAIN s : s[i].do \in Passed
        PROVE  StacksOK' /\ Agrees'
    <2>1. Replaces(t, s)
      BY <1>3 DEF Continue, Replaces
    <2>2. TurnOf(t)
      BY <1>2, <2>1 DEF TurnOf, Replaces
    <2> QED BY <1>0, <1>1, <1>2, <1>3, <2>1, <2>2, PassedStep
  <1>4. CASE Continue(t, <<>>)
    <2>1. <<>> \in Seq({}) /\ DOMAIN <<>> = {}
      BY EmptySeq
    <2> QED BY <1>3, <1>4, <2>1
  <1>5. CASE Continue(t, <<LeaveFrame("queue")>>)
    <2> DEFINE g == LeaveFrame("queue")
               s == <<g>>
    <2>1. g.do \in Passed
      BY KindsApart
    <2>2. s \in Seq({g}) /\ DOMAIN s = {1} /\ s[1] = g /\ Continue(t, s)
      BY <1>5
    <2> HIDE DEF s, g
    <2> QED BY <1>3, <2>1, <2>2
  <1> QED BY <1>0, <1>4, <1>5

\* The step of the queue that gives a chat away.
LEMMA QueueMoves ==
  ASSUME StoreFacts, NEW t \in Task, QueueStep(t), AssignChatToOperator(t) \/ MoveChat(t)
  PROVE  StacksOK' /\ Agrees'
  <1> USE DEF Runs, Scheduled
  <1> DEFINE f == Top(t)
  <1>0. Busy(t) /\ f.do \in {"assign", "move"} /\ f.do \in Moving
    BY DEF AssignChatToOperator, MoveChat, Moving
  <1>1. /\ SupportsStay /\ UNCHANGED <<chat_operator, participants>>
        /\ \A u \in Task \ {t} : returned'[u] = returned[u]
        /\ stack \in [Task -> Seq(AssignmentFrame)]
    BY AnswerKept, SupportsKept, StackFacts DEF StoreFacts
  <1>2. ASSUME NEW s, Continue(t, s) PROVE TurnOf(t) /\ Replaces(t, s)
    BY <1>1, <1>2 DEF TurnOf, Continue, Replaces
  <1>3. ASSUME NEW g, g.do \in Passed
        PROVE  /\ <<g>> \in Seq({g}) /\ \A i \in DOMAIN <<g>> : <<g>>[i].do \in Passed
    BY <1>3
  <1>4. ASSUME NEW g, g.do \in Passed, NEW h, h.do \in Passed
        PROVE  /\ <<g, h>> \in Seq({g, h}) /\ \A i \in DOMAIN <<g, h>> : <<g, h>>[i].do \in Passed
    BY <1>4
  <1>5. CASE MoveChat(t)
    <2> DEFINE s == <<LeaveFrame("assignment")>>
    <2>1. s \in Seq({LeaveFrame("assignment")}) /\ \A i \in DOMAIN s : s[i].do \in Passed
      BY <1>3, KindsApart
    <2>2. /\ Continue(t, s) /\ f.do = "move"
          /\ chat_assignments' = [chat_assignments EXCEPT ![f.chat] = f.operator]
      BY <1>5 DEF MoveChat
    <2>3. returned'[t] = returned[t]
      BY <2>2, AnswerKept
    <2>4. returned'[t] \/ Supports(f.operator)
      BY <1>0, <2>2, <2>3 DEF StoreFacts, StacksOK, MoveTold
    <2>5. TurnOf(t) /\ Replaces(t, s)
      BY <1>2, <2>2
    <2> HIDE DEF s
    <2> QED BY <1>0, <1>1, <2>1, <2>2, <2>4, <2>5, MovedStep
  <1>6. CASE AssignChatToOperator(t) /\ ~CanTake(f.operator)
    <2> DEFINE s == <<LeaveFrame("assignment")>>
    <2>1. s \in Seq({LeaveFrame("assignment")}) /\ \A i \in DOMAIN s : s[i].do \in Passed
      BY <1>3, KindsApart
    <2>2. Continue(t, s) /\ f.do = "assign" /\ chat_assignments' = chat_assignments
      BY <1>6 DEF AssignChatToOperator, CanTake
    <2>3. ~returned'[t]
      BY <1>6, <2>2, AnswerKept
    <2>5. TurnOf(t) /\ Replaces(t, s)
      BY <1>2, <2>2
    <2> HIDE DEF s
    <2> QED BY <1>0, <1>1, <2>1, <2>2, <2>3, <2>5, RefusedStep
  <1>7. CASE AssignChatToOperator(t) /\ CanTake(f.operator)
    <2> DEFINE g == [do |-> "remove", client |-> f.client]
               h == LeaveFrame("assignment")
               s == <<g, h>>
    <2>0. g.do \in Passed /\ h.do \in Passed
      BY KindsApart DEF Passed
    <2>1. /\ Continue(t, s) /\ f.do = "assign"
          /\ chat_assignments' = [chat_assignments EXCEPT ![f.chat] = f.operator]
      BY <1>7 DEF AssignChatToOperator, CanTake
    <2> HIDE DEF g, h
    <2>2. s \in Seq({g, h}) /\ \A i \in DOMAIN s : s[i].do \in Passed
      BY <1>4, <2>0
    <2>3. returned'[t]
      BY <1>7, <2>1, AnswerKept
    <2>5. TurnOf(t) /\ Replaces(t, s)
      BY <1>2, <2>1
    <2> HIDE DEF s
    <2> QED BY <1>0, <1>1, <2>1, <2>2, <2>3, <2>5, MovedStep
  <1> QED BY <1>5, <1>6, <1>7

\* transfer_chat up to its lock.
LEMMA QueueTransfers ==
  ASSUME StoreFacts, NEW t \in Task, QueueStep(t), TransferChat(t)
  PROVE  StacksOK' /\ Agrees'
  <1> DEFINE f == Top(t)
  <1>0. Busy(t) /\ f.do = "transfer" /\ f.do \in Moving /\ UNCHANGED queueVars
    BY DEF TransferChat, Runs, Scheduled, Moving
  <1>1. /\ SupportsStay /\ UNCHANGED <<chat_operator, participants, chat_assignments>>
        /\ \A u \in Task \ {t} : returned'[u] = returned[u]
        /\ returned'[t] = Transferable(f.chat, f.operator)
        /\ stack \in [Task -> Seq(AssignmentFrame)] /\ StackOK(stack[t]) /\ Movers(stack[t])
        /\ chat_assignments \in [Chat -> Operator \cup {NoOperator}]
        /\ StacksOK /\ Agrees /\ \A u \in Task : Movers(stack[u])
        /\ FrameSet(AssignmentFrame) /\ TypedIn(AssignmentFrame)
    BY <1>0, AnswerKept, SupportsKept, StackFacts DEF StoreFacts, StacksOK, queueVars
  <1>2. ASSUME NEW s, Continue(t, s) PROVE TurnOf(t) /\ Replaces(t, s)
    BY <1>1, <1>2 DEF TurnOf, Continue, Replaces
  <1>3. CASE ~Transferable(f.chat, f.operator)
    <2>1. Continue(t, <<>>)
      BY <1>3 DEF TransferChat
    <2>2. <<>> \in Seq({}) /\ DOMAIN <<>> = {}
      BY EmptySeq
    <2>3. TurnOf(t) /\ Replaces(t, <<>>)
      BY <1>2, <2>1
    <2> QED BY <1>0, <1>1, <1>3, <2>2, <2>3, RefusedStep
  <1>4. CASE Transferable(f.chat, f.operator)
    <2> DEFINE g == [do |-> "move", chat |-> f.chat, operator |-> f.operator,
                     from |-> chat_assignments[f.chat]]
    <2>1. /\ Continue(t, <<g>>) /\ g.do \in Moving
          /\ g.chat = f.chat /\ g.operator = f.operator
      BY <1>4 DEF TransferChat, Moving
    <2> HIDE DEF g
    <2>2. TurnOf(t) /\ Replaces(t, <<g>>)
      BY <1>2, <2>1
    <2>3. f.operator \in Operator
      <3>1. f \in Frame
        BY <1>0, <1>1, TopType DEF Methods
      <3> QED BY <1>0, <3>1, FrameArguments
    <2>4. StackOK(stack[t])' /\ \A h : ~Stores(t, h)'
      BY <1>0, <1>1, <2>1, <2>2, <2>3, MovingStack
    <2>5. MoveTold(t)'
      BY <1>1, <1>4 DEF MoveTold
    <2>6. \A u \in Task \ {t} : StackOK(stack[u])' /\ MoveTold(u)'
                                  /\ \A h : Stores(u, h)' <=> Stores(u, h)
      BY <1>1, <2>2, OthersAgree
    <2>7. \A h : ~Stores(t, h)
      BY <1>0, <1>1, StoresTop DEF Moving, Passed, Storing, Results
    <2>8. \A u \in Task, h \in AssignmentFrame : Stores(u, h)' <=> Stores(u, h)
      BY <2>4, <2>6, <2>7
    <2>9. StacksOK'
      BY <2>4, <2>5, <2>6 DEF StacksOK
    <2> QED BY <1>1, <2>8, <2>9, QuietAgrees
  <1> QED BY <1>3, <1>4

\* A task starts to wait, for whatever lock.
LEMMA WaitStores ==
  ASSUME StoreFacts, NEW t \in Task, Busy(t), stack' = stack,
         Top(t).do \notin Passed \/ returned'[t] = returned[t],
         Top(t).do \notin Storing,
         Top(t).do = "move" => returned'[t] = returned[t],
         \A u \in Task \ {t} : returned'[u] = returned[u],
         UNCHANGED <<operators, chat_operator, participants, chat_assignments>>
  PROVE  StacksOK' /\ Agrees'
  <1>0. /\ stack \in [Task -> Seq(AssignmentFrame)] /\ StackOK(stack[t])
        /\ chat_assignments \in [Chat -> Operator \cup {NoOperator}]
        /\ StacksOK /\ Agrees
    BY StackFacts DEF StoreFacts, StacksOK
  <1>1. SupportsStay
    BY DEF SupportsStay, Supports, SupportsNext
  <1>2. \A f : Stores(t, f)' <=> Stores(t, f)
    <2>1. CASE Top(t).do \in Passed
      BY <2>1 DEF Stores
    <2>2. CASE Top(t).do \notin Passed
      <3>1. \A f : ~Stores(t, f)
        BY <1>0, <2>2, StoresTop
      <3>2. \A k \in DOMAIN stack[t] : stack[t][k].do \in Storing => ~Reached(stack[t], k)
        <4>1. 1 \in DOMAIN stack[t] /\ stack[t][1] = Top(t) /\ \A k \in DOMAIN stack[t] : k = 1 \/ 1 < k
          <5>1. stack[t] \in Seq(AssignmentFrame) /\ stack[t] # <<>>
            BY <1>0 DEF Busy
          <5>2. Len(stack[t]) \in Nat \ {0} /\ DOMAIN stack[t] = 1..Len(stack[t])
            BY <5>1, LenProperties, EmptySeq
          <5> QED BY <5>1, <5>2, HeadTailProperties DEF Top
        <4> QED BY <2>2, <4>1 DEF Reached
      <3> QED BY <3>1, <3>2 DEF Stores
    <2> QED BY <2>1, <2>2
  <1>3. \A u \in Task \ {t} : \A f : Stores(u, f)' <=> Stores(u, f)
    BY DEF Stores
  <1>4. \A u \in Task, f \in AssignmentFrame : Stores(u, f)' <=> Stores(u, f)
    BY <1>2, <1>3
  <1>5. StacksOK'
    BY <1>0 DEF StacksOK, StackOK, MoveTold, Supports, Busy, Top
  <1> QED BY <1>0, <1>1, <1>4, <1>5, QuietAgrees

\* All steps of the queue manager.
LEMMA QueueStores ==
  ASSUME StoreFacts, NEW t \in Task, QueueStep(t)
  PROVE  StacksOK' /\ Agrees'
  <1>1. CASE WaitForLock(t)
    <2>1. /\ Busy(t) /\ stack' = stack /\ UNCHANGED queueVars
          /\ Top(t).do \in {"add", "remove", "reprioritise", "tick", "assign", "release", "move"}
      BY <1>1 DEF WaitForLock, Wait, Asks
    <2>2. Top(t).do \notin Storing
      BY <2>1 DEF Storing, Results
    <2>3. UNCHANGED <<operators, chat_assignments>>
      BY <2>1 DEF queueVars
    <2>4. Top(t).do \in Passed => Top(t).do \notin {"assign", "transfer"}
      BY DEF Passed
    <2> QED BY <2>1, <2>2, <2>3, <2>4, AnswerKept, WaitStores
  <1>2. CASE ~WaitForLock(t)
    <2>1. Step(t)
      BY DEF QueueStep
    <2> QED BY <1>2, <2>1, QueuePlainStores, QueuePushesMove, QueuePassedStores, QueueMoves,
               QueueTransfers DEF Step
  <1> QED BY <1>1, <1>2

\* What the database, Kafka and the administrators must leave alone.
Undisturbed ==
  ~KafkaEnabled /\ "error" \notin DbOutcome /\ Entries \cap {"adminTransfer", "adminClose"} = {}

LEMMA HostPlainStep ==
  ASSUME StoreFacts, NEW t \in Task, Busy(t), UNCHANGED queueVars, returned' = returned,
         UNCHANGED <<chat_operator, participants>>,
         Top(t).do \notin Passed \cup Moving \cup Storing,
         NEW s, PlainSeq(s), Continue(t, s)
  PROVE  StacksOK' /\ Agrees'
  <1>1. SupportsStay /\ \A ch \in Chat : chat_assignments'[ch] \in {chat_assignments[ch], NoOperator}
    BY DEF queueVars, SupportsStay, Supports, SupportsNext
  <1>2. Replaces(t, s)
    BY DEF Continue, Replaces
  <1> QED BY <1>1, <1>2, PlainStep

\* The end points, and the steps that only write what is not about operators.
LEMMA EndPointStores ==
  ASSUME Undisturbed, StoreFacts, NEW t \in Task,
         \/ ManagerOnline(t) \/ ManagerOffline(t)
         \/ Connect(t) \/ JoinQueue(t) \/ AcceptChat(t)
         \/ OperatorTransfer(t) \/ AdminTransfer(t)
         \/ OperatorClose(t) \/ AdminClose(t)
         \/ OperatorLawyer(t) \/ AdminLawyer(t)
         \/ RollBack(t) \/ ManagerRelease(t)
  PROVE  StacksOK' /\ Agrees'
  <1> DEFINE f == Top(t)
  <1>0. Busy(t) /\ f.do \notin Passed \cup Moving \cup Storing
    BY DEF ManagerOnline, ManagerOffline, Connect, JoinQueue, AcceptChat, OperatorTransfer,
       AdminTransfer, OperatorClose, AdminClose, OperatorLawyer, AdminLawyer, RollBack,
       ManagerRelease, Runs, Scheduled, Passed, Moving, Storing, Results
  <1>1. Single(f)
    <2>1. 1 \in DOMAIN stack[t] /\ stack[t][1] = f
      BY <1>0, StackFacts, StackDomain DEF StoreFacts
    <2> QED BY <2>1 DEF StoreFacts, StacksOK, StackOK
  <1>2. ASSUME NEW s, PlainSeq(s), Passes(t, s) PROVE StacksOK' /\ Agrees'
    <2>1. Continue(t, s) /\ UNCHANGED <<queueVars, returned, chat_operator, participants>>
      BY <1>2 DEF Passes, assignmentVars, storageVars
    <2> QED BY <1>0, <1>2, <2>1, HostPlainStep
  <1>3. \A e, u, th : Send(e, u, th) = <<>>
    BY DEF Undisturbed, Send
  <1>4. PlainFrame(Io)
    BY Ordinary DEF Io
  <1>5. CASE ManagerOnline(t)
    <2> DEFINE g == [do |-> "online", operator |-> f.operator, type |-> Role[f.operator]]
    <2>1. PlainFrame(g)
      BY Ordinary DEF Methods, Moving
    <2>2. \E s : s = <<>> /\ Passes(t, <<g>> \o s)
      BY <1>3, <1>5 DEF ManagerOnline
    <2> HIDE DEF g
    <2>3. PlainSeq(<<g>> \o <<>>)
      BY <2>1, ShortPlain, PlainConcat
    <2> QED BY <1>2, <2>2, <2>3
  <1>6. CASE ManagerOffline(t)
    <2> DEFINE g == [do |-> "offline", operator |-> f.operator]
    <2>1. PlainFrame(g)
      BY Ordinary DEF Methods, Moving
    <2>2. Passes(t, <<>>) \/ \E s : s = <<>> /\ Passes(t, <<g>> \o s)
      BY <1>3, <1>6 DEF ManagerOffline
    <2> HIDE DEF g
    <2>3. PlainSeq(<<>>) /\ PlainSeq(<<g>> \o <<>>)
      BY <2>1, ShortPlain, PlainConcat
    <2> QED BY <1>2, <2>2, <2>3
  <1>7. CASE Connect(t)
    <2> DEFINE g == [do |-> "goOnline", operator |-> OwnOperator[ClientOf[f.chat]],
                     session |-> TRUE]
               h == [do |-> "joinQueue", chat |-> f.chat]
    <2>1. PlainFrame(g) /\ PlainFrame(h)
      BY Ordinary
    <2>2. Passes(t, <<Io, h>>) \/ Passes(t, <<g>> \o <<Io, h>>)
      BY <1>7 DEF Connect
    <2> HIDE DEF g, h
    <2>3. PlainSeq(<<Io, h>>) /\ PlainSeq(<<g>>)
      BY <1>4, <2>1, ShortPlain
    <2>4. PlainSeq(<<g>> \o <<Io, h>>)
      BY <2>3, PlainConcat
    <2> QED BY <1>2, <2>2, <2>3, <2>4
  <1>8. CASE JoinQueue(t)
    <2> DEFINE g == [do |-> "add", client |-> ClientOf[f.chat], chat |-> f.chat]
    <2>1. PlainFrame(g)
      BY Ordinary DEF Methods, Moving
    <2>2. Passes(t, <<>>) \/ Passes(t, <<g>>)
      BY <1>8 DEF JoinQueue
    <2> HIDE DEF g
    <2> QED BY <1>2, <2>1, <2>2, ShortPlain
  <1>9. CASE AcceptChat(t)
    <2> DEFINE g == [do |-> "managerAssign", manager |-> "chat", chat |-> f.chat,
                     operator |-> f.operator]
    <2>1. PlainFrame(g)
      BY DEF PlainFrame, Single, Storing, Results, Moving
    <2>2. Passes(t, <<>>) \/ Passes(t, <<g>>)
      BY <1>9 DEF AcceptChat
    <2> HIDE DEF g
    <2> QED BY <1>2, <2>1, <2>2, ShortPlain
  <1>10. CASE OperatorTransfer(t)
    <2> DEFINE g == [do |-> "managerTransfer", manager |-> "chat", chat |-> f.chat,
                     operator |-> f.operator, forced |-> FALSE]
    <2>1. PlainFrame(g)
      BY DEF PlainFrame, Single, Storing, Results, Moving
    <2>2. Passes(t, <<>>) \/ Passes(t, <<g>>)
      BY <1>10 DEF OperatorTransfer
    <2> HIDE DEF g
    <2> QED BY <1>2, <2>1, <2>2, ShortPlain
  <1>11. CASE OperatorClose(t)
    <2> DEFINE g == [do |-> "closeChat", chat |-> f.chat, release |-> FALSE]
    <2>1. PlainFrame(g)
      BY DEF PlainFrame, Single, Storing, Results, Moving
    <2>2. Passes(t, <<Io, g>>)
      BY <1>11 DEF OperatorClose
    <2> HIDE DEF g
    <2>3. PlainSeq(<<Io, g>>)
      BY <1>4, <2>1, ShortPlain
    <2> QED BY <1>2, <2>2, <2>3
  <1>12. CASE OperatorLawyer(t)
    <2> DEFINE g == [do |-> "managerLawyer", manager |-> "chat", client |-> f.client,
                     lawyer |-> f.lawyer]
    <2>1. PlainFrame(g)
      BY Ordinary
    <2>2. Passes(t, <<g>>)
      BY <1>12 DEF OperatorLawyer
    <2> HIDE DEF g
    <2> QED BY <1>2, <2>1, <2>2, ShortPlain
  <1>13. CASE AdminLawyer(t)
    <2> DEFINE g == [do |-> "readLawyer", client |-> f.client, lawyer |-> f.lawyer]
    <2>1. PlainFrame(g)
      BY Ordinary
    <2>2. Passes(t, <<>>) \/ Passes(t, <<Io, g>>)
      BY <1>13 DEF AdminLawyer
    <2> HIDE DEF g
    <2>3. PlainSeq(<<Io, g>>) /\ PlainSeq(<<>>)
      BY <1>4, <2>1, ShortPlain
    <2> QED BY <1>2, <2>2, <2>3
  <1>14. ~AdminTransfer(t) /\ ~AdminClose(t) /\ ~RollBack(t) /\ ~ManagerRelease(t)
    BY <1>1 DEF Single, AdminTransfer, AdminClose, RollBack, ManagerRelease, Runs
  <1> QED BY <1>5, <1>6, <1>7, <1>8, <1>9, <1>10, <1>11, <1>12, <1>13, <1>14

LEMMA OtherTablesStore ==
  ASSUME Undisturbed, StoreFacts, NEW t \in Task,
         \/ CloseChat(t) \/ ReadLawyer(t) \/ ManagerLawyer(t)
         \/ CreateLawyerChat(t) \/ CreateLawyerAssignment(t)
         \/ MarkChatParticipantLeft(t)
  PROVE  StacksOK' /\ Agrees'
  <1> DEFINE f == Top(t)
  <1>0. Busy(t) /\ f.do \notin Passed \cup Moving \cup Storing
    BY DEF CloseChat, ReadLawyer, ManagerLawyer, CreateLawyerChat, CreateLawyerAssignment,
       MarkChatParticipantLeft, Runs, Scheduled, Passed, Moving, Storing, Results
  <1>1. Single(f)
    <2>1. 1 \in DOMAIN stack[t] /\ stack[t][1] = f
      BY <1>0, StackFacts, StackDomain DEF StoreFacts
    <2> QED BY <2>1 DEF StoreFacts, StacksOK, StackOK
  <1>e. "error" \notin DbOutcome /\ \A e, u, th : Send(e, u, th) = <<>>
    BY DEF Undisturbed, Send
  <1>4. PlainFrame(Io) /\ \A l : PlainFrame(LeaveFrame(l))
    BY Ordinary DEF Io, LeaveFrame, Methods, Moving
  <1>2. ASSUME NEW s, PlainSeq(s), Continue(t, s),
               UNCHANGED <<queueVars, returned, chat_operator, participants>>
        PROVE  StacksOK' /\ Agrees'
    BY <1>0, <1>2, HostPlainStep
  <1>5. CASE CloseChat(t)
    <2>1. ~f.release
      BY <1>1, <1>5 DEF Single, CloseChat, Runs
    <2>2. \E s, r : s = <<>> /\ r = <<>> /\ Continue(t, s \o r)
      BY <1>e, <1>5, <2>1 DEF CloseChat
    <2>3. PlainSeq(<<>> \o <<>>)
      BY ShortPlain, PlainConcat
    <2> QED BY <1>2, <1>5, <2>2, <2>3 DEF CloseChat
  <1>6. CASE ReadLawyer(t)
    <2> DEFINE g == [do |-> "managerLawyer", manager |-> "admin", client |-> f.client,
                     lawyer |-> f.lawyer]
    <2>1. PlainFrame(g)
      BY Ordinary
    <2>2. /\ Continue(t, <<>>) \/ Continue(t, <<g>>)
          /\ UNCHANGED <<queueVars, returned, chat_operator, participants>>
      BY <1>6 DEF ReadLawyer, storageVars
    <2> HIDE DEF g
    <2> QED BY <1>2, <2>1, <2>2, ShortPlain
  <1>7. CASE ManagerLawyer(t)
    <2> DEFINE g == [do |-> "register", operator |-> f.lawyer, type |-> "lawyer"]
               h == [do |-> "createLawyerChat", manager |-> f.manager,
                     client |-> f.client, lawyer |-> f.lawyer]
               e == LeaveFrame(f.manager)
    <2>1. PlainFrame(g) /\ PlainFrame(h) /\ PlainFrame(e)
      BY <1>4, Ordinary DEF Methods, Moving
    <2>2. /\ \/ Continue(t, <<Io, h>> \o <<e>>)
             \/ Continue(t, (<<g>> \o <<Io, h>>) \o <<e>>)
          /\ UNCHANGED <<queueVars, returned, chat_operator, participants>>
      BY <1>7 DEF ManagerLawyer, Enters, assignmentVars, storageVars
    <2> HIDE DEF g, h, e
    <2>3. PlainSeq(<<Io, h>>) /\ PlainSeq(<<g>>) /\ PlainSeq(<<e>>)
      BY <1>4, <2>1, ShortPlain
    <2>4. PlainSeq(<<Io, h>> \o <<e>>) /\ PlainSeq(<<g>> \o <<Io, h>>)
      BY <2>3, PlainConcat
    <2>5. PlainSeq((<<g>> \o <<Io, h>>) \o <<e>>)
      BY <2>3, <2>4, PlainConcat
    <2> QED BY <1>2, <2>2, <2>4, <2>5
  <1>8. CASE CreateLawyerChat(t)
    <2> DEFINE g == [do |-> "storeLawyer", manager |-> f.manager, client |-> f.client,
                     lawyer |-> f.lawyer]
    <2>1. PlainFrame(g)
      BY Ordinary
    <2>2. /\ Continue(t, <<Io, g>>) \/ Continue(t, <<>>)
          /\ UNCHANGED <<queueVars, returned, chat_operator, participants>>
      BY <1>8 DEF CreateLawyerChat
    <2> HIDE DEF g
    <2>3. PlainSeq(<<Io, g>>) /\ PlainSeq(<<>>)
      BY <1>4, <2>1, ShortPlain
    <2> QED BY <1>2, <2>2, <2>3
  <1>9. CASE CreateLawyerAssignment(t)
    <2>1. /\ Continue(t, <<>>)
          /\ UNCHANGED <<queueVars, returned, chat_operator, participants>>
      BY <1>e, <1>9 DEF CreateLawyerAssignment
    <2> QED BY <1>2, <2>1, ShortPlain
  <1>10. ~MarkChatParticipantLeft(t)
    BY <1>1 DEF Single, MarkChatParticipantLeft, Runs
  <1> QED BY <1>5, <1>6, <1>7, <1>8, <1>9, <1>10

\* The manager calls the queue, and will store what it answers.
LEMMA ManagerMoves ==
  ASSUME StoreFacts, NEW t \in Task, ManagerAssign(t) \/ ManagerTransfer(t)
  PROVE  StacksOK' /\ Agrees'
  <1> DEFINE f == Top(t)
             c == LeaveFrame("chat")
  <1>0. /\ Busy(t) /\ f.do \in {"managerAssign", "managerTransfer"}
        /\ f.do \notin Passed \cup Moving \cup Storing
        /\ UNCHANGED <<queueVars, returned, chat_operator, participants>>
    BY DEF ManagerAssign, ManagerTransfer, Enters, assignmentVars, storageVars, Runs, Scheduled,
       Passed, Moving, Storing, Results
  <1>1. f.manager = "chat"
    <2>1. 1 \in DOMAIN stack[t] /\ stack[t][1] = f
      BY <1>0, StackFacts, StackDomain DEF StoreFacts
    <2>2. Single(f)
      BY <2>1 DEF StoreFacts, StacksOK, StackOK
    <2> QED BY <1>0, <2>2 DEF Single
  <1>2. c.do \in Passed /\ c.do \notin Moving \cup Storing /\ Single(c) /\ PlainFrame(c)
    BY Ordinary DEF LeaveFrame, Passed, Moving, Storing, Results, Single, Methods
  <1>3. ASSUME NEW a, NEW b, a.do \in Moving, a.do # "move", SameMove(a, b),
               Continue(t, <<a, b>> \o <<c>>)
        PROVE  StacksOK' /\ Agrees'
    <2> DEFINE s == <<a, b>> \o <<c>>
    <2> HIDE DEF c
    <2>1. /\ <<a, b>> \in Seq({a, b, c}) /\ <<c>> \in Seq({a, b, c})
          /\ Len(<<a, b>>) = 2 /\ Len(<<c>>) = 1
      OBVIOUS
    <2>2. /\ s \in Seq({a, b, c}) /\ DOMAIN s = {1, 2, 3}
          /\ s[1] = a /\ s[2] = b /\ s[3] = c
      <3>1. /\ s \in Seq({a, b, c}) /\ Len(s) = 3
            /\ \A i \in 1..3 : s[i] = IF i <= 2 THEN <<a, b>>[i] ELSE <<c>>[i - 2]
        BY <2>1, ConcatProperties
      <3>2. DOMAIN s = 1..3
        BY <3>1, LenProperties
      <3> HIDE DEF s
      <3> QED BY <3>1, <3>2
    <2>3. Replaces(t, s)
      BY <1>3 DEF Continue, Replaces
    <2> HIDE DEF s
    <2>4. /\ Single(a) /\ Single(b) /\ a.do \notin Storing \cup Passed
          /\ b.do \in Storing \ Moving /\ b.do # "move" /\ c.do # "move"
      BY <1>2, <1>3 DEF SameMove, Single, Moving, Results, Storing, Passed
    <2>5. InBlock(s, 2)
      BY <2>2 DEF InBlock, c
    <2>6. Fresh(s, f.do \in Storing)
      BY <1>2, <1>3, <2>2, <2>4, <2>5 DEF Fresh
    <2>7. \A j \in DOMAIN s : s[j].do # "move" /\ (s[j].do \in Storing => ~Reached(s, j))
      BY <1>2, <1>3, <2>2, <2>4 DEF Reached
    <2>8. SupportsStay /\ \A ch \in Chat : chat_assignments'[ch] \in {chat_assignments[ch], NoOperator}
      BY <1>0 DEF queueVars, SupportsStay, Supports, SupportsNext
    <2>9. stack \in [Task -> Seq(AssignmentFrame)] /\ StackOK(stack[t])
      BY StackFacts DEF StoreFacts, StacksOK
    <2>10. TurnOf(t)
      BY <1>0, <2>3, <2>8, <2>9 DEF TurnOf, Replaces
    <2>11. \A h : ~Stores(t, h)
      BY <1>0, <2>9, StoresTop
    <2> QED BY <1>0, <2>2, <2>3, <2>6, <2>7, <2>8, <2>10, <2>11, BareStep
  <1>4. CASE Continue(t, <<>> \o <<c>>)
    <2> HIDE DEF c
    <2>1. PlainSeq(<<>> \o <<c>>)
      BY <1>2, ShortPlain, PlainConcat
    <2> QED BY <1>0, <1>4, <2>1, HostPlainStep
  <1>5. CASE ManagerAssign(t)
    <2> DEFINE a == [do |-> "assign", chat |-> f.chat, operator |-> f.operator,
                     client |-> ClientOf[f.chat]]
               b == [do |-> "storeAssignment", chat |-> f.chat, operator |-> f.operator]
    <2>1. a.do \in Moving /\ a.do # "move" /\ SameMove(a, b)
      BY DEF Moving, Results, SameMove
    <2>2. Continue(t, <<>> \o <<c>>) \/ Continue(t, <<a, b>> \o <<c>>)
      BY <1>1, <1>5 DEF ManagerAssign, Enters
    <2> HIDE DEF a, b, c
    <2> QED BY <1>3, <1>4, <2>1, <2>2
  <1>6. CASE ManagerTransfer(t)
    <2> DEFINE a == [do |-> "transfer", chat |-> f.chat, operator |-> f.operator]
               b == [do |-> "storeTransfer", chat |-> f.chat, operator |-> f.operator,
                     forced |-> f.forced]
    <2>1. a.do \in Moving /\ a.do # "move" /\ SameMove(a, b)
      BY DEF Moving, Results, SameMove
    <2>2. Continue(t, <<>> \o <<c>>) \/ Continue(t, <<a, b>> \o <<c>>)
      BY <1>1, <1>6 DEF ManagerTransfer, Enters
    <2> HIDE DEF a, b, c
    <2> QED BY <1>3, <1>4, <2>1, <2>2
  <1> QED BY <1>5, <1>6

\* A task that is about to store, and what the others store.
LEMMA StoringFacts ==
  ASSUME StoreFacts, NEW t \in Task, Busy(t), Top(t).do \in Storing, returned' = returned,
         operators' = operators, NEW s, Continue(t, s)
  PROVE  /\ stack \in [Task -> Seq(AssignmentFrame)] /\ StackOK(stack[t]) /\ Movers(stack[t])
         /\ chat_assignments \in [Chat -> Operator \cup {NoOperator}]
         /\ SupportsStay /\ TurnOf(t) /\ Replaces(t, s)
         /\ Top(t) \in AssignmentFrame /\ Top(t).do \notin Passed \cup Moving
         /\ \A f : Stores(t, f) <=> f = Top(t) /\ (f.do \in Results => returned[t])
         /\ \A u \in Task \ {t} : StackOK(stack[u])' /\ MoveTold(u)'
                                    /\ \A f : Stores(u, f)' <=> Stores(u, f)
  <1>1. /\ stack \in [Task -> Seq(AssignmentFrame)] /\ StackOK(stack[t])
        /\ StacksOK /\ \A u \in Task : Movers(stack[u])
        /\ chat_assignments \in [Chat -> Operator \cup {NoOperator}]
    BY StackFacts DEF StoreFacts, StacksOK
  <1>2. SupportsStay /\ Replaces(t, s)
    BY DEF SupportsStay, Supports, SupportsNext, Continue, Replaces
  <1>3. TurnOf(t)
    BY <1>1, <1>2 DEF TurnOf, Replaces
  <1>4. Top(t) \in AssignmentFrame
    BY StackFacts, TopType DEF StoreFacts
  <1>5. Top(t).do \notin Passed \cup Moving
    BY KindsApart
  <1>6. \A f : Stores(t, f) <=> f = Top(t) /\ (f.do \in Results => returned[t])
    BY <1>1, StoresTop
  <1>7. \A u \in Task \ {t} : StackOK(stack[u])' /\ MoveTold(u)'
                                /\ \A f : Stores(u, f)' <=> Stores(u, f)
    BY <1>1, <1>3, OthersAgree
  <1> QED BY <1>1, <1>2, <1>3, <1>4, <1>5, <1>6, <1>7

\* It goes on to the next write.
LEMMA GoesOnStep ==
  ASSUME StoreFacts, NEW t \in Task, Busy(t), Top(t).do \in Storing,
         Top(t).do \in Results => returned[t],
         UNCHANGED <<queueVars, returned, participants>>,
         NEW h \in AssignmentFrame, h.do \in Storing \ Results,
         h.chat = Top(t).chat, h.operator = Top(t).operator, Continue(t, <<Io, h>>),
         \A ch \in Chat : \/ chat_operator'[ch] = chat_operator[ch] /\ h.do # "addParticipant"
                          \/ chat_operator'[ch] = chat_operator[ch] /\ h.chat # ch
                          \/ chat_operator'[ch] = h.operator /\ h.chat = ch
  PROVE  StacksOK' /\ Agrees'
  <1> DEFINE s == <<Io, h>>
  <1>1. s \in Seq({Io, h}) /\ DOMAIN s = {1, 2} /\ s[1] = Io /\ s[2] = h /\ Continue(t, s)
    OBVIOUS
  <1> HIDE DEF s
  <1>2. Io.do \in Passed /\ Io.do \notin Storing \cup Moving /\ Single(Io) /\ Single(h)
        /\ h.do \notin Moving \cup Passed /\ Io.do # "move" /\ h.do # "move"
    BY DEF Io, Passed, Storing, Moving, Results, Single
  <1>3. operators' = operators /\ chat_assignments' = chat_assignments
    BY DEF queueVars
  <1>4. /\ stack \in [Task -> Seq(AssignmentFrame)] /\ StackOK(stack[t]) /\ Movers(stack[t])
        /\ chat_assignments \in [Chat -> Operator \cup {NoOperator}]
        /\ SupportsStay /\ TurnOf(t) /\ Replaces(t, s)
        /\ Top(t) \in AssignmentFrame /\ Top(t).do \notin Passed \cup Moving
        /\ \A f : Stores(t, f) <=> f = Top(t) /\ (f.do \in Results => returned[t])
        /\ \A u \in Task \ {t} : StackOK(stack[u])' /\ MoveTold(u)'
                                   /\ \A f : Stores(u, f)' <=> Stores(u, f)
    BY <1>1, <1>3, StoringFacts
  <1>5. Reached(s, 2) /\ Fresh(s, Top(t).do \in Storing)
    BY <1>1, <1>2 DEF Reached, Fresh
  <1>6. /\ StackOK(stack[t])'
        /\ \A f : Stores(t, f)' <=>
             \E j \in DOMAIN s : /\ s[j] = f /\ f.do \in Storing
                                 /\ f.do \in Results => returned'[t]
                                 /\ Reached(s, j)
    BY <1>1, <1>4, <1>5, BareStack
  <1>7. \A f : Stores(t, f)' <=> f = h
    BY <1>1, <1>2, <1>5, <1>6
  <1>8. MoveTold(t)'
    <2>1. \A i \in DOMAIN s : s[i].do # "move"
      BY <1>1, <1>2
    <2> QED BY <1>1, <1>4, <2>1, NoMoveOnTop
  <1>9. StacksOK'
    BY <1>4, <1>6, <1>8 DEF StacksOK
  <1>10. \A f : Stores(t, f) <=> f = Top(t)
    BY <1>4
  <1>11. PICK g \in AssignmentFrame : g = Top(t)
    BY <1>4
  <1>12. Agrees'
    BY <1>3, <1>4, <1>7, <1>10, <1>11, GoesOnAgrees DEF StoreFacts
  <1> QED BY <1>9, <1>12

\* It has written all.
LEMMA DoneStep ==
  ASSUME StoreFacts, NEW t \in Task, Busy(t), Top(t).do \in Storing \ Results,
         UNCHANGED <<queueVars, returned>>, NEW s, PlainSeq(s), Continue(t, s),
         Top(t).operator \in participants'[Top(t).chat],
         \/ chat_operator'[Top(t).chat] = Top(t).operator
         \/ chat_operator' = chat_operator /\ Top(t).do = "addParticipant",
         \A ch \in Chat : ch # Top(t).chat =>
           participants'[ch] = participants[ch] /\ chat_operator'[ch] = chat_operator[ch]
  PROVE  StacksOK' /\ Agrees'
  <1>1. PICK S : s \in Seq(S)
    BY DEF PlainSeq
  <1>3. operators' = operators /\ chat_assignments' = chat_assignments
    BY DEF queueVars
  <1>4. /\ stack \in [Task -> Seq(AssignmentFrame)] /\ StackOK(stack[t]) /\ Movers(stack[t])
        /\ chat_assignments \in [Chat -> Operator \cup {NoOperator}]
        /\ SupportsStay /\ TurnOf(t) /\ Replaces(t, s)
        /\ Top(t) \in AssignmentFrame /\ Top(t).do \notin Passed \cup Moving
        /\ \A f : Stores(t, f) <=> f = Top(t) /\ (f.do \in Results => returned[t])
        /\ \A u \in Task \ {t} : StackOK(stack[u])' /\ MoveTold(u)'
                                   /\ \A f : Stores(u, f)' <=> Stores(u, f)
    BY <1>3, StoringFacts
  <1>5. \A j \in DOMAIN s : Single(s[j]) /\ s[j].do \notin Storing \cup Moving /\ s[j].do # "move"
    BY DEF PlainSeq, PlainFrame, Moving
  <1>6. Fresh(s, Top(t).do \in Storing)
    BY <1>5 DEF Fresh
  <1>7. /\ StackOK(stack[t])'
        /\ \A f : Stores(t, f)' <=>
             \E j \in DOMAIN s : /\ s[j] = f /\ f.do \in Storing
                                 /\ f.do \in Results => returned'[t]
                                 /\ Reached(s, j)
    BY <1>1, <1>4, <1>6, BareStack
  <1>8. \A f : ~Stores(t, f)'
    BY <1>5, <1>7
  <1>9. MoveTold(t)'
    BY <1>1, <1>4, <1>5, NoMoveOnTop
  <1>10. StacksOK'
    BY <1>4, <1>7, <1>9 DEF StacksOK
  <1>11. PICK g \in AssignmentFrame : g = Top(t)
    BY <1>4
  <1>12. Stores(t, g) /\ \A f : Stores(t, f) => f = g
    BY <1>4, <1>11
  <1>13. Agrees'
    BY <1>3, <1>4, <1>8, <1>11, <1>12, DoneAgrees DEF StoreFacts
  <1> QED BY <1>10, <1>13

\* The steps that write what an assignment or a transfer has changed.
LEMMA WritesStore ==
  ASSUME Undisturbed, StoreFacts, NEW t \in Task,
         \/ StoreAssignment(t) \/ StoreTransfer(t) \/ UpdateChatOperator(t)
         \/ AddChatParticipant(t) \/ TransferStoredChat(t)
  PROVE  StacksOK' /\ Agrees'
  <1> DEFINE f == Top(t)
  <1>0. /\ Busy(t) /\ UNCHANGED <<queueVars, returned>>
        /\ f.do \in {"storeAssignment", "storeTransfer", "updateChat", "addParticipant",
                     "transferStored"}
        /\ f.do \in Storing /\ f.do \in ManagerMethods
    BY DEF StoreAssignment, StoreTransfer, UpdateChatOperator, AddChatParticipant,
       TransferStoredChat, Runs, Scheduled, Passes, assignmentVars, Storing, Results, ManagerMethods
  <1>1. f \in AssignmentFrame /\ f.chat \in Chat /\ f.operator \in Operator
        /\ (f.do \in {"storeTransfer", "transferStored"} => f.forced \in BOOLEAN)
    <2>1. f \in AssignmentFrame
      BY <1>0, AssignmentHosts, HostTop DEF StoreFacts
    <2> QED BY <1>0, <2>1, HostArguments
  <1>2. /\ chat_operator \in [Chat -> Operator \cup {NoOperator}]
        /\ participants \in [Chat -> SUBSET Operator]
        /\ "error" \notin DbOutcome /\ \A e, u, th : Send(e, u, th) = <<>>
    BY DEF StoreFacts, StorageTypeOK, Undisturbed, Send
  <1>3. CASE (StoreAssignment(t) \/ StoreTransfer(t)) /\ ~returned[t]
    <2>1. /\ Continue(t, <<>>) /\ UNCHANGED <<chat_operator, participants>> /\ f.do \in Results
      BY <1>3 DEF StoreAssignment, StoreTransfer, Passes, assignmentVars, storageVars, Runs, Results
    <2>2. operators' = operators /\ chat_assignments' = chat_assignments
      BY <1>0 DEF queueVars
    <2>3. /\ TurnOf(t) /\ Replaces(t, <<>>) /\ f.do \notin Passed \cup Moving
          /\ \A g : Stores(t, g) <=> g = f /\ (g.do \in Results => returned[t])
      BY <1>0, <2>1, <2>2, StoringFacts
    <2>4. \A g : ~Stores(t, g)
      BY <1>3, <2>1, <2>3
    <2>5. <<>> \in Seq({}) /\ DOMAIN <<>> = {}
      BY EmptySeq
    <2>6. Fresh(<<>>, f.do \in Storing)
      BY <2>5 DEF Fresh
    <2> QED BY <1>0, <2>1, <2>2, <2>3, <2>4, <2>5, <2>6, BareStep
  <1>4. CASE StoreAssignment(t) /\ returned[t]
    <2> DEFINE h == [do |-> "updateChat", chat |-> f.chat, operator |-> f.operator]
    <2>1. h \in AssignmentFrame /\ h.do \in Storing \ Results /\ h.do # "addParticipant"
          /\ h.chat = f.chat /\ h.operator = f.operator
      BY <1>1 DEF AssignmentFrame, Storing, Results
    <2>2. Continue(t, <<Io, h>>) /\ UNCHANGED <<chat_operator, participants>>
      BY <1>4 DEF StoreAssignment, Passes, assignmentVars, storageVars
    <2> HIDE DEF h
    <2> QED BY <1>0, <1>4, <2>1, <2>2, GoesOnStep
  <1>5. CASE StoreTransfer(t) /\ returned[t]
    <2> DEFINE h == [f EXCEPT !.do = "transferStored"]
    <2>0. f \in [do : {"storeTransfer"}, chat : Chat, operator : Operator, forced : BOOLEAN]
      BY <1>1, <1>5, HostArguments DEF StoreTransfer, Runs
    <2>1. h \in AssignmentFrame /\ h.do \in Storing \ Results /\ h.do # "addParticipant"
          /\ h.chat = f.chat /\ h.operator = f.operator
      BY <2>0 DEF AssignmentFrame, Storing, Results
    <2>2. Continue(t, <<Io, h>>) /\ UNCHANGED <<chat_operator, participants>>
      BY <1>5 DEF StoreTransfer, Passes, assignmentVars, storageVars
    <2> HIDE DEF h
    <2> QED BY <1>0, <1>5, <2>1, <2>2, GoesOnStep
  <1>6. CASE UpdateChatOperator(t)
    <2> DEFINE h == [do |-> "addParticipant", chat |-> f.chat, operator |-> f.operator]
    <2>1. h \in AssignmentFrame /\ h.do \in Storing \ Results
          /\ h.chat = f.chat /\ h.operator = f.operator /\ f.do \notin Results
      BY <1>1, <1>6 DEF AssignmentFrame, Storing, Results, UpdateChatOperator, Runs
    <2>2. /\ Continue(t, <<Io, h>>) /\ participants' = participants
          /\ chat_operator' = [chat_operator EXCEPT ![f.chat] = f.operator]
      BY <1>2, <1>6 DEF UpdateChatOperator
    <2>3. \A ch \in Chat : \/ chat_operator'[ch] = chat_operator[ch] /\ f.chat # ch
                           \/ chat_operator'[ch] = f.operator /\ f.chat = ch
      BY <1>1, <1>2, <2>2
    <2> HIDE DEF h
    <2>4. \A ch \in Chat : \/ chat_operator'[ch] = chat_operator[ch] /\ h.chat # ch
                           \/ chat_operator'[ch] = h.operator /\ h.chat = ch
      BY <2>1, <2>3
    <2> QED BY <1>0, <2>1, <2>2, <2>4, GoesOnStep
  <1>7. CASE AddChatParticipant(t)
    <2>1. /\ Continue(t, <<>>) /\ chat_operator' = chat_operator /\ f.do = "addParticipant"
          /\ participants' = [participants EXCEPT ![f.chat] = @ \cup {f.operator}]
      BY <1>2, <1>7 DEF AddChatParticipant, Runs
    <2>2. /\ f.operator \in participants'[f.chat] /\ f.do \in Storing \ Results
          /\ \A ch \in Chat : ch # f.chat => participants'[ch] = participants[ch]
      BY <1>1, <1>2, <2>1 DEF Storing, Results
    <2> QED BY <1>0, <2>1, <2>2, ShortPlain, DoneStep
  <1>8. CASE TransferStoredChat(t)
    <2>1. /\ \E s : s = <<>> /\ Continue(t, <<Io>> \o s)
          /\ f.do = "transferStored"
          /\ chat_operator' = [chat_operator EXCEPT ![f.chat] = f.operator]
          /\ participants' = [participants EXCEPT ![f.chat] = {f.operator}]
      BY <1>2, <1>8 DEF TransferStoredChat, Runs
    <2>2. /\ f.operator \in participants'[f.chat] /\ f.do \in Storing \ Results
          /\ chat_operator'[f.chat] = f.operator
          /\ \A ch \in Chat : ch # f.chat =>
               participants'[ch] = participants[ch] /\ chat_operator'[ch] = chat_operator[ch]
      BY <1>1, <1>2, <2>1 DEF Storing, Results
    <2>3. PlainSeq(<<Io>> \o <<>>)
      <3>1. PlainFrame(Io)
        BY Ordinary DEF Io
      <3> QED BY <3>1, ShortPlain, PlainConcat
    <2> QED BY <1>0, <2>1, <2>2, <2>3, DoneStep
  <1> QED BY <1>3, <1>4, <1>5, <1>6, <1>7, <1>8

\* The database answers, or is waited for.
LEMMA AnswerStores ==
  ASSUME StoreFacts, NEW t \in Task, AwaitDatabase(t)
  PROVE  StacksOK' /\ Agrees'
  <1>1. /\ Busy(t) /\ Top(t).do \in Passed
        /\ UNCHANGED <<operators, chat_assignments, returned, chat_operator, participants>>
    BY DEF AwaitDatabase, Runs, Scheduled, Passed, queueVars, assignmentVars, storageVars
  <1>2. stack \in [Task -> Seq(AssignmentFrame)]
    BY StackFacts DEF StoreFacts
  <1>3. <<>> \in Seq({}) /\ DOMAIN <<>> = {}
    BY EmptySeq
  <1>4. Replaces(t, <<>>)
    <2>1. <<>> \o Tail(stack[t]) = Tail(stack[t])
      <3>1. stack[t] \in Seq(AssignmentFrame) /\ stack[t] # <<>>
        BY <1>1, <1>2 DEF Busy
      <3>2. Tail(stack[t]) \in Seq(AssignmentFrame)
        BY <3>1, HeadTailProperties
      <3> QED BY <3>2, ConcatEmptySeq
    <2> QED BY <2>1 DEF AwaitDatabase, Continue, Replaces
  <1>5. TurnOf(t)
    BY <1>1, <1>2, <1>4 DEF TurnOf, Replaces, SupportsStay, Supports, SupportsNext
  <1> QED BY <1>1, <1>3, <1>4, <1>5, PassedStep

LEMMA ManagerStores ==
  ASSUME Undisturbed, StoreFacts, NEW t \in Task, ManagerStep(t)
  PROVE  StacksOK' /\ Agrees'
  <1>1. CASE WaitForManager(t)
    <2>1. /\ Busy(t) /\ stack' = stack
          /\ UNCHANGED <<operators, chat_assignments, returned, chat_operator, participants>>
          /\ Top(t).do \in {"managerAssign", "managerTransfer", "managerLawyer"}
      BY <1>1 DEF WaitForManager, Wait, AsksManager, queueVars, assignmentVars, storageVars
    <2>2. Top(t).do \notin Passed \cup Storing
      BY <2>1 DEF Passed, Storing, Results
    <2> QED BY <2>1, <2>2, WaitStores
  <1>2. CASE ~WaitForManager(t)
    BY <1>2, EndPointStores, OtherTablesStore, ManagerMoves, WritesStore, AnswerStores
       DEF ManagerStep
  <1> QED BY <1>1, <1>2

\* A call comes in.
LEMMA EnterStores ==
  ASSUME Undisturbed, StoreFacts, NEW t \in Task, Enter(t)
  PROVE  StacksOK' /\ Agrees'
  <1>1. PICK f \in EntryCalls : f.do \in Entries /\ Start(t, f)
    BY DEF Enter
  <1>2. UNCHANGED <<operators, chat_assignments, returned, chat_operator, participants>>
    BY DEF Enter, queueVars, assignmentVars, storageVars
  <1>3. /\ stack \in [Task -> Seq(AssignmentFrame)] /\ StacksOK /\ Agrees
        /\ chat_assignments \in [Chat -> Operator \cup {NoOperator}]
        /\ \A u \in Task : Movers(stack[u])
    BY StackFacts DEF StoreFacts
  <1>4. /\ ~Busy(t) /\ stack'[t] = <<f>> /\ \A u \in Task \ {t} : stack'[u] = stack[u]
    BY <1>1, <1>3 DEF Start
  <1>5. PlainFrame(f) /\ f.do # "move"
    <2>1. f.do \notin {"adminTransfer", "adminClose"}
      BY <1>1 DEF Undisturbed
    <2>2. f.do \in {"connect", "operatorClose", "accept", "operatorTransfer", "operatorLawyer",
                    "adminLawyer", "goOnline", "goOffline", "busy", "reprioritise", "remove", "tick"}
      BY <2>1 DEF EntryCalls, PriorityCalls, RemovalCalls
    <2> QED BY <2>2, Ordinary DEF Methods, Moving
  <1>6. StackOK(stack[t])' /\ MoveTold(t)' /\ \A g : ~Stores(t, g)'
    <2>1. DOMAIN stack'[t] = {1} /\ stack'[t][1] = f /\ Head(stack'[t]) = f
      BY <1>4
    <2> QED BY <1>5, <2>1 DEF StackOK, MoveTold, Busy, Top, Stores, PlainFrame
  <1>7. \A g : ~Stores(t, g)
    <2>1. DOMAIN stack[t] = {}
      BY <1>4, EmptySeq DEF Busy
    <2> QED BY <2>1 DEF Stores
  <1>8. TurnOf(t)
    BY <1>2, <1>4 DEF TurnOf, SupportsStay, Supports, SupportsNext
  <1>9. \A u \in Task \ {t} : StackOK(stack[u])' /\ MoveTold(u)'
                                /\ \A g : Stores(u, g)' <=> Stores(u, g)
    BY <1>3, <1>8, OthersAgree
  <1>10. StacksOK'
    BY <1>6, <1>9 DEF StacksOK
  <1>11. \A u \in Task, g \in AssignmentFrame : Stores(u, g)' <=> Stores(u, g)
    BY <1>6, <1>7, <1>9
  <1> QED BY <1>2, <1>3, <1>8, <1>10, <1>11, QuietAgrees DEF TurnOf

StoreInv == DeadlockInv /\ StacksOK /\ Agrees

LEMMA StoreStep ==
  ASSUME Undisturbed, StoreInv, [AssignmentNext]_allVars
  PROVE  StoreInv'
  <1>1. DeadlockInv'
    BY DeadlockStep DEF StoreInv
  <1>2. StoreFacts
    BY DEF StoreInv, DeadlockInv, UseInv, StorageInv, QueueLockInv, StoreFacts
  <1>3. CASE UNCHANGED allVars
    BY <1>1, <1>3 DEF StoreInv, StacksOK, StackOK, MoveTold, Agrees, Stores, Supports, Busy, Top,
       allVars, vars, asyncVars, queueVars, assignmentVars, storageVars
  <1>4. CASE AssignmentNext
    BY <1>1, <1>2, <1>4, EnterStores, QueueStores, ManagerStores DEF AssignmentNext, StoreInv
  <1> QED BY <1>3, <1>4

LEMMA StoreStart ==
  ASSUME AssignmentInit
  PROVE  StoreInv
  <1>1. /\ UseInv /\ (\A t \in Task : stack[t] = <<>>) /\ (\A l \in Lock : holder[l] = NoTask)
        /\ \A ch \in Chat : chat_assignments[ch] = NoOperator
    BY UseStart DEF AssignmentInit, Init, AsyncInit, QueueInit
  <1>2. DeadlockInv
    BY <1>1, LocksApart DEF DeadlockInv, InnerFrames, QueueLockInv, LockDiscipline,
       QueueWaitersStuck, QueueSelfDeadlock, QueueWaits, Busy
  <1>3. StacksOK /\ Agrees
    BY <1>1 DEF StacksOK, StackOK, MoveTold, Busy, Agrees
  <1> QED BY <1>2, <1>3 DEF StoreInv

\* Once nobody is about to store, all is stored.
LEMMA AllStored == StoreInv => StoredAgrees
  <1> SUFFICES ASSUME StoreInv, \A t \in Task : ~Busy(t) PROVE StoredAgrees
    BY DEF StoredAgrees
  <1>1. \A t \in Task : \A f : ~Stores(t, f)
    BY EmptySeq DEF Stores, Busy
  <1> QED BY <1>1 DEF StoredAgrees, StoreInv, Agrees, Supports

\* While no call is in progress, the tables say of every chat of an operator
\* the automatic assignment does not serve that it is his and that he takes
\* part in it, if the database does not fail (a failed write is undone in the
\* queue outside the block) and the administrators neither move nor close chats
\* (their manager has a lock of its own, and releases chats without it).
THEOREM ChatsAreStored ==
  ASSUME Undisturbed
  PROVE  AssignmentSpec => []StoredAgrees
  <1>1. AssignmentInit => StoreInv
    BY StoreStart
  <1>2. StoreInv /\ [AssignmentNext]_allVars => StoreInv'
    BY StoreStep
  <1>3. StoreInv => StoredAgrees
    BY AllStored
  <1> QED BY <1>1, <1>2, <1>3, PTL DEF AssignmentSpec
================================================================================
