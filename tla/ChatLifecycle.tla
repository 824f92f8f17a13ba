------------------------------ MODULE ChatLifecycle ------------------------------
(***************************************************************************)
(* SupportChatSystem (utils/chat_system_init.py): the start and the end of *)
(* the chat system, with what the parts do when they are started and       *)
(* stopped: the Kafka producer and consumers, the queue manager.           *)
(*                                                                         *)
(* The life of the application runs initialize and shutdown in one task.   *)
(* Other tasks send events, which starts the producer if need be; each     *)
(* consumer is read by a task of its own.  Every connection to Kafka may   *)
(* fail to open or to close.  The mocks that stand in for Kafka if it is   *)
(* switched off never do, and open nothing.                                *)
(***************************************************************************)
EXTENDS Naturals, Sequences, FiniteSets

CONSTANTS Sender,      \* the tasks that send events
          Topics,      \* the topics to consume, in the order of the list
          MaxStarts,   \* bound of the calls of initialize
          MaxClients,  \* bound of the producers senders make
          None

Topic == {Topics[i] : i \in DOMAIN Topics}
Main == "main"

ASSUME LifecycleAssumption ==
  /\ Topics \in Seq(Topic) /\ Topics # <<>>
  /\ MaxStarts \in Nat /\ MaxClients \in Nat
  /\ Main \notin Sender /\ None \notin Nat

VARIABLES pc,          \* pc[t]: where task t is
          started,     \* SupportChatSystem.started
          registered,  \* the handlers are in the consumer's table
          producer,    \* SupportChatKafkaProducer.producer, by its number
          p_started,   \* ... _started
          p_open,      \* the producers that are connected
          consumers,   \* SupportChatKafkaConsumer.consumers: topic -> consumer
          c_started,   \* ... _started
          c_open,      \* the consumers that are connected
          tasks,       \* ... running_tasks, with the state of each
          q_running,   \* SupportQueueManager._running
          updating,    \* the number of its update tasks that run
          starts,      \* calls of initialize so far
          made,        \* producers made so far
          trouble      \* history: what has gone wrong

lifecycleVars == <<pc, started, registered, producer, p_started, p_open, consumers, c_started,
                   c_open, tasks, q_running, updating, starts, made, trouble>>
queueVars == <<q_running, updating>>
producerVars == <<producer, p_started, p_open, made>>
consumerVars == <<consumers, c_started, c_open, tasks>>
systemVars == <<started, registered, starts>>

At(do) == [do |-> do]
Idle == At("idle")

LifecycleInit ==
  /\ pc = [t \in {Main} \cup Sender |-> Idle]
  /\ started = FALSE /\ registered = FALSE
  /\ producer = None /\ p_started = FALSE /\ p_open = {}
  /\ consumers = [topic \in Topic |-> None] /\ c_started = FALSE /\ c_open = {}
  /\ tasks = <<>>
  /\ q_running = FALSE /\ updating = 0
  /\ starts = 0 /\ made = 0 /\ trouble = {}

Goes(t, where) == pc' = [pc EXCEPT ![t] = where]
Is(t, do) == pc[t].do = do

\* An exception in initialize: the shutdown it calls returns at once, as the
\* system is not started, and the exception goes on.
InitFails ==
  /\ Goes(Main, Idle)
  /\ trouble' = trouble \cup {"start"}

\* An exception in shutdown is logged: the rest is not stopped.
ShutdownFails ==
  /\ Goes(Main, Idle)
  /\ trouble' = trouble \cup {"stop"}

-----------------------------------------------------------------------------
(* The producer.                                                           *)

\* Where t goes when the producer is started.
Started(t) == IF t = Main THEN At("initQueue") ELSE At("sending")

WantsProducer(t) == Is(t, "initProducer") \/ (t \in Sender /\ Is(t, "idle"))

ProducerStart(t) ==
  /\ WantsProducer(t)
  /\ \/ /\ p_started
        /\ Goes(t, Started(t))
        /\ UNCHANGED <<producer, made, trouble>>
     \/ /\ ~p_started /\ (t = Main \/ made < MaxClients)
        /\ made' = made + 1
        /\ producer' = made + 1
        /\ Goes(t, [do |-> "opening", client |-> made + 1])
        /\ trouble' = trouble \cup (IF \E other \in DOMAIN pc : Is(other, "opening")
                                    THEN {"race"} ELSE {})
  /\ UNCHANGED <<systemVars, queueVars, consumerVars, p_started, p_open>>

\* A sender that starts the producer does so with the system not yet started, or
\* stopped.
ProducerOpens(t) ==
  /\ Is(t, "opening")
  /\ p_open' = p_open \cup {pc[t].client}
  /\ p_started' = TRUE
  /\ Goes(t, Started(t))
  /\ trouble' = trouble \cup (IF t \in Sender THEN {"sender"} ELSE {})
  /\ UNCHANGED <<systemVars, queueVars, consumerVars, producer, made>>

ProducerFails(t) ==
  /\ Is(t, "opening")
  /\ IF t = Main THEN InitFails ELSE Goes(t, Idle) /\ UNCHANGED trouble
  /\ UNCHANGED <<systemVars, queueVars, consumerVars, producerVars>>

\* The event is sent, or the sender is told that it was not.
Sent(t) ==
  /\ Is(t, "sending")
  /\ Goes(t, Idle)
  /\ UNCHANGED <<systemVars, queueVars, consumerVars, producerVars, trouble>>

-----------------------------------------------------------------------------
(* The tasks that read the consumers.                                      *)

Live(c) == c \in DOMAIN tasks /\ tasks[c] # "ended"

\* The task takes a message, is through with it, or finds that it is cancelled;
\* an error of the consumer ends it too, and nobody starts it again.
ConsumeMessages(c) ==
  /\ Live(c)
  /\ \/ tasks[c] = "polling"   /\ tasks' = [tasks EXCEPT ![c] = "handling"]
     \/ tasks[c] = "handling"  /\ tasks' = [tasks EXCEPT ![c] = "polling"]
     \/ tasks[c] \in {"polling", "cancelled"} /\ tasks' = [tasks EXCEPT ![c] = "ended"]
  /\ UNCHANGED <<pc, systemVars, queueVars, producerVars, consumers, c_started, c_open, trouble>>

-----------------------------------------------------------------------------
(* initialize.                                                             *)

Initialize ==
  /\ Is(Main, "idle")
  /\ ~started
  /\ starts < MaxStarts
  /\ starts' = starts + 1
  /\ Goes(Main, At("initProducer"))
  /\ UNCHANGED <<started, registered, queueVars, producerVars, consumerVars, trouble>>

FaultyInitQueue ==
  /\ Is(Main, "initQueue")
  /\ q_running' = TRUE
  /\ updating' = updating + 1
  /\ registered' = TRUE
  /\ Goes(Main, [do |-> "initConsumer", next |-> 1])
  /\ UNCHANGED <<started, starts, producerVars, consumerVars, trouble>>

\* ... then the managers and handlers are made and registered at once.
InitQueue ==
  /\ Is(Main, "initQueue")
  /\ q_running' = TRUE
  /\ updating' = IF q_running THEN updating ELSE updating + 1
  /\ registered' = TRUE
  /\ Goes(Main, [do |-> "initConsumer", next |-> 1])
  /\ UNCHANGED <<started, starts, producerVars, consumerVars, trouble>>

\* A consumer is known by its topic and the call of initialize that made it.
InitConsumer ==
  LET i == pc[Main].next
      c == <<Topics[i], starts>>
  IN
  /\ Is(Main, "initConsumer") /\ i <= Len(Topics)
  /\ \/ /\ consumers' = [consumers EXCEPT ![Topics[i]] = c]
        /\ c_open' = c_open \cup {c}
        /\ tasks' = [d \in DOMAIN tasks \cup {c} |-> IF d = c THEN "polling" ELSE tasks[d]]
        /\ Goes(Main, [do |-> "initConsumer", next |-> i + 1])
        /\ UNCHANGED trouble
     \/ /\ InitFails
        /\ UNCHANGED <<consumers, c_open, tasks>>
  /\ UNCHANGED <<systemVars, queueVars, producerVars, c_started>>

InitDone ==
  /\ Is(Main, "initConsumer") /\ pc[Main].next > Len(Topics)
  /\ c_started' = TRUE
  /\ started' = TRUE
  /\ Goes(Main, Idle)
  /\ UNCHANGED <<registered, starts, queueVars, producerVars, consumers, c_open, tasks, trouble>>

-----------------------------------------------------------------------------
(* shutdown.                                                               *)

FaultyShutdown ==
  /\ Is(Main, "idle") /\ started
  /\ Goes(Main, At("stopQueue"))
  /\ UNCHANGED <<systemVars, queueVars, producerVars, consumerVars, trouble>>

\* The tasks are awaited, and not cancelled.
FaultyShutdownWaits ==
  /\ Is(Main, "idle") /\ started
  /\ Goes(Main, At(IF c_started THEN "stopConsumers" ELSE "stopQueue"))
  /\ UNCHANGED <<systemVars, queueVars, producerVars, consumerVars, trouble>>

\* The tasks of all consumers ever made are cancelled ...
Shutdown ==
  /\ Is(Main, "idle") /\ started
  /\ \/ /\ c_started
        /\ tasks' = [c \in DOMAIN tasks |-> IF Live(c) THEN "cancelled" ELSE "ended"]
        /\ Goes(Main, At("stopConsumers"))
     \/ /\ ~c_started
        /\ Goes(Main, At("stopQueue"))
        /\ UNCHANGED tasks
  /\ UNCHANGED <<systemVars, queueVars, producerVars, consumers, c_started, c_open, trouble>>

\* ... and awaited; then the consumers in the table are stopped.
StopConsumers ==
  /\ Is(Main, "stopConsumers")
  /\ \A c \in DOMAIN tasks : ~Live(c)
  /\ \E closed \in SUBSET {consumers[topic] : topic \in Topic} :
       /\ c_open' = c_open \ closed
       /\ \/ /\ closed = {consumers[topic] : topic \in Topic}
             /\ consumers' = [topic \in Topic |-> None]
             /\ tasks' = <<>>
             /\ c_started' = FALSE
             /\ Goes(Main, At("stopQueue"))
             /\ UNCHANGED trouble
          \/ /\ closed # {consumers[topic] : topic \in Topic}
             /\ ShutdownFails
             /\ UNCHANGED <<consumers, tasks, c_started>>
  /\ UNCHANGED <<systemVars, queueVars, producerVars>>

FaultyStopQueue ==
  /\ Is(Main, "stopQueue")
  /\ q_running' = FALSE
  /\ Goes(Main, At("stopProducer"))
  /\ UNCHANGED <<updating, systemVars, producerVars, consumerVars, trouble>>

\* A queue that does not run is stopped once more.
FaultyStopQueueTwice ==
  /\ Is(Main, "stopQueue")
  /\ q_running' = FALSE
  /\ updating' = updating - 1
  /\ Goes(Main, At("stopProducer"))
  /\ UNCHANGED <<systemVars, producerVars, consumerVars, trouble>>

\* The update task is cancelled and awaited.
StopQueue ==
  /\ Is(Main, "stopQueue")
  /\ q_running' = FALSE
  /\ updating' = IF q_running THEN updating - 1 ELSE updating
  /\ Goes(Main, At("stopProducer"))
  /\ UNCHANGED <<systemVars, producerVars, consumerVars, trouble>>

StopProducer ==
  /\ Is(Main, "stopProducer")
  /\ \/ /\ p_open' = IF p_started THEN p_open \ {producer} ELSE p_open
        /\ p_started' = FALSE
        /\ started' = FALSE
        /\ Goes(Main, Idle)
        /\ UNCHANGED trouble
     \/ /\ p_started
        /\ ShutdownFails
        /\ UNCHANGED <<p_open, p_started, started>>
  /\ UNCHANGED <<registered, starts, producer, made, queueVars, consumerVars>>

-----------------------------------------------------------------------------
(* The system.                                                             *)

MainStep ==
  \/ ProducerStart(Main) \/ ProducerOpens(Main) \/ ProducerFails(Main)
  \/ InitQueue \/ InitConsumer \/ InitDone
  \/ StopConsumers \/ StopQueue \/ StopProducer

Consumer == Topic \X (1..MaxStarts)

LifecycleNext ==
  \/ Initialize \/ Shutdown \/ MainStep
  \/ \E t \in Sender : ProducerStart(t) \/ ProducerOpens(t) \/ ProducerFails(t) \/ Sent(t)
  \/ \E c \in Consumer : ConsumeMessages(c)

LifecycleSpec == LifecycleInit /\ [][LifecycleNext]_lifecycleVars

\* Kafka answers every call in the end, with an error if need be, and the event
\* loop runs what is ready.  Nobody has to call initialize, shutdown or send.
LifecycleFairSpec ==
  /\ LifecycleSpec
  /\ WF_lifecycleVars(MainStep)
  /\ \A c \in Consumer : WF_lifecycleVars(ConsumeMessages(c))

-----------------------------------------------------------------------------
(* Properties.                                                             *)

Client == 1..(MaxClients + MaxStarts)

Location ==
       [do : {"idle", "initProducer", "initQueue", "stopConsumers", "stopQueue",
              "stopProducer", "sending"}]
  \cup [do : {"opening"}, client : Client]
  \cup [do : {"initConsumer"}, next : 1..(Len(Topics) + 1)]

\* Every variable holds what the attribute it stands for can hold.
LifecycleTypeOK ==
  /\ pc \in [{Main} \cup Sender -> Location]
  /\ {started, registered, p_started, c_started, q_running} \subseteq BOOLEAN
  /\ producer \in Client \cup {None}
  /\ p_open \subseteq Client
  /\ consumers \in [Topic -> Consumer \cup {None}]
  /\ c_open \subseteq Consumer
  /\ DOMAIN tasks \subseteq Consumer
  /\ \A c \in DOMAIN tasks : tasks[c] \in {"polling", "handling", "cancelled", "ended"}
  /\ updating \in Nat /\ starts \in 0..MaxStarts /\ made \in Nat
  /\ trouble \subseteq {"start", "stop", "race", "sender"}

\* An event is handled only while everything its handler needs is there: the
\* queue manager, the other handlers and a producer to send with.  The order of
\* initialize and of shutdown sees to it, whatever fails in either.
HandlersHaveSystem ==
  \A c \in DOMAIN tasks : Live(c) => q_running /\ registered /\ p_started

\* A system that says it is started has all its parts running, except after a
\* shutdown that failed, or if two tasks started the producer at once.
StartedIsRunning ==
  started /\ Is(Main, "idle") /\ trouble \cap {"stop", "race"} = {} =>
    /\ p_started /\ producer \in p_open
    /\ q_running /\ updating = 1
    /\ c_started /\ \A topic \in Topic : consumers[topic] \in c_open

\* A system that says it is stopped has left nothing running, except after an
\* initialize that failed, or if an event was sent before it or after it.
StoppedIsStopped ==
  ~started /\ Is(Main, "idle") /\ trouble \cap {"start", "sender", "race"} = {} =>
    /\ p_open = {} /\ c_open = {} /\ updating = 0
    /\ \A c \in DOMAIN tasks : ~Live(c)

\* There is one producer, unless two tasks started it at once, and one update
\* task, however often initialize and shutdown fail and are called again.
OneOfEach ==
  /\ "race" \notin trouble => Cardinality(p_open) <= 1
  /\ updating <= 1

\* initialize and shutdown return, although shutdown waits for the tasks of the
\* consumers, which may be in the middle of a handler.
MainReturns == \A do \in {"initProducer", "initConsumer", "stopConsumers", "stopQueue"} :
                 Is(Main, do) ~> Is(Main, "idle")
=============================================================================
