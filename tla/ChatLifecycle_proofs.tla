--------------------------- MODULE ChatLifecycle_proofs ---------------------------
(***************************************************************************)
(* What is proved of ChatLifecycle, for any list of topics, any senders    *)
(* and any number of starts: no event is handled without the parts its     *)
(* handler needs, and what is running whenever the system says that it is  *)
(* started, or stopped.                                                    *)
(***************************************************************************)
EXTENDS ChatLifecycle, FiniteSetTheorems, SequenceTheorems, TLAPS

NoneLive == \A c \in DOMAIN tasks : ~Live(c)

\* What each place of initialize and shutdown may rely on.
PlacesOK ==
  /\ pc[Main].do \in {"initProducer", "opening", "initQueue", "initConsumer"} => ~started
  /\ pc[Main].do \in {"initQueue", "initConsumer"} => p_started
  /\ pc[Main].do = "initConsumer" => q_running /\ registered
  /\ pc[Main].do \in {"stopConsumers", "stopQueue", "stopProducer"} => started
  /\ pc[Main].do \in {"stopQueue", "stopProducer"} => NoneLive
  /\ pc[Main].do # "sending"

\* HandlersHaveSystem is not inductive: shutdown stops the queue and the producer
\* only where no task is live, which for a second shutdown follows from the flags.
SystemInv ==
  /\ DOMAIN pc = {Main} \cup Sender
  /\ HandlersHaveSystem
  /\ PlacesOK
  /\ started => c_started \/ NoneLive

\* A step that makes no task live and leaves the system and Main where they are.
LEMMA OthersKeepSystem ==
  ASSUME SystemInv, DOMAIN pc' = {Main} \cup Sender, pc'[Main] = pc[Main],
         systemVars' = systemVars, q_running' = q_running, c_started' = c_started,
         p_started => p_started',
         \A c \in DOMAIN tasks' : Live(c)' => Live(c)
  PROVE  SystemInv'
<1>1. NoneLive => NoneLive'
  BY DEF NoneLive, Live
<1>2. HandlersHaveSystem'
  BY DEF SystemInv, HandlersHaveSystem, systemVars, Live
<1>3. PlacesOK'
  BY <1>1 DEF SystemInv, PlacesOK, systemVars
<1>4. (started => c_started \/ NoneLive)'
  BY <1>1 DEF SystemInv, systemVars
<1>5. QED
  BY <1>2, <1>3, <1>4 DEF SystemInv

LEMMA SendersKeepSystem ==
  ASSUME SystemInv, NEW t \in Sender,
         ProducerStart(t) \/ ProducerOpens(t) \/ ProducerFails(t) \/ Sent(t)
  PROVE  SystemInv'
<1>1. t # Main
  BY LifecycleAssumption
<1>2. DOMAIN pc' = {Main} \cup Sender /\ pc'[Main] = pc[Main]
  BY <1>1 DEF SystemInv, ProducerStart, ProducerOpens, ProducerFails, Sent, Goes
<1>3. /\ systemVars' = systemVars /\ q_running' = q_running /\ c_started' = c_started
      /\ tasks' = tasks
      /\ p_started => p_started'
  BY <1>1 DEF ProducerStart, ProducerOpens, ProducerFails, Sent, queueVars, consumerVars,
              producerVars
<1>4. \A c \in DOMAIN tasks' : Live(c)' => Live(c)
  BY <1>3 DEF Live
<1>5. QED
  BY <1>2, <1>3, <1>4, OthersKeepSystem

LEMMA ConsumersKeepSystem ==
  ASSUME SystemInv, NEW c \in Consumer, ConsumeMessages(c)
  PROVE  SystemInv'
<1>1. /\ pc' = pc /\ systemVars' = systemVars /\ q_running' = q_running
      /\ c_started' = c_started /\ p_started' = p_started
  BY DEF ConsumeMessages, queueVars, producerVars
<1>2. \A d \in DOMAIN tasks' : Live(d)' => Live(d)
  BY DEF ConsumeMessages, Live
<1>3. QED
  BY <1>1, <1>2, OthersKeepSystem DEF SystemInv

\* initialize, up to the consumers: no task is made, nothing is stopped.
LEMMA StartKeepsSystem ==
  ASSUME SystemInv,
         \/ Initialize \/ InitQueue
         \/ ProducerStart(Main) \/ ProducerOpens(Main) \/ ProducerFails(Main)
  PROVE  SystemInv'
<1>1. Main \notin Sender /\ pc[Main].do # "sending"
  BY LifecycleAssumption DEF SystemInv, PlacesOK
<1>2. /\ DOMAIN pc' = {Main} \cup Sender /\ started' = started /\ ~started
      /\ c_started' = c_started /\ tasks' = tasks
  BY <1>1 DEF SystemInv, PlacesOK, Initialize, InitQueue, ProducerStart, ProducerOpens,
       ProducerFails, WantsProducer, InitFails, Goes, Is, systemVars, consumerVars
<1>3. /\ registered => registered'
      /\ q_running => q_running'
      /\ p_started => p_started'
  BY DEF Initialize, InitQueue, ProducerStart, ProducerOpens, ProducerFails, systemVars,
         queueVars, producerVars
<1>4. /\ pc'[Main].do \in {"initQueue", "initConsumer"} => p_started'
      /\ pc'[Main].do = "initConsumer" => q_running' /\ registered'
      /\ pc'[Main].do \in {"idle", "initProducer", "opening", "initQueue", "initConsumer"}
  <2>1. CASE Initialize
    BY <2>1 DEF SystemInv, Initialize, Goes, At
  <2>2. CASE InitQueue
    BY <2>2 DEF SystemInv, PlacesOK, InitQueue, Goes, Is, producerVars
  <2>3. CASE ProducerStart(Main)
    BY <1>1, <2>3 DEF SystemInv, ProducerStart, Started, Goes, At
  <2>4. CASE ProducerOpens(Main)
    BY <1>1, <2>4 DEF SystemInv, ProducerOpens, Started, Goes, At
  <2>5. CASE ProducerFails(Main)
    BY <2>5 DEF SystemInv, ProducerFails, InitFails, Goes, Idle, At
  <2>6. QED
    BY <2>1, <2>2, <2>3, <2>4, <2>5
<1>5. HandlersHaveSystem'
  BY <1>2, <1>3 DEF SystemInv, HandlersHaveSystem, Live
<1>6. PlacesOK'
  BY <1>2, <1>4 DEF PlacesOK
<1>7. QED
  BY <1>2, <1>5, <1>6 DEF SystemInv

LEMMA InitConsumerKeepsSystem ==
  ASSUME SystemInv, InitConsumer
  PROVE  SystemInv'
<1>1. /\ ~started /\ p_started /\ q_running /\ registered
      /\ started' = started /\ p_started' = p_started
      /\ q_running' = q_running /\ registered' = registered
  BY DEF SystemInv, PlacesOK, InitConsumer, Is, systemVars, queueVars, producerVars
<1>2. /\ DOMAIN pc' = {Main} \cup Sender
      /\ pc'[Main].do \in {"initConsumer", "idle"}
  BY DEF SystemInv, InitConsumer, InitFails, Goes, Idle, At
<1>3. QED
  BY <1>1, <1>2 DEF SystemInv, PlacesOK, HandlersHaveSystem

LEMMA InitDoneKeepsSystem ==
  ASSUME SystemInv, InitDone
  PROVE  SystemInv'
<1>1. /\ c_started' /\ tasks' = tasks /\ p_started' = p_started
      /\ q_running' = q_running /\ registered' = registered
      /\ DOMAIN pc' = {Main} \cup Sender /\ pc'[Main].do = "idle"
  BY DEF SystemInv, InitDone, Goes, Idle, At, queueVars, producerVars
<1>2. HandlersHaveSystem'
  BY <1>1 DEF SystemInv, HandlersHaveSystem, Live
<1>3. QED
  BY <1>1, <1>2 DEF SystemInv, PlacesOK

LEMMA ShutdownKeepsSystem ==
  ASSUME SystemInv, Shutdown
  PROVE  SystemInv'
<1>1. /\ started /\ started' = started /\ c_started' = c_started
      /\ p_started' = p_started /\ q_running' = q_running /\ registered' = registered
      /\ DOMAIN pc' = {Main} \cup Sender
  BY DEF SystemInv, Shutdown, Goes, systemVars, queueVars, producerVars
<1>2. \A c \in DOMAIN tasks' : Live(c)' => Live(c)
  BY DEF Shutdown, Live
<1>3. HandlersHaveSystem'
  BY <1>1, <1>2 DEF SystemInv, HandlersHaveSystem, Live
<1>4. CASE c_started
  <2>1. pc'[Main].do = "stopConsumers"
    BY <1>4 DEF SystemInv, Shutdown, Goes, At
  <2>2. QED
    BY <1>1, <1>3, <1>4, <2>1 DEF SystemInv, PlacesOK
<1>5. CASE ~c_started
  <2>1. pc'[Main].do = "stopQueue" /\ tasks' = tasks
    BY <1>5 DEF SystemInv, Shutdown, Goes, At
  <2>2. NoneLive'
    BY <1>1, <1>5, <2>1 DEF SystemInv, NoneLive, Live
  <2>3. QED
    BY <1>1, <1>3, <2>1, <2>2 DEF SystemInv, PlacesOK
<1>6. QED
  BY <1>4, <1>5

\* From here on no task is live.
LEMMA StopKeepsSystem ==
  ASSUME SystemInv, StopConsumers \/ StopQueue \/ StopProducer
  PROVE  SystemInv'
<1>1. NoneLive'
  <2>1. NoneLive
    BY DEF SystemInv, PlacesOK, StopConsumers, StopQueue, StopProducer, Is, NoneLive
  <2>2. CASE tasks' = tasks
    BY <2>1, <2>2 DEF NoneLive, Live
  <2>3. CASE tasks' = <<>>
    BY <2>3 DEF NoneLive
  <2>4. QED
    BY <2>2, <2>3 DEF StopConsumers, StopQueue, StopProducer, consumerVars
<1>2. /\ DOMAIN pc' = {Main} \cup Sender
      /\ \/ pc'[Main].do = "idle"
         \/ pc'[Main].do \in {"stopQueue", "stopProducer"} /\ started'
  <2>1. started
    BY DEF SystemInv, PlacesOK, StopConsumers, StopQueue, StopProducer, Is
  <2>2. \/ Goes(Main, Idle)
        \/ /\ started' = started
           /\ Goes(Main, At("stopQueue")) \/ Goes(Main, At("stopProducer"))
    <3>1. CASE StopConsumers
      BY <3>1 DEF StopConsumers, ShutdownFails, systemVars
    <3>2. CASE StopQueue
      BY <3>2 DEF StopQueue, systemVars
    <3>3. CASE StopProducer
      BY <3>3 DEF StopProducer, ShutdownFails
    <3>4. QED
      BY <3>1, <3>2, <3>3
  <2>3. \A where : Goes(Main, where) => DOMAIN pc' = {Main} \cup Sender /\ pc'[Main] = where
    BY DEF SystemInv, Goes
  <2>4. /\ Idle.do = "idle"
        /\ At("stopQueue").do = "stopQueue" /\ At("stopProducer").do = "stopProducer"
    BY DEF Idle, At
  <2>5. CASE Goes(Main, Idle)
    BY <2>3, <2>4, <2>5
  <2>6. CASE started' = started /\ (Goes(Main, At("stopQueue")) \/ Goes(Main, At("stopProducer")))
    BY <2>1, <2>3, <2>4, <2>6
  <2>7. QED
    BY <2>2, <2>5, <2>6
<1>3. HandlersHaveSystem'
  BY <1>1 DEF HandlersHaveSystem, NoneLive
<1>4. QED
  BY <1>1, <1>2, <1>3 DEF SystemInv, PlacesOK

LEMMA SystemInvNext == SystemInv /\ [LifecycleNext]_lifecycleVars => SystemInv'
<1> SUFFICES ASSUME SystemInv, [LifecycleNext]_lifecycleVars PROVE SystemInv'
  OBVIOUS
<1>1. CASE UNCHANGED lifecycleVars
  BY <1>1 DEF lifecycleVars, SystemInv, PlacesOK, HandlersHaveSystem, NoneLive, Live
<1>2. CASE LifecycleNext
  BY <1>2, StartKeepsSystem, InitConsumerKeepsSystem, InitDoneKeepsSystem, ShutdownKeepsSystem,
     StopKeepsSystem, SendersKeepSystem, ConsumersKeepSystem DEF LifecycleNext, MainStep
<1>3. QED
  BY <1>1, <1>2

\* Whenever a task is about to handle an event the queue manager runs, the handlers
\* are registered and there is a producer, whatever fails in initialize or shutdown
\* and whoever sends meanwhile.
THEOREM HandlersAreServed == LifecycleSpec => []HandlersHaveSystem
<1>1. LifecycleInit => SystemInv
  BY DEF LifecycleInit, SystemInv, PlacesOK, HandlersHaveSystem, NoneLive, Idle, At
<1>2. SystemInv => HandlersHaveSystem
  BY DEF SystemInv
<1>3. QED
  BY <1>1, <1>2, SystemInvNext, PTL DEF LifecycleSpec

-----------------------------------------------------------------------------
(* Types, and what runs when.                                              *)

\* The counters: one update task while the queue runs, one producer for each call
\* of initialize and, at most, MaxClients by the senders.
CountsOK ==
  /\ updating = IF q_running THEN 1 ELSE 0
  /\ pc[Main].do \in {"initProducer", "opening", "initQueue", "initConsumer"} => starts > 0
  /\ made <= MaxClients + starts
  /\ Is(Main, "initProducer") => made < MaxClients + starts

\* Unless two tasks started it at once, the producer is the one that is open or
\* being opened.
ProducerOK ==
  "race" \notin trouble =>
    /\ \A t, u \in DOMAIN pc : Is(t, "opening") /\ Is(u, "opening") => t = u
    /\ \A t \in DOMAIN pc : Is(t, "opening") => ~p_started /\ pc[t].client = producer
    /\ p_open = IF p_started THEN {producer} ELSE {}

\* What of a started system is running, place by place.
StartedOK ==
  /\ Is(Main, "initConsumer") =>
       \A i \in 1..(pc[Main].next - 1) : consumers[Topics[i]] \in c_open
  /\ started => p_started
  /\ started /\ "stop" \notin trouble =>
       /\ pc[Main].do # "stopProducer" => q_running
       /\ pc[Main].do \in {"idle", "stopConsumers"} =>
            c_started /\ \A topic \in Topic : consumers[topic] \in c_open

\* What of a stopped system is not, unless an initialize failed: no open consumer
\* is forgotten, so that shutdown closes them all.
Down == ~started /\ ~Is(Main, "initConsumer")
StoppedOK ==
  "start" \notin trouble =>
    /\ \A c \in c_open : consumers[c[1]] = c
    /\ Is(Main, "initConsumer") => \A c \in c_open : c[2] = starts
    /\ Down \/ pc[Main].do \in {"stopQueue", "stopProducer"} \/ (started /\ ~c_started)
         => c_open = {}
    /\ Down \/ Is(Main, "stopProducer") => ~q_running
    /\ Down => NoneLive
    /\ "sender" \notin trouble /\ ~started
         /\ pc[Main].do \in {"idle", "initProducer", "opening"} => ~p_started

LifecycleInv ==
  LifecycleTypeOK /\ SystemInv /\ CountsOK /\ ProducerOK /\ StartedOK /\ StoppedOK

LEMMA LifecycleStart ==
  ASSUME LifecycleInit
  PROVE  LifecycleInv
<1>1. Idle \in Location /\ Idle.do = "idle"
  BY DEF Location, Idle, At
<1>2. \A t \in {Main} \cup Sender : pc[t].do = "idle"
  BY <1>1 DEF LifecycleInit
<1>3. LifecycleTypeOK
  <2>1. /\ pc \in [{Main} \cup Sender -> Location]
        /\ DOMAIN tasks = {} /\ consumers \in [Topic -> Consumer \cup {None}]
    BY <1>1 DEF LifecycleInit
  <2>2. updating \in Nat /\ starts \in 0..MaxStarts /\ made \in Nat
    BY LifecycleAssumption DEF LifecycleInit
  <2>3. QED
    BY <2>1, <2>2 DEF LifecycleInit, LifecycleTypeOK
<1>4. SystemInv
  BY DEF LifecycleInit, SystemInv, PlacesOK, HandlersHaveSystem, NoneLive, Idle, At
<1>5. CountsOK /\ StartedOK
  <2>1. pc[Main].do = "idle"
    BY <1>2
  <2>2. QED
    BY <2>1, LifecycleAssumption DEF LifecycleInit, CountsOK, StartedOK, Is
<1>6. ProducerOK
  BY <1>2 DEF LifecycleInit, ProducerOK, Is
<1>7. StoppedOK
  BY <1>2 DEF LifecycleInit, StoppedOK, Down, NoneLive, Is
<1>8. QED
  BY <1>3, <1>4, <1>5, <1>6, <1>7 DEF LifecycleInv

\* The places a task goes to.
LEMMA Places ==
  /\ \A do \in {"idle", "initProducer", "initQueue", "stopConsumers", "stopQueue",
                "stopProducer", "sending"} : At(do) \in Location /\ At(do).do = do
  /\ Idle = At("idle")
  /\ \A t : Started(t) = IF t = Main THEN At("initQueue") ELSE At("sending")
  /\ \A k \in Client : [do |-> "opening", client |-> k] \in Location
  /\ \A i \in 1..(Len(Topics) + 1) : [do |-> "initConsumer", next |-> i] \in Location
  /\ \A where \in Location : /\ where.do = "opening" => where.client \in Client
                             /\ where.do = "initConsumer" => where.next \in 1..(Len(Topics) + 1)
  BY DEF Location, At, Idle, Started

\* What Main's steps say of where it is.
LEMMA LifecycleTypes ==
  ASSUME LifecycleInv
  PROVE  /\ pc \in [{Main} \cup Sender -> Location]
         /\ started \in BOOLEAN /\ registered \in BOOLEAN /\ p_started \in BOOLEAN
         /\ c_started \in BOOLEAN /\ q_running \in BOOLEAN
         /\ made \in Nat /\ starts \in 0..MaxStarts /\ updating \in Nat
         /\ Len(Topics) \in Nat /\ DOMAIN Topics = 1..Len(Topics)
         /\ \A i \in 1..Len(Topics) : Topics[i] \in Topic
  BY LifecycleAssumption, LenProperties DEF LifecycleInv, LifecycleTypeOK, Topic


\* A producer is made with a number of its own.
LEMMA ProducerNumber ==
  ASSUME LifecycleInv, NEW t \in {Main} \cup Sender, ProducerStart(t), ~p_started
  PROVE  /\ made + 1 \in Client
         /\ made + 1 <= MaxClients + starts
         /\ Is(Main, "initProducer") /\ t # Main => made + 1 < MaxClients + starts
<1>1. /\ made \in Nat /\ starts \in 0..MaxStarts /\ MaxClients \in Nat /\ MaxStarts \in Nat
      /\ CountsOK
  BY LifecycleTypes, LifecycleAssumption DEF LifecycleInv
<1>2. \/ t # Main /\ made < MaxClients
      \/ t = Main /\ Is(Main, "initProducer")
  BY LifecycleAssumption DEF ProducerStart, WantsProducer
<1>3. QED
  BY <1>1, <1>2 DEF CountsOK, Client, Is

LEMMA TypesKept ==
  ASSUME LifecycleInv, [LifecycleNext]_lifecycleVars
  PROVE  LifecycleTypeOK' /\ CountsOK'
<1> USE DEF Goes, Is, WantsProducer, InitFails, ShutdownFails, systemVars, queueVars,
            producerVars, consumerVars
<1>0. /\ LifecycleTypeOK /\ CountsOK /\ \A u \in {Main} \cup Sender : pc[u] \in Location
      /\ MaxClients \in Nat /\ MaxStarts \in Nat
  BY LifecycleTypes, LifecycleAssumption DEF LifecycleInv
<1>1. ASSUME NEW t \in {Main} \cup Sender, ProducerStart(t)
      PROVE  LifecycleTypeOK' /\ CountsOK'
  <2>1. CASE p_started
    <3>1. pc' \in [{Main} \cup Sender -> Location]
      BY <1>0, <1>1, <2>1, Places, LifecycleTypes DEF ProducerStart
    <3>2. LifecycleTypeOK'
      BY <1>0, <1>1, <2>1, <3>1 DEF LifecycleTypeOK, ProducerStart
    <3>3. CountsOK'
      BY <1>0, <1>1, <2>1, Places, LifecycleAssumption
      DEF LifecycleTypeOK, ProducerStart, CountsOK
    <3>4. QED
      BY <3>2, <3>3
  <2>2. CASE ~p_started
    <3>1. /\ made + 1 \in Client /\ made + 1 <= MaxClients + starts
          /\ pc[Main].do = "initProducer" /\ t # Main => made + 1 < MaxClients + starts
          /\ made' = made + 1 /\ producer' = made + 1
          /\ pc' = [pc EXCEPT ![t] = [do |-> "opening", client |-> made + 1]]
          /\ trouble' \in {trouble, trouble \cup {"race"}}
          /\ UNCHANGED <<systemVars, queueVars, consumerVars, p_started, p_open>>
      BY <1>1, <2>2, ProducerNumber DEF ProducerStart
    <3>2. pc' \in [{Main} \cup Sender -> Location]
      BY <1>0, <3>1, Places, LifecycleTypes
    <3>3. LifecycleTypeOK'
      BY <1>0, <3>1, <3>2 DEF LifecycleTypeOK
    <3>4. CountsOK'
      <4>1. pc'[Main].do = "initProducer" => t # Main /\ pc[Main].do = "initProducer"
        BY <1>0, <3>1, LifecycleTypes
      <4>2. pc[Main].do = "initProducer" \/ pc'[Main] = pc[Main]
        BY <1>0, <1>1, <3>1, LifecycleTypes, LifecycleAssumption DEF ProducerStart
      <4>3. QED
        BY <1>0, <3>1, <4>1, <4>2 DEF CountsOK
    <3>5. QED
      BY <3>3, <3>4
  <2>3. QED
    BY <2>1, <2>2
<1>2. ASSUME NEW t \in {Main} \cup Sender, ProducerOpens(t)
      PROVE  LifecycleTypeOK' /\ CountsOK'
  <2>1. /\ pc[t].client \in Client /\ p_started' = TRUE
        /\ p_open' = p_open \cup {pc[t].client}
        /\ pc' = [pc EXCEPT ![t] = Started(t)]
        /\ trouble' \in {trouble, trouble \cup {"sender"}}
        /\ UNCHANGED <<systemVars, queueVars, consumerVars, producer, made>>
    BY <1>0, <1>2, Places DEF ProducerOpens
  <2>2. pc' \in [{Main} \cup Sender -> Location]
    BY <1>0, <2>1, Places, LifecycleTypes
  <2>3. LifecycleTypeOK'
    BY <1>0, <2>1, <2>2 DEF LifecycleTypeOK
  <2>4. CountsOK'
    BY <1>0, <1>2, Places, LifecycleAssumption DEF LifecycleTypeOK, ProducerOpens, CountsOK
  <2>5. QED
    BY <2>3, <2>4
<1>3. ASSUME NEW t \in {Main} \cup Sender, ProducerFails(t) \/ Sent(t)
      PROVE  LifecycleTypeOK' /\ CountsOK'
  <2>1. pc' \in [{Main} \cup Sender -> Location]
    BY <1>0, <1>3, Places, LifecycleTypes DEF ProducerFails, Sent
  <2>2. LifecycleTypeOK'
    BY <1>0, <1>3, <2>1 DEF LifecycleTypeOK, ProducerFails, Sent
  <2>3. CountsOK'
    BY <1>0, <1>3, Places, LifecycleAssumption DEF LifecycleTypeOK, ProducerFails, Sent, CountsOK
  <2>4. QED
    BY <2>2, <2>3
<1>4. CASE Initialize \/ InitQueue \/ InitDone \/ Shutdown \/ StopProducer
  <2>1. pc' \in [{Main} \cup Sender -> Location]
    BY <1>0, <1>4, Places, LifecycleTypes
    DEF Initialize, InitQueue, InitDone, Shutdown, StopProducer
  <2>2. LifecycleTypeOK'
    <3>1. CASE Initialize \/ InitQueue
      <4>1. starts' \in 0..MaxStarts /\ updating' \in Nat
        BY <1>0, <3>1 DEF LifecycleTypeOK, Initialize, InitQueue
      <4>2. registered' \in BOOLEAN /\ q_running' \in BOOLEAN
        BY <1>0, <3>1 DEF LifecycleTypeOK, Initialize, InitQueue
      <4>3. UNCHANGED <<started, producerVars, consumerVars, trouble>>
        BY <3>1 DEF Initialize, InitQueue
      <4>4. QED
        BY <1>0, <2>1, <4>1, <4>2, <4>3 DEF LifecycleTypeOK
    <3>2. CASE InitDone
      BY <1>0, <2>1, <3>2 DEF LifecycleTypeOK, InitDone
    <3>3. CASE Shutdown
      <4>1. DOMAIN tasks' \subseteq Consumer
        BY <1>0, <3>3 DEF LifecycleTypeOK, Shutdown
      <4>2. \A c \in DOMAIN tasks' : tasks'[c] \in {"polling", "handling", "cancelled", "ended"}
        BY <1>0, <3>3 DEF LifecycleTypeOK, Shutdown
      <4>3. UNCHANGED <<systemVars, queueVars, producerVars, consumers, c_started, c_open, trouble>>
        BY <3>3 DEF Shutdown
      <4>4. QED
        BY <1>0, <2>1, <4>1, <4>2, <4>3 DEF LifecycleTypeOK
    <3>4. CASE StopProducer
      BY <1>0, <2>1, <3>4 DEF LifecycleTypeOK, StopProducer
    <3>5. QED
      BY <1>4, <3>1, <3>2, <3>3, <3>4
  <2>3. CountsOK'
    BY <1>0, <1>4, Places, LifecycleAssumption
    DEF LifecycleTypeOK, Initialize, InitQueue, InitDone, Shutdown, StopProducer, CountsOK
  <2>4. QED
    BY <2>2, <2>3
<1>5. CASE InitConsumer
  <2> DEFINE i == pc[Main].next
             c == <<Topics[i], starts>>
  <2>1. i \in 1..Len(Topics) /\ pc[Main].do = "initConsumer"
    BY <1>0, <1>5, Places, LifecycleTypes DEF InitConsumer
  <2>2. Topics[i] \in Topic /\ c \in Consumer
    BY <1>0, <2>1, LifecycleTypes DEF CountsOK, Consumer
  <2>3. pc' \in [{Main} \cup Sender -> Location]
    BY <1>0, <1>5, <2>1, Places, LifecycleTypes DEF InitConsumer
  <2>4. CASE InitFails /\ UNCHANGED <<consumers, c_open, tasks>>
    BY <1>0, <1>5, <2>3, <2>4, Places DEF InitConsumer, LifecycleTypeOK, CountsOK
  <2>5. CASE /\ consumers' = [consumers EXCEPT ![Topics[i]] = c]
             /\ c_open' = c_open \cup {c}
             /\ tasks' = [d \in DOMAIN tasks \cup {c} |-> IF d = c THEN "polling" ELSE tasks[d]]
             /\ Goes(Main, [do |-> "initConsumer", next |-> i + 1])
             /\ UNCHANGED trouble
    <3>1. /\ consumers' \in [Topic -> Consumer \cup {None}] /\ c_open' \subseteq Consumer
          /\ DOMAIN tasks' \subseteq Consumer
          /\ \A d \in DOMAIN tasks' : tasks'[d] \in {"polling", "handling", "cancelled", "ended"}
      BY <1>0, <2>2, <2>5 DEF LifecycleTypeOK
    <3>2. LifecycleTypeOK'
      BY <1>0, <1>5, <2>3, <2>5, <3>1 DEF InitConsumer, LifecycleTypeOK
    <3>3. CountsOK'
      BY <1>0, <1>5, <2>1, <2>5, LifecycleTypes DEF InitConsumer, CountsOK
    <3>4. QED
      BY <3>2, <3>3
  <2>6. QED
    BY <1>5, <2>4, <2>5 DEF InitConsumer
<1>6. CASE StopConsumers
  <2>1. /\ c_open' \subseteq c_open
        /\ consumers' \in {consumers, [topic \in Topic |-> None]}
        /\ tasks' \in {tasks, <<>>} /\ c_started' \in {c_started, FALSE}
        /\ trouble' \in {trouble, trouble \cup {"stop"}}
        /\ pc' \in {[pc EXCEPT ![Main] = At("stopQueue")], [pc EXCEPT ![Main] = Idle]}
        /\ UNCHANGED <<systemVars, queueVars, producerVars>>
    BY <1>6 DEF StopConsumers
  <2>2. pc' \in [{Main} \cup Sender -> Location]
    BY <1>0, <2>1, Places, LifecycleTypes
  <2>3. consumers' \in [Topic -> Consumer \cup {None}]
    BY <1>0, <2>1 DEF LifecycleTypeOK
  <2>4. /\ DOMAIN tasks' \subseteq Consumer
        /\ \A c \in DOMAIN tasks' : tasks'[c] \in {"polling", "handling", "cancelled", "ended"}
    BY <1>0, <2>1 DEF LifecycleTypeOK
  <2>5. LifecycleTypeOK'
    BY <1>0, <2>1, <2>2, <2>3, <2>4 DEF LifecycleTypeOK
  <2>6. CountsOK'
    BY <1>0, <2>1, Places, LifecycleTypes DEF CountsOK
  <2>7. QED
    BY <2>5, <2>6
<1>7. CASE StopQueue
  <2>1. pc' \in [{Main} \cup Sender -> Location]
    BY <1>0, <1>7, Places, LifecycleTypes DEF StopQueue
  <2>2. updating' = 0 /\ q_running' = FALSE
    BY <1>0, <1>7 DEF StopQueue, CountsOK
  <2>3. LifecycleTypeOK'
    <3>1. updating' \in Nat /\ q_running' \in BOOLEAN
      BY <2>2
    <3>2. QED
      BY <1>0, <1>7, <2>1, <3>1 DEF LifecycleTypeOK, StopQueue
  <2>4. CountsOK'
    BY <1>0, <1>7, <2>2, Places, LifecycleTypes DEF CountsOK, StopQueue
  <2>5. QED
    BY <2>3, <2>4
<1>8. ASSUME NEW c \in Consumer, ConsumeMessages(c)
      PROVE  LifecycleTypeOK' /\ CountsOK'
  BY <1>0, <1>8 DEF ConsumeMessages, LifecycleTypeOK, CountsOK
<1>9. CASE UNCHANGED lifecycleVars
  BY <1>0, <1>9 DEF lifecycleVars, LifecycleTypeOK, CountsOK
<1>10. QED
  BY <1>1, <1>2, <1>3, <1>4, <1>5, <1>6, <1>7, <1>8, <1>9 DEF LifecycleNext, MainStep

\* Without a race there is one producer, being opened or open.
LEMMA ProducersKept ==
  ASSUME LifecycleInv, [LifecycleNext]_lifecycleVars
  PROVE  ProducerOK'
<1> SUFFICES ASSUME "race" \notin trouble' PROVE ProducerOK'
  BY DEF ProducerOK
<1>0. /\ pc \in [{Main} \cup Sender -> Location] /\ DOMAIN pc = {Main} \cup Sender
      /\ p_started \in BOOLEAN
      /\ "race" \notin trouble /\ ProducerOK
  <2>1. trouble \subseteq trouble'
    BY DEF LifecycleNext, MainStep, lifecycleVars, Initialize, ProducerStart, ProducerOpens,
           ProducerFails, Sent, InitQueue, InitConsumer, InitDone, Shutdown, StopConsumers,
           StopQueue, StopProducer, ConsumeMessages, InitFails, ShutdownFails
  <2>2. QED
    BY <2>1, LifecycleTypes DEF LifecycleInv
<1>1. /\ \A t, u \in DOMAIN pc : Is(t, "opening") /\ Is(u, "opening") => t = u
      /\ \A t \in DOMAIN pc : Is(t, "opening") => ~p_started /\ pc[t].client = producer
      /\ p_open = IF p_started THEN {producer} ELSE {}
  BY <1>0 DEF ProducerOK
<1>2. ASSUME UNCHANGED <<producer, p_started, p_open>>, DOMAIN pc' = DOMAIN pc,
             \A t \in DOMAIN pc : pc'[t] = pc[t] \/ pc'[t].do # "opening"
      PROVE  ProducerOK'
  BY <1>1, <1>2 DEF ProducerOK, Is
<1>3. ASSUME NEW t \in {Main} \cup Sender, ProducerStart(t) PROVE ProducerOK'
  <2>1. CASE p_started
    <3>1. pc' = [pc EXCEPT ![t] = Started(t)] /\ UNCHANGED <<producer, p_started, p_open>>
      BY <1>3, <2>1 DEF ProducerStart, Goes
    <3>2. \A u \in DOMAIN pc : pc'[u] = pc[u] \/ pc'[u].do # "opening"
      BY <1>0, <3>1, Places
    <3>3. QED
      BY <1>0, <1>2, <3>1, <3>2
  <2>2. CASE ~p_started
    <3>1. /\ producer' = made + 1 /\ UNCHANGED <<p_started, p_open>>
          /\ pc' = [pc EXCEPT ![t] = [do |-> "opening", client |-> made + 1]]
          /\ \A other \in DOMAIN pc : ~Is(other, "opening")
      BY <1>3, <2>2 DEF ProducerStart, Goes
    <3>2. QED
      BY <1>0, <1>1, <2>2, <3>1 DEF ProducerOK, Is
  <2>3. QED
    BY <2>1, <2>2
<1>4. ASSUME NEW t \in {Main} \cup Sender, ProducerOpens(t) PROVE ProducerOK'
  <2>1. /\ Is(t, "opening") /\ p_open' = p_open \cup {pc[t].client} /\ p_started'
        /\ pc' = [pc EXCEPT ![t] = Started(t)] /\ producer' = producer
    BY <1>4 DEF ProducerOpens, Goes, producerVars
  <2>2. pc[t].client = producer /\ p_open = {}
    BY <1>0, <1>1, <2>1
  <2>3. \A u \in DOMAIN pc' : pc'[u].do # "opening"
    BY <1>0, <1>1, <2>1, Places DEF Is
  <2>4. QED
    BY <2>1, <2>2, <2>3 DEF ProducerOK, Is
<1>5. ASSUME NEW t \in {Main} \cup Sender, ProducerFails(t) \/ Sent(t) PROVE ProducerOK'
  <2>1. \E u \in {Main} \cup Sender : pc' = [pc EXCEPT ![u] = Idle]
    BY <1>5 DEF ProducerFails, Sent, InitFails, Goes
  <2>2. UNCHANGED <<producer, p_started, p_open>>
    BY <1>5 DEF ProducerFails, Sent, producerVars
  <2>3. \A u \in DOMAIN pc : pc'[u] = pc[u] \/ pc'[u].do # "opening"
    BY <1>0, <2>1, Places
  <2>4. QED
    BY <1>0, <1>2, <2>1, <2>2, <2>3
<1>6. CASE \/ Initialize \/ InitQueue \/ InitConsumer \/ InitDone \/ Shutdown
           \/ StopConsumers \/ StopQueue
  <2>1. UNCHANGED <<producer, p_started, p_open>>
    BY <1>6 DEF Initialize, InitQueue, InitConsumer, InitDone, Shutdown, StopConsumers, StopQueue,
       producerVars
  <2>2. \E where : where.do # "opening" /\ pc' = [pc EXCEPT ![Main] = where]
    BY <1>6, Places DEF Initialize, InitQueue, InitConsumer, InitDone, Shutdown, StopConsumers,
       StopQueue, Goes, InitFails, ShutdownFails
  <2>3. QED
    BY <1>0, <1>2, <2>1, <2>2
<1>7. CASE StopProducer
  <2>1. pc' = [pc EXCEPT ![Main] = Idle] /\ producer' = producer
    BY <1>7 DEF StopProducer, ShutdownFails, Goes
  <2>2. \A u \in DOMAIN pc : pc'[u] = pc[u] \/ pc'[u].do # "opening"
    BY <1>0, <2>1, Places
  <2>3. CASE ~p_started' /\ p_open' = IF p_started THEN p_open \ {producer} ELSE p_open
    BY <1>0, <1>1, <2>1, <2>2, <2>3 DEF ProducerOK, Is
  <2>4. CASE UNCHANGED <<p_open, p_started>>
    BY <1>0, <1>2, <2>1, <2>2, <2>4
  <2>5. QED
    BY <1>7, <2>3, <2>4 DEF StopProducer
<1>8. ASSUME NEW c \in Consumer, ConsumeMessages(c) PROVE ProducerOK'
  BY <1>0, <1>2, <1>8 DEF ConsumeMessages, producerVars
<1>9. CASE UNCHANGED lifecycleVars
  BY <1>0, <1>2, <1>9 DEF lifecycleVars
<1>10. QED
  BY <1>3, <1>4, <1>5, <1>6, <1>7, <1>8, <1>9 DEF LifecycleNext, MainStep

\* Main stays where it is when another task steps.
LEMMA OthersStay ==
  ASSUME LifecycleInv,
         \/ \E t \in Sender : ProducerStart(t) \/ ProducerOpens(t) \/ ProducerFails(t) \/ Sent(t)
         \/ \E c \in Consumer : ConsumeMessages(c)
         \/ UNCHANGED lifecycleVars
  PROVE  /\ pc'[Main] = pc[Main]
         /\ UNCHANGED <<systemVars, queueVars, consumers, c_started, c_open>>
         /\ p_started => p_started'
         /\ "sender" \notin trouble' => p_started' = p_started
         /\ trouble \subseteq trouble'
         /\ trouble' \subseteq trouble \cup {"race", "sender"}
         /\ NoneLive => NoneLive'
<1>0. pc \in [{Main} \cup Sender -> Location] /\ Main \notin Sender
  BY LifecycleTypes, LifecycleAssumption
<1>1. ASSUME NEW t \in Sender, ProducerStart(t) \/ ProducerOpens(t) \/ ProducerFails(t) \/ Sent(t)
      PROVE  /\ pc'[Main] = pc[Main]
             /\ UNCHANGED <<systemVars, queueVars, consumers, c_started, c_open, tasks>>
             /\ p_started => p_started'
             /\ "sender" \notin trouble' => p_started' = p_started
             /\ trouble \subseteq trouble'
             /\ trouble' \subseteq trouble \cup {"race", "sender"}
  <2>1. t # Main
    BY <1>0
  <2>2. pc'[Main] = pc[Main]
    BY <1>0, <1>1, <2>1 DEF ProducerStart, ProducerOpens, ProducerFails, Sent, Goes
  <2>3. QED
    BY <1>1, <2>1, <2>2 DEF ProducerStart, ProducerOpens, ProducerFails, Sent, consumerVars,
       producerVars
<1>2. ASSUME NEW c \in Consumer, ConsumeMessages(c)
      PROVE  /\ pc'[Main] = pc[Main]
             /\ UNCHANGED <<systemVars, queueVars, consumers, c_started, c_open, p_started, trouble>>
             /\ NoneLive => NoneLive'
  <2>1. NoneLive => FALSE
    BY <1>2 DEF ConsumeMessages, Live, NoneLive
  <2>2. QED
    BY <1>2, <2>1 DEF ConsumeMessages, producerVars
<1>3. QED
  BY <1>1, <1>2 DEF NoneLive, Live, lifecycleVars, systemVars, queueVars

\* What is running, place by place.
LEMMA StartedKept ==
  ASSUME LifecycleInv, [LifecycleNext]_lifecycleVars
  PROVE  StartedOK'
<1>0. /\ pc \in [{Main} \cup Sender -> Location] /\ Main \notin Sender
      /\ StartedOK /\ PlacesOK /\ SystemInv
      /\ Len(Topics) \in Nat /\ \A i \in 1..Len(Topics) : Topics[i] \in Topic
      /\ consumers \in [Topic -> Consumer \cup {None}]
  BY LifecycleTypes, LifecycleAssumption DEF LifecycleInv, SystemInv, LifecycleTypeOK
<1>1. ASSUME pc'[Main] = pc[Main], UNCHANGED <<systemVars, queueVars, consumers, c_started, c_open>>,
             p_started => p_started', trouble \subseteq trouble'
      PROVE  StartedOK'
  BY <1>0, <1>1 DEF StartedOK, Is, systemVars, queueVars
<1>2. CASE Initialize \/ ProducerStart(Main) \/ ProducerOpens(Main) \/ ProducerFails(Main) \/ InitQueue
  <2>1. /\ ~started'
        /\ pc'[Main].do # "initConsumer" \/ pc'[Main].next = 1
    <3>1. CASE InitQueue
      BY <1>0, <3>1, Places DEF InitQueue, Goes, Is, PlacesOK
    <3>2. CASE Initialize
      BY <1>0, <3>2, Places DEF Initialize, Goes
    <3>3. CASE ProducerStart(Main) \/ ProducerOpens(Main) \/ ProducerFails(Main)
      <4>1. ~started /\ started' = started
        BY <1>0, <3>3 DEF ProducerStart, ProducerOpens, ProducerFails, WantsProducer, Is,
           systemVars, PlacesOK
      <4>2. pc'[Main].do # "initConsumer"
        BY <1>0, <3>3, Places DEF ProducerStart, ProducerOpens, ProducerFails, InitFails, Goes
      <4>3. QED
        BY <4>1, <4>2
    <3>4. QED
      BY <1>2, <3>1, <3>2, <3>3
  <2>2. QED
    BY <2>1 DEF StartedOK, Is
<1>3. CASE InitConsumer
  <2> DEFINE i == pc[Main].next
             c == <<Topics[i], starts>>
  <2>1. /\ i \in 1..Len(Topics) /\ ~started /\ started' = started
        /\ \A j \in 1..(i - 1) : consumers[Topics[j]] \in c_open
    BY <1>0, <1>3, Places DEF InitConsumer, Is, PlacesOK, StartedOK, systemVars
  <2>2. CASE InitFails
    BY <1>0, <2>1, <2>2, Places DEF InitFails, Goes, StartedOK, Is
  <2>3. CASE /\ consumers' = [consumers EXCEPT ![Topics[i]] = c] /\ c_open' = c_open \cup {c}
             /\ Goes(Main, [do |-> "initConsumer", next |-> i + 1])
    <3>1. pc'[Main] = [do |-> "initConsumer", next |-> i + 1]
      BY <1>0, <2>3 DEF Goes
    <3> HIDE DEF c
    <3>2. ASSUME NEW j \in 1..(i + 1 - 1) PROVE consumers'[Topics[j]] \in c_open'
      <4>1. j = i \/ j \in 1..(i - 1)
        BY <2>1, <3>2
      <4>2. j \in 1..Len(Topics)
        BY <2>1, <3>2
      <4>3. CASE j = i
        BY <1>0, <2>1, <2>3, <4>3
      <4>4. CASE j # i
        BY <1>0, <2>1, <2>3, <4>1, <4>2, <4>4
      <4>5. QED
        BY <4>3, <4>4
    <3>3. QED
      BY <2>1, <3>1, <3>2 DEF StartedOK, Is
  <2>4. QED
    BY <1>3, <2>2, <2>3 DEF InitConsumer
<1>4. CASE InitDone
  <2>1. /\ pc'[Main].do = "idle" /\ c_started' = TRUE /\ p_started' = p_started
        /\ q_running' = q_running
        /\ UNCHANGED <<consumers, c_open>>
        /\ pc[Main].do = "initConsumer" /\ pc[Main].next > Len(Topics)
        /\ p_started /\ q_running
    BY <1>0, <1>4, Places DEF InitDone, Goes, Is, PlacesOK, queueVars, producerVars
  <2>2. pc[Main].next = Len(Topics) + 1
    BY <1>0, <2>1, Places
  <2>3. \A i \in 1..Len(Topics) : consumers[Topics[i]] \in c_open
    BY <1>0, <2>1, <2>2 DEF StartedOK, Is
  <2>4. \A topic \in Topic : consumers[topic] \in c_open
    BY <2>3, LifecycleTypes DEF Topic
  <2>5. QED
    BY <2>1, <2>4 DEF StartedOK, Is
<1>5. CASE Shutdown
  <2>1. /\ started /\ started' = started /\ q_running' = q_running /\ p_started' = p_started
        /\ UNCHANGED <<consumers, c_started, c_open, trouble>>
        /\ pc[Main].do = "idle"
        /\ pc'[Main].do = IF c_started THEN "stopConsumers" ELSE "stopQueue"
    BY <1>0, <1>5, Places DEF Shutdown, Goes, Is, systemVars, queueVars, producerVars
  <2>2. QED
    BY <1>0, <2>1 DEF StartedOK, Is
<1>6. CASE StopConsumers
  <2>1. /\ UNCHANGED <<started, q_running, p_started>>
        /\ trouble \subseteq trouble'
        /\ \/ pc'[Main].do = "stopQueue"
           \/ pc'[Main].do = "idle" /\ "stop" \in trouble'
        /\ pc[Main].do = "stopConsumers"
    BY <1>0, <1>6, Places
    DEF StopConsumers, ShutdownFails, Goes, Is, systemVars, queueVars, producerVars
  <2>2. QED
    BY <1>0, <2>1 DEF StartedOK, Is
<1>7. CASE StopQueue
  <2>1. /\ UNCHANGED <<started, p_started>> /\ pc'[Main].do = "stopProducer"
    BY <1>0, <1>7, Places DEF StopQueue, Goes, systemVars, producerVars
  <2>2. QED
    BY <1>0, <2>1 DEF StartedOK, Is
<1>8. CASE StopProducer
  <2>1. /\ pc'[Main].do = "idle"
        /\ \/ ~started'
           \/ "stop" \in trouble' /\ UNCHANGED <<started, p_started>>
    BY <1>0, <1>8, Places DEF StopProducer, ShutdownFails, Goes
  <2>2. QED
    BY <1>0, <2>1 DEF StartedOK, Is
<1>9. QED
  BY <1>1, <1>2, <1>3, <1>4, <1>5, <1>6, <1>7, <1>8, OthersStay DEF LifecycleNext, MainStep

\* What is not running, place by place.
LEMMA StoppedKept ==
  ASSUME LifecycleInv, [LifecycleNext]_lifecycleVars
  PROVE  StoppedOK'
<1> SUFFICES ASSUME "start" \notin trouble' PROVE StoppedOK'
  BY DEF StoppedOK
<1>0. /\ pc \in [{Main} \cup Sender -> Location] /\ Main \notin Sender
      /\ PlacesOK /\ p_started \in BOOLEAN /\ started \in BOOLEAN /\ c_started \in BOOLEAN
      /\ Len(Topics) \in Nat /\ \A i \in 1..Len(Topics) : Topics[i] \in Topic
      /\ consumers \in [Topic -> Consumer \cup {None}] /\ c_open \subseteq Consumer
  BY LifecycleTypes, LifecycleAssumption DEF LifecycleInv, SystemInv, LifecycleTypeOK
<1>a. "start" \notin trouble /\ StoppedOK
  <2>1. trouble \subseteq trouble'
    BY DEF LifecycleNext, MainStep, lifecycleVars, Initialize, ProducerStart, ProducerOpens,
           ProducerFails, Sent, InitQueue, InitConsumer, InitDone, Shutdown, StopConsumers,
           StopQueue, StopProducer, ConsumeMessages, InitFails, ShutdownFails
  <2>2. QED
    BY <2>1 DEF LifecycleInv
<1>b. /\ \A c \in c_open : consumers[c[1]] = c
      /\ pc[Main].do = "initConsumer" => \A c \in c_open : c[2] = starts
      /\ Down \/ pc[Main].do \in {"stopQueue", "stopProducer"} \/ (started /\ ~c_started)
           => c_open = {}
      /\ Down \/ pc[Main].do = "stopProducer" => ~q_running
      /\ Down => NoneLive
      /\ "sender" \notin trouble /\ ~started
           /\ pc[Main].do \in {"idle", "initProducer", "opening"} => ~p_started
  BY <1>a DEF StoppedOK, Is
<1>1. ASSUME pc'[Main] = pc[Main], UNCHANGED <<systemVars, queueVars, consumers, c_started, c_open>>,
             "sender" \notin trouble' => p_started' = p_started,
             trouble \subseteq trouble', NoneLive => NoneLive'
      PROVE  StoppedOK'
  BY <1>a, <1>1 DEF StoppedOK, Down, Is, systemVars, queueVars
<1>2. CASE Initialize \/ ProducerStart(Main) \/ ProducerOpens(Main)
  <2>1. /\ ~started /\ pc[Main].do # "initConsumer" /\ ~started'
        /\ pc'[Main].do \in {"initProducer", "opening", "initQueue"}
        /\ pc'[Main].do \in {"initProducer", "opening"} =>
             p_started' = p_started /\ trouble \subseteq trouble'
             /\ pc[Main].do \in {"idle", "initProducer"}
        /\ UNCHANGED <<consumers, c_open, tasks, q_running>>
    <3>1. CASE Initialize
      BY <1>0, <3>1, Places DEF Initialize, Goes, Is, queueVars, producerVars, consumerVars
    <3>2. CASE ProducerStart(Main)
      BY <1>0, <3>2, Places
      DEF ProducerStart, WantsProducer, Goes, Is, PlacesOK, systemVars, queueVars, consumerVars
    <3>3. CASE ProducerOpens(Main)
      BY <1>0, <3>3, Places DEF ProducerOpens, Goes, Is, PlacesOK, systemVars, queueVars, consumerVars
    <3>4. QED
      BY <1>2, <3>1, <3>2, <3>3
  <2>2. Down /\ Down'
    BY <2>1 DEF Down, Is
  <2>3. NoneLive' /\ c_open' = {} /\ ~q_running'
    BY <1>b, <2>1, <2>2 DEF NoneLive, Live
  <2>4. QED
    BY <1>b, <2>1, <2>3 DEF StoppedOK, Is
<1>3. CASE ProducerFails(Main)
  BY <1>3 DEF ProducerFails, InitFails
<1>4. CASE InitQueue
  <2>1. /\ Down /\ ~started' /\ pc'[Main].do = "initConsumer"
        /\ UNCHANGED <<consumers, c_open>>
    BY <1>0, <1>4, Places DEF InitQueue, Goes, Is, PlacesOK, consumerVars, Down
  <2>2. QED
    BY <1>b, <2>1 DEF StoppedOK, Down, Is
<1>5. CASE InitConsumer
  <2> DEFINE i == pc[Main].next
             c == <<Topics[i], starts>>
  <2>1. /\ consumers' = [consumers EXCEPT ![Topics[i]] = c] /\ c_open' = c_open \cup {c}
        /\ Goes(Main, [do |-> "initConsumer", next |-> i + 1])
        /\ starts' = starts /\ started' = started
        /\ i \in 1..Len(Topics) /\ ~started /\ pc[Main].do = "initConsumer"
    BY <1>0, <1>5, Places DEF InitConsumer, InitFails, Is, PlacesOK, systemVars
  <2>2. pc'[Main].do = "initConsumer" /\ ~Down'
    BY <1>0, <2>1 DEF Goes, Down, Is
  <2>3. c[1] = Topics[i] /\ c[2] = starts /\ Topics[i] \in Topic
    BY <1>0, <2>1
  <2>4. \A d \in c_open : d[1] \in Topic /\ d[2] = starts /\ d = <<d[1], d[2]>>
    BY <1>0, <1>b, <2>1 DEF Consumer
  <2>5. \A d \in c_open' : consumers'[d[1]] = d /\ d[2] = starts
    <3> SUFFICES ASSUME NEW d \in c_open' PROVE consumers'[d[1]] = d /\ d[2] = starts
      OBVIOUS
    <3>1. CASE d = c
      BY <1>0, <2>1, <2>3, <3>1
    <3>2. CASE d # c
      <4>1. d \in c_open /\ d[1] # Topics[i]
        BY <2>1, <2>4, <3>2
      <4>2. QED
        BY <1>0, <1>b, <2>1, <2>4, <4>1
    <3>3. QED
      BY <3>1, <3>2
  <2>6. QED
    BY <2>1, <2>2, <2>5 DEF StoppedOK, Is
<1>6. CASE InitDone
  <2>1. /\ started' /\ c_started' /\ pc'[Main].do = "idle" /\ UNCHANGED <<consumers, c_open>>
    BY <1>0, <1>6, Places DEF InitDone, Goes
  <2>2. QED
    BY <1>b, <2>1 DEF StoppedOK, Down, Is
<1>7. CASE Shutdown
  <2>1. /\ started /\ started' /\ UNCHANGED <<consumers, c_open, c_started>>
        /\ pc'[Main].do = IF c_started THEN "stopConsumers" ELSE "stopQueue"
    BY <1>0, <1>7, Places DEF Shutdown, Goes, systemVars
  <2>2. QED
    BY <1>0, <1>b, <2>1 DEF StoppedOK, Down, Is
<1>8. CASE StopConsumers
  <2>1. /\ pc[Main].do = "stopConsumers" /\ started' = started /\ NoneLive
        /\ q_running' = q_running /\ p_started' = p_started /\ trouble \subseteq trouble'
    BY <1>8 DEF StopConsumers, ShutdownFails, NoneLive, Is, systemVars, queueVars, producerVars
  <2>2. PICK closed \in SUBSET {consumers[topic] : topic \in Topic} :
          /\ c_open' = c_open \ closed
          /\ \/ /\ closed = {consumers[topic] : topic \in Topic}
                /\ tasks' = <<>> /\ pc' = [pc EXCEPT ![Main] = At("stopQueue")]
             \/ /\ UNCHANGED <<consumers, tasks, c_started>>
                /\ pc' = [pc EXCEPT ![Main] = Idle]
    BY <1>8 DEF StopConsumers, ShutdownFails, Goes
  <2>3. CASE /\ closed = {consumers[topic] : topic \in Topic}
             /\ tasks' = <<>> /\ pc' = [pc EXCEPT ![Main] = At("stopQueue")]
    <3>1. c_open \subseteq closed
      <4>1. \A c \in c_open : c[1] \in Topic
        BY <1>0 DEF Consumer
      <4>2. QED
        BY <1>b, <2>3, <4>1
    <3>2. c_open' = {} /\ NoneLive' /\ pc'[Main].do = "stopQueue"
      BY <1>0, <2>2, <2>3, <3>1, Places DEF NoneLive
    <3>3. ~started => ~q_running /\ Down
      BY <1>b, <2>1 DEF Down, Is
    <3>4. QED
      BY <2>1, <3>2, <3>3 DEF StoppedOK, Down, Is
  <2>4. CASE /\ UNCHANGED <<consumers, tasks, c_started>>
             /\ pc' = [pc EXCEPT ![Main] = Idle]
    <3>1. pc'[Main].do = "idle" /\ NoneLive' /\ c_open' \subseteq c_open
      BY <1>0, <2>1, <2>2, <2>4, Places DEF NoneLive, Live
    <3>2. started
      BY <1>0, <2>1 DEF PlacesOK
    <3>3. QED
      BY <1>b, <2>1, <2>4, <3>1, <3>2 DEF StoppedOK, Down, Is
  <2>5. QED
    BY <2>2, <2>3, <2>4
<1>9. CASE StopQueue
  <2>1. /\ pc[Main].do = "stopQueue" /\ pc'[Main].do = "stopProducer" /\ ~q_running'
        /\ UNCHANGED <<started, consumers, c_open, tasks>>
    BY <1>0, <1>9, Places DEF StopQueue, Goes, Is, systemVars, consumerVars
  <2>2. QED
    BY <1>0, <1>b, <2>1 DEF StoppedOK, Down, Is, PlacesOK, NoneLive, Live
<1>10. CASE StopProducer
  <2>1. /\ pc[Main].do = "stopProducer" /\ pc'[Main].do = "idle"
        /\ \/ ~p_started'
           \/ UNCHANGED <<p_started, started>>
        /\ UNCHANGED <<q_running, consumers, c_open, tasks, c_started>>
        /\ trouble \subseteq trouble'
    BY <1>0, <1>10, Places
    DEF StopProducer, ShutdownFails, Goes, Is, queueVars, consumerVars
  <2>2. NoneLive' /\ c_open' = {} /\ ~q_running'
    BY <1>0, <1>b, <2>1 DEF PlacesOK, NoneLive, Live
  <2>3. started
    BY <1>0, <2>1 DEF PlacesOK
  <2>4. QED
    BY <1>b, <2>1, <2>2, <2>3 DEF StoppedOK, Is
<1>11. QED
  BY <1>1, <1>2, <1>3, <1>4, <1>5, <1>6, <1>7, <1>8, <1>9, <1>10, OthersStay
  DEF LifecycleNext, MainStep

LEMMA LifecycleStep ==
  ASSUME LifecycleInv, [LifecycleNext]_lifecycleVars
  PROVE  LifecycleInv'
<1>1. SystemInv'
  BY SystemInvNext DEF LifecycleInv
<1>2. QED
  BY <1>1, TypesKept, ProducersKept, StartedKept, StoppedKept DEF LifecycleInv

\* Every reachable state satisfies the invariant of the life of the system.
THEOREM LifecycleInvariant == LifecycleSpec => []LifecycleInv
  BY LifecycleStart, LifecycleStep, PTL DEF LifecycleSpec

\* Every attribute holds what it can hold, at most MaxClients + MaxStarts
\* producers are ever made, and no consumer without a call of initialize.
THEOREM LifecycleTypeCorrect == LifecycleSpec => []LifecycleTypeOK
<1>1. LifecycleInv => LifecycleTypeOK
  BY DEF LifecycleInv
<1>2. QED
  BY <1>1, LifecycleInvariant, PTL

\* A system that says it is started has all its parts running, whoever sends
\* meanwhile and whatever failed before it was started again; except after a
\* shutdown that failed, or if two tasks started the producer at once.
THEOREM StartedSystemRuns == LifecycleSpec => []StartedIsRunning
<1>1. LifecycleInv => StartedIsRunning
  <2> SUFFICES ASSUME LifecycleInv, started, Is(Main, "idle"), trouble \cap {"stop", "race"} = {}
               PROVE  /\ p_started /\ producer \in p_open /\ q_running /\ updating = 1
                      /\ c_started /\ \A topic \in Topic : consumers[topic] \in c_open
    BY DEF StartedIsRunning
  <2>1. p_started /\ q_running /\ c_started /\ \A topic \in Topic : consumers[topic] \in c_open
    BY DEF LifecycleInv, StartedOK, Is
  <2>2. producer \in p_open /\ updating = 1
    BY <2>1 DEF LifecycleInv, ProducerOK, CountsOK
  <2>3. QED
    BY <2>1, <2>2
<1>2. QED
  BY <1>1, LifecycleInvariant, PTL

\* A system that says it is stopped has left nothing running: no connection to
\* Kafka, no update task, no task of a consumer; except after an initialize that
\* failed, or if an event was sent before it or after it.
THEOREM StoppedSystemRests == LifecycleSpec => []StoppedIsStopped
<1>1. LifecycleInv => StoppedIsStopped
  <2> SUFFICES ASSUME LifecycleInv, ~started, Is(Main, "idle"),
                      trouble \cap {"start", "sender", "race"} = {}
               PROVE  p_open = {} /\ c_open = {} /\ updating = 0 /\ NoneLive
    BY DEF StoppedIsStopped, NoneLive
  <2>1. Down
    BY DEF Down, Is
  <2>2. c_open = {} /\ ~q_running /\ NoneLive /\ ~p_started
    BY <2>1 DEF LifecycleInv, StoppedOK, Is
  <2>3. p_open = {} /\ updating = 0
    BY <2>2 DEF LifecycleInv, ProducerOK, CountsOK
  <2>4. QED
    BY <2>2, <2>3
<1>2. QED
  BY <1>1, LifecycleInvariant, PTL

\* However often initialize and shutdown fail and are called again, there is one
\* update task and, unless two tasks started it at once, one producer.
THEOREM OnlyOneOfEach == LifecycleSpec => []OneOfEach
<1>1. LifecycleInv => OneOfEach
  <2> SUFFICES ASSUME LifecycleInv PROVE OneOfEach
    OBVIOUS
  <2>1. updating <= 1
    BY DEF LifecycleInv, CountsOK
  <2>2. Cardinality({}) = 0 /\ Cardinality({producer}) = 1
    BY FS_EmptySet, FS_Singleton
  <2>3. "race" \notin trouble => p_open = {} \/ p_open = {producer}
    BY DEF LifecycleInv, ProducerOK
  <2>4. QED
    BY <2>1, <2>2, <2>3 DEF OneOfEach
<1>2. QED
  BY <1>1, LifecycleInvariant, PTL
================================================================================
