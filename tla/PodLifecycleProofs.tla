------------------------- MODULE PodLifecycleProofs -------------------------
(***************************************************************************)
(* Proofs about PodLifecycle, for every log, every timing with the grace   *)
(* period below the timeout, and any number of signals and of operations   *)
(* that hang or fail.                                                      *)
(***************************************************************************)
EXTENDS PodLifecycle, TLAPS

(* The length of the log is a number.                                      *)
LEMMA LogFacts == Len(Log) \in Nat /\ \A o \in 1..Len(Log) : Log[o] \in {"good", "seen", "bad"}
  BY LogAssumption

(* Types are kept because a handler only has a message that is in the log. *)
TypeInv == TypeOK /\ (inHand # "idle" => position < Len(Log))

(* Every step keeps the types.                                             *)
LEMMA TypeInvStep == TypeInv /\ [Next]_vars => TypeInv'
<1> SUFFICES ASSUME TypeInv, [Next]_vars PROVE TypeInv'
  OBVIOUS
<1> USE DEF TypeInv, TypeOK, troubleVars, bootVars, teardownVars, processVars, handlerVars, outcomeVars
<1>1. CASE SetupStep
  <2>1. CASE LoadOdin
    BY <2>1 DEF LoadOdin, SetUp, Exit
  <2>2. ASSUME NEW c \in Clients, Connect(c) PROVE TypeInv'
    BY <2>2 DEF Connect, Exit
  <2>3. CASE EnsureIndexes
    BY <2>3 DEF EnsureIndexes, SetUp, Exit
  <2>4. CASE StartExpress
    BY <2>4 DEF StartExpress
  <2>5. CASE StartConsumer
    BY <2>5 DEF StartConsumer, SetUp, Exit
  <2>6. CASE RegisterSignals
    BY <2>6 DEF RegisterSignals
  <2> QED BY <1>1, <2>1, <2>2, <2>3, <2>4, <2>5, <2>6 DEF SetupStep
<1>2. CASE Signal
  BY <1>2, BoundsAssumption DEF Signal
<1>3. CASE TeardownStep
  <2>1. CASE StopExpress
    BY <2>1 DEF StopExpress
  <2>2. CASE DisconnectProducer
    BY <2>2 DEF DisconnectProducer, Exit
  <2>3. CASE DisconnectConsumer
    <3>1. position \in 0..position /\ committed \in 0..position
      BY LogFacts
    <3>2. committed' \in 0..position /\ position' = position
      BY <2>3, <3>1 DEF DisconnectConsumer
    <3> QED BY <2>3, <3>2, LogFacts DEF DisconnectConsumer, Exit
  <2>4. CASE GraceOver
    BY <2>4 DEF GraceOver
  <2>5. ASSUME NEW store \in Stores, DisconnectStore(store) PROVE TypeInv'
    BY <2>5 DEF DisconnectStore
  <2>6. CASE TeardownCompletes
    BY <2>6 DEF TeardownCompletes, Exit
  <2>7. CASE Timeout
    BY <2>7 DEF Timeout, Exit
  <2> QED BY <1>3, <2>1, <2>2, <2>3, <2>4, <2>5, <2>6, <2>7 DEF TeardownStep
<1>4. CASE Tick
  <2>1. teardown = "grace" => waited < GracePeriod
    BY <1>4 DEF Tick, Waits
  <2> QED BY <1>4, <2>1, TimingAssumption DEF Tick
<1>5. CASE HandlerStep
  <2>0. inHand # "idle" =>
          position + 1 \in 1..Len(Log) /\ position + 1 \in 0..Len(Log)
          /\ committed \in 0..(position + 1)
    BY LogFacts
  <2>a. ASSUME NEW call \in Calls, NEW c \in Clients, inHand # "idle", CallFails(call, c)
        PROVE  failedCalls' \subseteq Offsets \X Calls
    BY <2>0, <2>a DEF CallFails, Offsets, InHand
  <2>b. inHand # "idle" => InHand \in Offsets
    BY <2>0 DEF Offsets, InHand
  <2>1. CASE Deliver
    BY <2>1, LogFacts DEF Deliver, HandlerRuns, Goto, outcomeVars
  <2>2. CASE Check
    <3>1. failedCalls' \subseteq Offsets \X Calls
      BY <2>2, <2>a DEF Check, HandlerRuns, Calls, Clients
    <3>2. position' \in 0..Len(Log) /\ committed' \in 0..position'
          /\ (inHand' # "idle" => position' < Len(Log))
      BY <2>0, <2>2, LogFacts DEF Check, HandlerRuns, Return, Goto
    <3> QED BY <2>2, <3>1, <3>2 DEF Check, HandlerRuns, Return, Goto
  <2>3. CASE Upsert
    <3>1. applied' \subseteq Offsets /\ inHand # "idle"
      BY <2>b, <2>3 DEF Upsert, HandlerRuns
    <3>2. failedCalls' \subseteq Offsets \X Calls
      BY <2>3, <2>a DEF Upsert, HandlerRuns, Calls, Clients
    <3> QED BY <2>3, <3>1, <3>2 DEF Upsert, HandlerRuns, Goto
  <2>4. CASE Mark
    <3>1. failedCalls' \subseteq Offsets \X Calls
      BY <2>4, <2>a DEF Mark, HandlerRuns, Calls, Clients
    <3>2. position' \in 0..Len(Log) /\ committed' \in 0..position'
          /\ (inHand' # "idle" => position' < Len(Log))
      BY <2>0, <2>4, LogFacts DEF Mark, HandlerRuns, Return, Goto
    <3> QED BY <2>4, <3>1, <3>2 DEF Mark, HandlerRuns, Return, Goto
  <2>5. CASE Publish
    <3>1. dlq' \subseteq Offsets /\ logOnly' \subseteq Offsets
      BY <2>b, <2>5 DEF Publish, HandlerRuns
    <3>2. position' \in 0..Len(Log) /\ committed' \in 0..position'
      BY <2>0, <2>5 DEF Publish, HandlerRuns, Return
    <3>3. failedCalls' \subseteq Offsets \X Calls
      BY <2>5, <2>a DEF Publish, HandlerRuns, Calls, Clients
    <3> QED BY <2>5, <3>1, <3>2, <3>3 DEF Publish, HandlerRuns, Return
  <2>6. CASE AutoCommit
    BY <2>6, LogFacts DEF AutoCommit, outcomeVars
  <2> QED BY <1>5, <2>1, <2>2, <2>3, <2>4, <2>5, <2>6 DEF HandlerStep
<1>6. CASE Idle \/ UNCHANGED vars
  BY <1>6 DEF Idle, vars
<1> QED BY <1>1, <1>2, <1>3, <1>4, <1>5, <1>6 DEF Next

(* Initially nothing is in hand.                                           *)
LEMMA TypeInvInit == Init => TypeInv
  BY LogFacts, TimingAssumption, BoundsAssumption DEF Init, TypeInv, TypeOK, Offsets

(* The lifecycle's variables keep their types, for every instance.         *)
THEOREM TypeCorrect == Spec => []TypeOK
<1>1. Spec => []TypeInv
  BY TypeInvInit, TypeInvStep, PTL DEF Spec
<1>2. TypeInv => TypeOK
  BY DEF TypeInv
<1> QED BY <1>1, <1>2, PTL

-----------------------------------------------------------------------------
(* The order of the teardown: it starts after setup, leaves the group      *)
(* before the grace period, and touches the stores after it.               *)
OrderInv ==
  /\ teardown # "no" => boot = "running"
  /\ consumer = "left" <=> teardown \in {"grace", "stores"}
  /\ teardown = "stores" => waited = GracePeriod
  /\ \A store \in Stores : client[store] \in {"closed", "failed"} => teardown = "stores"
  /\ client["producer"] # "failed"

(* Every step keeps that order.                                            *)
LEMMA OrderInvStep == TypeInv /\ OrderInv /\ [Next]_vars => OrderInv'
<1> SUFFICES ASSUME TypeInv, OrderInv, [Next]_vars PROVE OrderInv'
  OBVIOUS
<1> USE DEF TypeInv, TypeOK, OrderInv, Stores, Clients,
            troubleVars, bootVars, teardownVars, processVars, handlerVars, outcomeVars
<1>1. CASE SetupStep
  <2>1. CASE LoadOdin
    BY <2>1 DEF LoadOdin, SetUp, Exit
  <2>2. ASSUME NEW c \in Clients, Connect(c) PROVE OrderInv'
    BY <2>2 DEF Connect, Exit
  <2>3. CASE EnsureIndexes
    BY <2>3 DEF EnsureIndexes, SetUp, Exit
  <2>4. CASE StartExpress
    BY <2>4 DEF StartExpress
  <2>5. CASE StartConsumer
    BY <2>5 DEF StartConsumer, SetUp, Exit
  <2>6. CASE RegisterSignals
    BY <2>6 DEF RegisterSignals
  <2> QED BY <1>1, <2>1, <2>2, <2>3, <2>4, <2>5, <2>6 DEF SetupStep
<1>2. CASE Signal
  BY <1>2 DEF Signal
<1>3. CASE TeardownStep
  <2>1. CASE StopExpress
    BY <2>1 DEF StopExpress
  <2>2. CASE DisconnectProducer
    BY <2>2 DEF DisconnectProducer, Exit
  <2>3. CASE DisconnectConsumer
    BY <2>3 DEF DisconnectConsumer, Exit
  <2>4. CASE GraceOver
    BY <2>4 DEF GraceOver
  <2>5. ASSUME NEW store \in Stores, DisconnectStore(store) PROVE OrderInv'
    BY <2>5 DEF DisconnectStore
  <2>6. CASE TeardownCompletes
    BY <2>6 DEF TeardownCompletes, Exit
  <2>7. CASE Timeout
    BY <2>7 DEF Timeout, Exit
  <2> QED BY <1>3, <2>1, <2>2, <2>3, <2>4, <2>5, <2>6, <2>7 DEF TeardownStep
<1>4. CASE Tick
  BY <1>4 DEF Tick
<1>5. CASE HandlerStep
  BY <1>5 DEF HandlerStep, Deliver, Check, Upsert, Mark, Publish, AutoCommit, HandlerRuns,
              Return, Goto
<1>6. CASE Idle \/ UNCHANGED vars
  BY <1>6 DEF Idle, vars
<1> QED BY <1>1, <1>2, <1>3, <1>4, <1>5, <1>6 DEF Next

(* Initially nothing has been torn down.                                   *)
LEMMA OrderInvInit == Init => OrderInv
  BY DEF Init, OrderInv, Stores, Clients

(* No store is closed before the pod has left the group and waited, for    *)
(* any set of operations that hang or fail (consumer.init.ts:96-133).      *)
THEOREM StoresCloseLast == Spec => []StoresOutliveConsumer
<1>1. Init => TypeInv /\ OrderInv
  BY TypeInvInit, OrderInvInit
<1>2. TypeInv /\ OrderInv /\ [Next]_vars => (TypeInv /\ OrderInv)'
  BY TypeInvStep, OrderInvStep
<1>3. TypeInv /\ OrderInv => StoresOutliveConsumer
  BY DEF OrderInv, StoresOutliveConsumer
<1> QED BY <1>1, <1>2, <1>3, PTL DEF Spec

-----------------------------------------------------------------------------
(* What is known of the messages the pod has handled while it was in the   *)
(* group, and commits: whichever good event was not applied has failed on  *)
(* a store that was open, for no store is closed by then, and is accounted *)
(* for.  After it has left, the pod commits nothing more.                  *)
Excused(o) == Log[o] = "good" => o \in applied \/ StoreFailed(o)
Recorded(o) == o \in dlq \/ <<o, "publish">> \in failedCalls \/ ProducerGone
Accounted(o) == Log[o] = "good" /\ o \notin applied => StoreFailed(o) /\ Recorded(o)

DrainInv ==
  /\ \A o \in 1..committed : Accounted(o)
  /\ consumer # "left" =>
       /\ \A o \in 1..position : Accounted(o)
       /\ inHand = "marking" => InHand \in applied
       /\ inHand = "publishing" => Excused(InHand)
       /\ inHand # "idle" => \A store \in Stores : client[store] = "up"

(* Clients and server are up once the pod has joined the group, which it   *)
(* has when there is anything in hand or behind it.                        *)
JoinInv ==
  /\ boot \in {"listen", "join", "joined", "running"} => \A c \in Clients : client[c] # "new"
  /\ boot \in {"join", "joined", "running"} => server # "none"
  /\ consumer # "none" => boot \in {"joined", "running"}
  /\ inHand # "idle" \/ position > 0 => consumer # "none"

(* Every step keeps the clients connected once setup is past them.         *)
LEMMA JoinInvStep == TypeInv /\ OrderInv /\ JoinInv /\ [Next]_vars => JoinInv'
<1> SUFFICES ASSUME TypeInv, OrderInv, JoinInv, [Next]_vars PROVE JoinInv'
  OBVIOUS
<1> USE DEF TypeInv, TypeOK, OrderInv, JoinInv, Stores, Clients,
            troubleVars, bootVars, teardownVars, processVars, handlerVars, outcomeVars
<1>1. CASE SetupStep
  <2>1. CASE LoadOdin
    BY <2>1 DEF LoadOdin, SetUp, Exit
  <2>2. ASSUME NEW c \in Clients, Connect(c) PROVE JoinInv'
    BY <2>2 DEF Connect, Exit
  <2>3. CASE EnsureIndexes
    BY <2>3 DEF EnsureIndexes, SetUp, Exit
  <2>4. CASE StartExpress
    BY <2>4 DEF StartExpress
  <2>5. CASE StartConsumer
    BY <2>5 DEF StartConsumer, SetUp, Exit, Works, Fails
  <2>6. CASE RegisterSignals
    BY <2>6 DEF RegisterSignals
  <2> QED BY <1>1, <2>1, <2>2, <2>3, <2>4, <2>5, <2>6 DEF SetupStep
<1>2. CASE Signal
  BY <1>2 DEF Signal
<1>3. CASE TeardownStep
  <2>1. CASE StopExpress
    BY <2>1 DEF StopExpress
  <2>2. CASE DisconnectProducer
    BY <2>2 DEF DisconnectProducer, Exit
  <2>3. CASE DisconnectConsumer
    BY <2>3 DEF DisconnectConsumer, Exit
  <2>4. CASE GraceOver
    BY <2>4 DEF GraceOver
  <2>5. ASSUME NEW store \in Stores, DisconnectStore(store) PROVE JoinInv'
    BY <2>5 DEF DisconnectStore
  <2>6. CASE TeardownCompletes
    BY <2>6 DEF TeardownCompletes, Exit
  <2>7. CASE Timeout
    BY <2>7 DEF Timeout, Exit
  <2> QED BY <1>3, <2>1, <2>2, <2>3, <2>4, <2>5, <2>6, <2>7 DEF TeardownStep
<1>4. CASE Tick
  BY <1>4 DEF Tick
<1>5. CASE HandlerStep
  BY <1>5 DEF HandlerStep, Deliver, Check, Upsert, Mark, Publish, AutoCommit, HandlerRuns,
              Return, Goto
<1>6. CASE Idle \/ UNCHANGED vars
  BY <1>6 DEF Idle, vars
<1> QED BY <1>1, <1>2, <1>3, <1>4, <1>5, <1>6 DEF Next

(* What is recorded of a message stays, and a producer does not come back. *)
LEMMA RecordsStay ==
  TypeInv /\ OrderInv /\ [Next]_vars =>
    \A o : (Accounted(o) => Accounted(o)') /\ (Excused(o) => Excused(o)')
<1> SUFFICES ASSUME TypeInv, OrderInv, [Next]_vars
             PROVE  \A o : (Accounted(o) => Accounted(o)') /\ (Excused(o) => Excused(o)')
  OBVIOUS
<1> USE DEF troubleVars, bootVars, teardownVars, processVars, handlerVars, outcomeVars
<1>1. applied \subseteq applied' /\ dlq \subseteq dlq' /\ failedCalls \subseteq failedCalls'
  <2>1. CASE UNCHANGED outcomeVars
    BY <2>1
  <2>2. CASE HandlerStep
    BY <2>2 DEF HandlerStep, Deliver, Check, Upsert, Mark, Publish, AutoCommit, CallFails
  <2>3. HandlerStep \/ UNCHANGED outcomeVars
    BY DEF Next, SetupStep, LoadOdin, SetUp, Connect, EnsureIndexes, StartExpress,
           StartConsumer, RegisterSignals, Signal, TeardownStep, StopExpress,
           DisconnectProducer, DisconnectConsumer, GraceOver, DisconnectStore,
           TeardownCompletes, Timeout, Tick, Idle, vars
  <2> QED BY <2>1, <2>2, <2>3
<1>2. ProducerGone => ProducerGone'
  <2>0. /\ client \in [Clients -> {"new", "up", "closed", "failed"}]
        /\ teardown # "no" => boot = "running"
    BY DEF TypeInv, TypeOK, OrderInv
  <2>1. CASE SetupStep
    BY <2>0, <2>1 DEF SetupStep, LoadOdin, SetUp, Connect, EnsureIndexes, StartExpress,
           StartConsumer, RegisterSignals, ProducerGone, Clients
  <2>2. CASE Signal
    BY <2>2 DEF Signal, ProducerGone
  <2>3. CASE TeardownStep
    <3>1. CASE DisconnectProducer
      BY <2>0, <3>1 DEF DisconnectProducer, ProducerGone, Clients
    <3>2. ASSUME NEW store \in Stores, DisconnectStore(store)
          PROVE  client'["producer"] = client["producer"] /\ UNCHANGED teardown
      BY <2>0, <3>2 DEF DisconnectStore, Stores, Clients
    <3>3. CASE StopExpress \/ DisconnectConsumer \/ GraceOver \/ TeardownCompletes \/ Timeout
      BY <3>3 DEF StopExpress, DisconnectConsumer, GraceOver, TeardownCompletes, Timeout,
                  ProducerGone
    <3> QED BY <2>3, <3>1, <3>2, <3>3 DEF TeardownStep, ProducerGone
  <2>4. CASE Tick \/ HandlerStep \/ Idle \/ UNCHANGED vars
    BY <2>4 DEF Tick, Idle, vars, HandlerStep, Deliver, Check, Upsert, Mark, Publish,
                AutoCommit, HandlerRuns, ProducerGone
  <2> QED BY <2>1, <2>2, <2>3, <2>4 DEF Next
<1>3. \A o : StoreFailed(o) => StoreFailed(o)'
  BY <1>1 DEF StoreFailed
<1>4. \A o : Recorded(o) => Recorded(o)'
  BY <1>1, <1>2 DEF Recorded
<1> QED BY <1>1, <1>3, <1>4 DEF Accounted, Excused

(* Every step keeps the account of the messages behind the offset.         *)
LEMMA DrainInvStep ==
  TypeInv /\ OrderInv /\ JoinInv /\ DrainInv /\ [Next]_vars => DrainInv'
<1> SUFFICES ASSUME TypeInv, OrderInv, JoinInv, DrainInv, [Next]_vars PROVE DrainInv'
  OBVIOUS
<1>0. /\ position \in Nat
      /\ committed \in 0..position
      /\ inHand # "idle" => consumer # "none" /\ boot \in {"joined", "running"}
      /\ \A store \in Stores : client[store] \in {"closed", "failed"} => consumer = "left"
  BY LogFacts DEF TypeInv, TypeOK, OrderInv, JoinInv
<1>a. \A o : (Accounted(o) => Accounted(o)') /\ (Excused(o) => Excused(o)')
  BY RecordsStay
<1>b. ASSUME UNCHANGED <<inHand, position, applied>>,
             committed' = committed \/ (committed' = position /\ consumer # "left"),
             consumer' # "left" => consumer # "left",
             consumer' # "left" /\ inHand # "idle" =>
               \A store \in Stores : client'[store] = client[store]
      PROVE  DrainInv'
  BY <1>a, <1>b DEF DrainInv, InHand
<1> USE DEF troubleVars, bootVars, teardownVars, processVars, handlerVars, outcomeVars
<1>1. CASE SetupStep
  <2>1. UNCHANGED handlerVars
    BY <1>1 DEF SetupStep, LoadOdin, SetUp, Connect, EnsureIndexes, StartExpress,
                StartConsumer, RegisterSignals
  <2>2. consumer' # "left" => consumer # "left"
    BY <1>1 DEF SetupStep, LoadOdin, SetUp, Connect, EnsureIndexes, StartExpress,
                StartConsumer, RegisterSignals, OrderInv, TypeInv, TypeOK
  <2>3. inHand # "idle" => UNCHANGED client
    BY <1>0, <1>1 DEF SetupStep, LoadOdin, SetUp, Connect, EnsureIndexes, StartExpress,
                StartConsumer, RegisterSignals
  <2> QED BY <1>b, <2>1, <2>2, <2>3
<1>2. CASE Signal
  BY <1>b, <1>2 DEF Signal
<1>3. CASE TeardownStep
  <2>1. CASE DisconnectProducer
    <3>1. \A store \in Stores : client'[store] = client[store]
      BY <2>1 DEF DisconnectProducer, TypeInv, TypeOK, Clients, Stores
    <3> QED BY <1>b, <2>1, <3>1 DEF DisconnectProducer
  <2>2. CASE DisconnectConsumer
    <3>1. consumer # "left"
      BY <2>2 DEF DisconnectConsumer, OrderInv
    <3> QED BY <1>b, <2>2, <3>1 DEF DisconnectConsumer
  <2>3. ASSUME NEW store \in Stores, DisconnectStore(store) PROVE DrainInv'
    <3>1. consumer = "left"
      BY <2>3 DEF DisconnectStore, OrderInv
    <3> QED BY <1>b, <2>3, <3>1 DEF DisconnectStore
  <2>4. CASE StopExpress \/ GraceOver \/ TeardownCompletes \/ Timeout
    BY <1>b, <2>4 DEF StopExpress, GraceOver, TeardownCompletes, Timeout
  <2> QED BY <1>3, <2>1, <2>2, <2>3, <2>4 DEF TeardownStep
<1>4. CASE Tick
  BY <1>b, <1>4 DEF Tick
<1>5. CASE HandlerStep
  <2>0. UNCHANGED <<client, consumer>>
    BY <1>5 DEF HandlerStep, Deliver, Check, Upsert, Mark, Publish, AutoCommit, HandlerRuns
  <2>a. consumer # "left" /\ (inHand # "idle" \/ consumer = "joined") =>
          \A store \in Stores : client[store] = "up"
    BY <1>0 DEF TypeInv, TypeOK, JoinInv, Stores, Clients
  <2>m. PICK m : m = position + 1
    OBVIOUS
  <2>b. ASSUME UNCHANGED <<position, committed>>,
               consumer # "left" =>
                 /\ inHand' = "marking" => m \in applied'
                 /\ inHand' = "publishing" => Excused(m)'
                 /\ inHand' # "idle" => inHand # "idle" \/ consumer = "joined"
        PROVE  DrainInv'
    BY <1>a, <2>0, <2>a, <2>b, <2>m DEF DrainInv, InHand
  <2>c. ASSUME UNCHANGED committed, position' = m, inHand' = "idle",
               consumer # "left" => Accounted(m)'
        PROVE  DrainInv'
    <3>1. \A o \in 1..position' : o \in 1..position \/ o = m
      BY <1>0, <2>c, <2>m
    <3> QED BY <1>a, <2>0, <2>c, <3>1 DEF DrainInv
  <2>d. InHand = m
    BY <2>m DEF InHand
  <2>1. CASE Deliver
    <3>1. inHand' = "publishing" => Log[m] # "good"
      BY <2>1, <2>d DEF Deliver, Goto
    <3>2. UNCHANGED <<position, committed>> /\ consumer = "joined" /\ inHand' # "marking"
      BY <2>1 DEF Deliver, HandlerRuns, Goto
    <3> QED BY <2>b, <3>1, <3>2 DEF Excused
  <2>2. CASE Check
    <3>1. CASE Log[m] = "seen" /\ Return
      <4>1. Accounted(m)'
        BY <3>1 DEF Accounted
      <4> QED BY <2>2, <2>c, <2>m, <3>1, <4>1 DEF Check, HandlerRuns, Return
    <3>2. CASE Goto("upserting")
      BY <2>2, <2>b, <3>2 DEF Check, HandlerRuns, Goto
    <3>3. CASE CallFails("check", "redis") /\ Goto("publishing")
      <4>1. client["redis"] = "up" => Excused(m)'
        BY <2>d, <3>3 DEF CallFails, Excused, StoreFailed
      <4>2. consumer # "left" => client["redis"] = "up"
        BY <2>2, <2>a DEF Check, HandlerRuns, Stores, Clients
      <4> QED BY <2>2, <2>b, <3>3, <4>1, <4>2 DEF Check, HandlerRuns, Goto
    <3> QED BY <2>2, <2>d, <3>1, <3>2, <3>3 DEF Check
  <2>3. CASE Upsert
    <3>1. CASE applied' = applied \cup {InHand} /\ Goto("marking")
      BY <2>3, <2>b, <2>d, <3>1 DEF Upsert, HandlerRuns, Goto
    <3>2. CASE CallFails("upsert", "mongo") /\ Goto("publishing")
      <4>1. client["mongo"] = "up" => Excused(m)'
        BY <2>d, <3>2 DEF CallFails, Excused, StoreFailed
      <4>2. consumer # "left" => client["mongo"] = "up"
        BY <2>3, <2>a DEF Upsert, HandlerRuns, Stores, Clients
      <4> QED BY <2>3, <2>b, <3>2, <4>1, <4>2 DEF Upsert, HandlerRuns, Goto
    <3> QED BY <2>3, <3>1, <3>2 DEF Upsert
  <2>4. CASE Mark
    <3>1. consumer # "left" => m \in applied'
      BY <2>4, <2>d DEF Mark, HandlerRuns, DrainInv
    <3>2. CASE Return
      BY <2>4, <2>c, <2>m, <3>1, <3>2 DEF Mark, HandlerRuns, Return, Accounted
    <3>3. CASE Goto("publishing")
      BY <2>4, <2>b, <3>1, <3>3 DEF Mark, HandlerRuns, Goto, Excused
    <3> QED BY <2>4, <3>2, <3>3 DEF Mark
  <2>5. CASE Publish
    <3>1. consumer # "left" => Excused(m)'
      BY <1>a, <2>5, <2>d DEF Publish, HandlerRuns, DrainInv
    <3>2. consumer # "left" => Recorded(m)'
      <4>1. ProducerGone => ProducerGone'
        BY <2>5 DEF Publish, HandlerRuns, ProducerGone
      <4>2. client["producer"] \in {"up", "closed"}
        BY <2>5, <1>0 DEF Publish, HandlerRuns, TypeInv, TypeOK, JoinInv, OrderInv, Clients
      <4>3. CASE dlq' = dlq \cup {InHand}
        BY <2>d, <4>3 DEF Recorded
      <4>4. CASE ProducerGone
        BY <4>1, <4>4 DEF Recorded
      <4>5. CASE CallFails("publish", "producer")
        BY <2>d, <4>1, <4>2, <4>5 DEF CallFails, Recorded, ProducerGone
      <4> QED BY <2>5, <4>3, <4>4, <4>5 DEF Publish
    <3> QED BY <2>5, <2>c, <2>m, <3>1, <3>2 DEF Publish, HandlerRuns, Return, Accounted, Excused
  <2>6. CASE AutoCommit
    BY <1>b, <2>6 DEF AutoCommit
  <2> QED BY <1>5, <2>1, <2>2, <2>3, <2>4, <2>5, <2>6 DEF HandlerStep
<1>6. CASE Idle \/ UNCHANGED vars
  BY <1>b, <1>6 DEF Idle, vars
<1> QED BY <1>1, <1>2, <1>3, <1>4, <1>5, <1>6 DEF Next

(* Initially no client is connected and nothing is committed.              *)
LEMMA DrainInvInit == Init => JoinInv /\ DrainInv
  BY DEF Init, JoinInv, DrainInv

(* Whatever is closed under a running handler, in whatever order calls     *)
(* fail and signals come, a good event is committed unapplied only after a *)
(* failure of its own on an open store, and is in the dead-letter topic    *)
(* unless publishing failed or the producer was being closed               *)
(* (consumer.init.ts:107-133, consumer.ts:104-148).                        *)
THEOREM LossesAreAccountedFor == Spec => []LossesHaveACause
<1>1. Init => TypeInv /\ OrderInv /\ JoinInv /\ DrainInv
  BY TypeInvInit, OrderInvInit, DrainInvInit
<1>2. TypeInv /\ OrderInv /\ JoinInv /\ DrainInv /\ [Next]_vars
        => (TypeInv /\ OrderInv /\ JoinInv /\ DrainInv)'
  BY TypeInvStep, OrderInvStep, JoinInvStep, DrainInvStep
<1>3. DrainInv => LossesHaveACause
  BY DEF DrainInv, Accounted, Recorded, LossesHaveACause
<1> QED BY <1>1, <1>2, <1>3, PTL DEF Spec

(* A handler is given a message only when every client is connected and    *)
(* the health server is up (consumer.init.ts:56-79).                       *)
THEOREM ServesBeforeConsuming == Spec => []ConsumesOnlyWhenServing
<1>1. Init => TypeInv /\ OrderInv /\ JoinInv
  BY TypeInvInit, OrderInvInit, DrainInvInit
<1>2. TypeInv /\ OrderInv /\ JoinInv /\ [Next]_vars => (TypeInv /\ OrderInv /\ JoinInv)'
  BY TypeInvStep, OrderInvStep, JoinInvStep
<1>3. JoinInv => ConsumesOnlyWhenServing
  BY DEF JoinInv, ConsumesOnlyWhenServing
<1> QED BY <1>1, <1>2, <1>3, PTL DEF Spec

-----------------------------------------------------------------------------
(* Exit codes.  What each stage of the teardown has behind it, that only   *)
(* signals start one, and that without trouble all the time it takes is    *)
(* the grace period's.                                                     *)
Untroubled == \A op \in DOMAIN trouble : trouble[op] = "none"

ExitInv ==
  /\ teardown \in {"producer", "consumer", "grace", "stores"} => server = "closed"
  /\ teardown \in {"consumer", "grace", "stores"} => client["producer"] = "closed"
  /\ teardown # "no" => signals > 0
  /\ waited <= GracePeriod
  /\ Untroubled => elapsed = waited
  /\ exit = "0" => teardown = "stores" /\ \A store \in Stores : client[store] \in {"closed", "failed"}
  /\ exit = "1" => signals > 1 \/ ~Untroubled

(* Initially there is no teardown.                                         *)
LEMMA ExitInvInit == Init => ExitInv
  BY TimingAssumption DEF Init, ExitInv

(* Every step keeps the account of exits.                                  *)
LEMMA ExitInvStep ==
  TypeInv /\ OrderInv /\ JoinInv /\ ExitInv /\ [Next]_vars => ExitInv'
<1> SUFFICES ASSUME TypeInv, OrderInv, JoinInv, ExitInv, [Next]_vars PROVE ExitInv'
  OBVIOUS
<1>0. /\ elapsed \in Nat /\ waited \in Nat /\ signals \in Nat
      /\ client \in [Clients -> {"new", "up", "closed", "failed"}]
      /\ trouble \in [Opening \cup Closing -> {"none", "hangs", "fails"}]
  BY TimingAssumption, BoundsAssumption DEF TypeInv, TypeOK
<1>a. ASSUME NEW op \in Opening \cup Closing, trouble[op] # "none" PROVE ~Untroubled
  BY <1>0, <1>a DEF Untroubled
<1>b. UNCHANGED trouble => (Untroubled' <=> Untroubled)
  BY DEF Untroubled
<1> USE DEF troubleVars, bootVars, teardownVars, processVars, handlerVars, outcomeVars
<1>1. CASE SetupStep
  <2>1. teardown = "no" \/ (UNCHANGED boot /\ UNCHANGED client)
    BY <1>1 DEF SetupStep, LoadOdin, SetUp, Connect, EnsureIndexes, StartExpress,
                StartConsumer, RegisterSignals, OrderInv
  <2>2. exit' = "1" /\ UNCHANGED signals => UNCHANGED processVars \/ ~Untroubled
    BY <1>1, <1>a DEF SetupStep, LoadOdin, SetUp, Connect, EnsureIndexes, StartExpress,
                StartConsumer, RegisterSignals, Exit, Fails, Opening, Clients
  <2>3. /\ teardown = "no" /\ exit = "alive"
        /\ UNCHANGED <<trouble, teardown, elapsed, waited, signals>>
        /\ exit' \in {"alive", "1"}
    BY <1>1 DEF SetupStep, LoadOdin, SetUp, Connect, EnsureIndexes, StartExpress,
                StartConsumer, RegisterSignals, OrderInv, Exit, Runs
  <2> QED BY <1>b, <2>2, <2>3 DEF ExitInv
<1>2. CASE Signal
  <2>1. UNCHANGED <<trouble, client, server, elapsed, waited>>
        /\ exit = "alive" /\ signals' = signals + 1
    BY <1>2 DEF Signal, Runs
  <2>2. \/ exit' = "killed" /\ UNCHANGED teardown
        \/ teardown = "no" /\ teardown' = "server" /\ UNCHANGED exit
        \/ teardown # "no" /\ exit' = "1" /\ UNCHANGED teardown
    BY <1>2 DEF Signal
  <2> QED BY <1>0, <1>b, <2>1, <2>2 DEF ExitInv
<1>3. CASE TeardownStep
  <2>1. CASE StopExpress
    BY <1>b, <2>1 DEF StopExpress, ExitInv, Runs
  <2>2. CASE DisconnectProducer
    <3>1. CASE UNCHANGED processVars /\ client' = [client EXCEPT !["producer"] = "closed"]
      <4>1. client'["producer"] = "closed"
        BY <1>0, <3>1 DEF Clients
      <4> QED BY <1>b, <2>2, <3>1, <4>1 DEF DisconnectProducer, ExitInv, Runs
    <3>2. CASE Fails("close producer") /\ Exit("1") /\ UNCHANGED <<client, teardown>>
      <4>1. ~Untroubled
        BY <1>a, <3>2 DEF Fails, Closing
      <4> QED BY <1>b, <2>2, <3>2, <4>1 DEF DisconnectProducer, ExitInv, Exit
    <3> QED BY <2>2, <3>1, <3>2 DEF DisconnectProducer
  <2>3. CASE DisconnectConsumer
    <3>1. CASE teardown' = "grace" /\ UNCHANGED processVars
      BY <1>b, <2>3, <3>1 DEF DisconnectConsumer, ExitInv, Runs
    <3>2. CASE Fails("leave group") /\ Exit("1") /\ UNCHANGED teardown
      <4>1. ~Untroubled
        BY <1>a, <3>2 DEF Fails, Closing
      <4> QED BY <1>b, <2>3, <3>2, <4>1 DEF DisconnectConsumer, ExitInv, Exit
    <3> QED BY <2>3, <3>1, <3>2 DEF DisconnectConsumer
  <2>4. CASE GraceOver
    BY <1>b, <2>4 DEF GraceOver, ExitInv, Runs
  <2>5. ASSUME NEW store \in Stores, DisconnectStore(store) PROVE ExitInv'
    <3>1. client'["producer"] = client["producer"]
      BY <1>0, <2>5 DEF DisconnectStore, Clients, Stores
    <3> QED BY <1>b, <2>5, <3>1 DEF DisconnectStore, ExitInv, Runs
  <2>6. CASE TeardownCompletes
    <3>1. \A store \in Stores : client[store] # "new" /\ client[store] # "up"
      BY <2>6 DEF TeardownCompletes, OrderInv, JoinInv, Stores
    <3>2. \A store \in Stores : client[store] \in {"closed", "failed"}
      BY <1>0, <3>1 DEF Stores
    <3> QED BY <1>b, <2>6, <3>2 DEF TeardownCompletes, ExitInv, Exit
  <2>7. CASE Timeout
    <3>1. ~Untroubled
      BY <1>0, <2>7, TimingAssumption DEF Timeout, ExitInv
    <3> QED BY <1>b, <2>7, <3>1 DEF Timeout, ExitInv, Exit
  <2> QED BY <1>3, <2>1, <2>2, <2>3, <2>4, <2>5, <2>6, <2>7 DEF TeardownStep
<1>4. CASE Tick
  <2>1. Untroubled => teardown = "grace" /\ waited < GracePeriod
    BY <1>4, <1>a DEF Tick, Waits, Closing, CloseOf
  <2>2. waited' <= GracePeriod
    <3>1. teardown = "grace" => waited < GracePeriod
      BY <1>4 DEF Tick, Waits
    <3> QED BY <1>0, <1>4, <3>1, TimingAssumption DEF Tick, ExitInv
  <2> QED BY <1>0, <1>b, <1>4, <2>1, <2>2 DEF Tick, ExitInv
<1>5. CASE HandlerStep
  BY <1>b, <1>5 DEF HandlerStep, Deliver, Check, Upsert, Mark, Publish, AutoCommit,
                    HandlerRuns, ExitInv
<1>6. CASE Idle \/ UNCHANGED vars
  BY <1>b, <1>6 DEF Idle, vars, ExitInv
<1> QED BY <1>1, <1>2, <1>3, <1>4, <1>5, <1>6 DEF Next

(* All that is known of a pod.                                             *)
LEMMA LifeInv == Spec => [](TypeInv /\ OrderInv /\ JoinInv /\ ExitInv)
<1>1. Init => TypeInv /\ OrderInv /\ JoinInv /\ ExitInv
  BY TypeInvInit, OrderInvInit, DrainInvInit, ExitInvInit
<1>2. TypeInv /\ OrderInv /\ JoinInv /\ ExitInv /\ [Next]_vars
        => (TypeInv /\ OrderInv /\ JoinInv /\ ExitInv)'
  BY TypeInvStep, OrderInvStep, JoinInvStep, ExitInvStep
<1> QED BY <1>1, <1>2, PTL DEF Spec

(* Exit code 0 stands for a complete teardown (consumer.init.ts:103-142,   *)
(* express.ts:53-74, signal.util.ts:38-40).                                *)
THEOREM ExitZeroIsDrained == Spec => []CleanExitIsDrained
<1>1. OrderInv /\ ExitInv => CleanExitIsDrained
  BY DEF OrderInv, ExitInv, CleanExitIsDrained, Clients, Stores
<1> QED BY <1>1, LifeInv, PTL

(* Whatever the timeouts are, as long as the grace period is the shorter,  *)
(* a single signal to a pod whose operations all work ends in exit code 0  *)
(* (signal.util.ts:18,32-40, consumer.init.ts:111).                        *)
THEOREM ExitOneHasACause == Spec => []UntroubledExitIsClean
<1>1. ExitInv => UntroubledExitIsClean
  BY DEF ExitInv, UntroubledExitIsClean, Untroubled
<1> QED BY <1>1, LifeInv, PTL
=============================================================================
