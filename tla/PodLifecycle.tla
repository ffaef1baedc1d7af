---------------------------- MODULE PodLifecycle ----------------------------
(***************************************************************************)
(* The life of one pod: setup() connects the clients and starts consuming, *)
(* a signal starts teardown(), which closes the health server, the Kafka   *)
(* producer and consumer, waits a grace period, closes the stores, and is  *)
(* raced against a timeout.  Meanwhile the handler of a partition goes on  *)
(* with its messages until it finds a client closed.                       *)
(*                                                                         *)
(* FeaturePipeline has the handler among others of its kind; here a        *)
(* message is "good", "seen" (its event has its key already) or "bad" (the *)
(* validator refuses it), and any call of the handler may fail, its client *)
(* being closed or not.  Time is counted in steps of ten seconds from the  *)
(* first signal, and only waiting takes time.                              *)
(***************************************************************************)
EXTENDS Integers, Sequences, FiniteSets

CONSTANTS
  Log,              \* the messages of the partition: "good", "seen" or "bad"
  GracePeriod,      \* gracePeriodMs of teardown (20 s)
  ShutdownTimeout,  \* gracePeriodMs of signalHandler (30 s)
  MaxSignals,       \* bound on the signals the pod receives
  MaxTrouble,       \* bound on the operations that hang or fail
  MaxFailedCalls    \* bound on the handler's calls that fail, the client open

ASSUME LogAssumption == Log \in Seq({"good", "seen", "bad"})
ASSUME TimingAssumption ==
  GracePeriod \in Nat /\ ShutdownTimeout \in Nat /\ GracePeriod < ShutdownTimeout
ASSUME BoundsAssumption ==
  MaxSignals \in Nat /\ MaxTrouble \in Nat /\ MaxFailedCalls \in Nat

Clients == {"producer", "mongo", "redis"}
Stores == Clients \ {"producer"}

(* The operations that may never settle, or throw.                         *)
Opening == {"load odin", "producer", "mongo", "redis", "ensure indexes", "listen", "join group"}
Closing == {"close server", "close producer", "leave group", "close mongo", "close redis"}
CloseOf(store) == IF store = "mongo" THEN "close mongo" ELSE "close redis"

VARIABLES
  trouble,    \* operation -> "none", "hangs" or "fails"
  boot,       \* where setup() is
  client,     \* client -> "new", "up", "closed", or "failed" to close
  server,     \* the health server
  consumer,   \* the pod's membership of the consumer group
  teardown,   \* where teardown() is, "no" before a signal
  elapsed,    \* since the first signal
  waited,     \* of the grace period
  exit,       \* "alive", "killed" by a signal, or the exit code
  signals,
  inHand,     \* the handler: "idle" or the call it awaits
  position,   \* messages handled
  committed,  \* committed offset of the group
  applied, dlq, logOnly, \* offsets by outcome
  failedCalls \* <<offset, call>> of the calls that failed, their client open

troubleVars == <<trouble>>
bootVars == <<boot, client, server, consumer>>
teardownVars == <<teardown, elapsed, waited>>
processVars == <<exit, signals>>
outcomeVars == <<applied, dlq, logOnly, failedCalls>>
handlerVars == <<inHand, position, committed, outcomeVars>>
vars == <<trouble, bootVars, teardownVars, processVars, handlerVars>>

Offsets == 1..Len(Log)
Calls == {"check", "upsert", "mark", "publish"}

TypeOK ==
  /\ trouble \in [Opening \cup Closing -> {"none", "hangs", "fails"}]
  /\ boot \in {"odin", "clients", "listen", "join", "joined", "running"}
  /\ client \in [Clients -> {"new", "up", "closed", "failed"}]
  /\ server \in {"none", "open", "closed"}
  /\ consumer \in {"none", "joined", "left"}
  /\ teardown \in {"no", "server", "producer", "consumer", "grace", "stores"}
  /\ elapsed \in 0..ShutdownTimeout
  /\ waited \in 0..GracePeriod
  /\ exit \in {"alive", "killed", "0", "1"}
  /\ signals \in 0..MaxSignals
  /\ inHand \in {"idle", "checking", "upserting", "marking", "publishing"}
  /\ position \in 0..Len(Log)
  /\ committed \in 0..position
  /\ applied \subseteq Offsets
  /\ dlq \subseteq Offsets
  /\ logOnly \subseteq Offsets
  /\ failedCalls \subseteq Offsets \X Calls

Init ==
  /\ trouble \in [Opening \cup Closing -> {"none", "hangs", "fails"}]
  /\ Cardinality({op \in Opening \cup Closing : trouble[op] # "none"}) <= MaxTrouble
  /\ boot = "odin"
  /\ client = [c \in Clients |-> "new"]
  /\ server = "none"
  /\ consumer = "none"
  /\ teardown = "no"
  /\ elapsed = 0
  /\ waited = 0
  /\ exit = "alive"
  /\ signals = 0
  /\ inHand = "idle"
  /\ position = 0
  /\ committed = 0
  /\ applied = {} /\ dlq = {} /\ logOnly = {}
  /\ failedCalls = {}

Works(op) == trouble[op] = "none"
Fails(op) == trouble[op] = "fails"

Exit(code) == exit' = code /\ UNCHANGED signals
Runs == exit = "alive"
-----------------------------------------------------------------------------
(* setup().  An error of any step exits with code 1.                       *)
SetUp(from, to, op) ==
  /\ Runs
  /\ boot = from
  /\ \/ Works(op) /\ boot' = to /\ UNCHANGED processVars
     \/ Fails(op) /\ Exit("1") /\ UNCHANGED boot
  /\ UNCHANGED <<trouble, teardownVars, handlerVars>>

LoadOdin == SetUp("odin", "clients", "load odin") /\ UNCHANGED <<client, server, consumer>>

(* Promise.all over the connectors: each connects on its own.              *)
Connect(c) ==
  /\ Runs
  /\ boot = "clients"
  /\ client[c] = "new"
  /\ \/ Works(c) /\ client' = [client EXCEPT ![c] = "up"] /\ UNCHANGED processVars
     \/ Fails(c) /\ Exit("1") /\ UNCHANGED client
  /\ UNCHANGED <<trouble, boot, server, consumer, teardownVars, handlerVars>>

(* Mutant: setup goes on with the first connector (Promise.race).          *)
EnsureIndexesEarly ==
  /\ \E c \in Clients : client[c] = "up"
  /\ SetUp("clients", "listen", "ensure indexes")
  /\ UNCHANGED <<client, server, consumer>>

EnsureIndexes ==
  /\ \A c \in Clients : client[c] = "up"
  /\ SetUp("clients", "listen", "ensure indexes")
  /\ UNCHANGED <<client, server, consumer>>

(* startExpress does not wait for the port: a failure of listen() is an    *)
(* event of its own, not an error of setup().                              *)
StartExpress ==
  /\ Runs
  /\ boot = "listen"
  /\ boot' = "join"
  /\ server' = "open"
  /\ UNCHANGED <<trouble, client, consumer, teardownVars, processVars, handlerVars>>

StartConsumer ==
  /\ SetUp("join", "joined", "join group")
  /\ consumer' = IF Works("join group") THEN "joined" ELSE consumer
  /\ UNCHANGED <<client, server>>

(* signalHandler(): only now does a signal start a teardown.               *)
RegisterSignals ==
  /\ Runs
  /\ boot = "joined"
  /\ boot' = "running"
  /\ UNCHANGED <<trouble, client, server, consumer, teardownVars, processVars, handlerVars>>
-----------------------------------------------------------------------------
(* A signal kills a process that has not registered its handler.  The      *)
(* first one after that starts the teardown; a later one returns at once,  *)
(* and the finally block of that return exits with code 1.                 *)
Signal ==
  /\ Runs
  /\ signals < MaxSignals
  /\ signals' = signals + 1
  /\ \/ boot # "running" /\ exit' = "killed" /\ UNCHANGED teardown
     \/ boot = "running" /\ teardown = "no" /\ teardown' = "server" /\ UNCHANGED exit
     \/ teardown # "no" /\ exit' = "1" /\ UNCHANGED teardown
  /\ UNCHANGED <<trouble, bootVars, elapsed, waited, handlerVars>>

(* Mutant: stopExpress resolves without its callback.                      *)
StopExpressUnawaited ==
  /\ Runs /\ teardown = "server"
  /\ server' = "closed"
  /\ Exit("0")
  /\ UNCHANGED <<trouble, boot, client, consumer, teardownVars, handlerVars>>

(* httpServer.close waits for the open connections.                        *)
StopExpress ==
  /\ Runs
  /\ teardown = "server"
  /\ trouble["close server"] # "hangs"
  /\ server' = "closed"
  /\ teardown' = "producer"
  /\ UNCHANGED <<trouble, boot, client, consumer, elapsed, waited, processVars, handlerVars>>

(* Mutant: an error of the producer is logged and the rest goes on, past   *)
(* the consumer.                                                           *)
DisconnectProducerSwallowing ==
  /\ Runs /\ teardown = "producer"
  /\ client' = [client EXCEPT !["producer"] = "closed"]
  /\ teardown' = IF Works("close producer") THEN "consumer" ELSE "grace"
  /\ UNCHANGED <<trouble, boot, server, consumer, elapsed, waited, processVars, handlerVars>>

(* KafkaConnector.disconnect: the producer, then the consumer; an error of *)
(* either ends the teardown and the process.                               *)
DisconnectProducer ==
  /\ Runs
  /\ teardown = "producer"
  /\ \/ /\ Works("close producer")
        /\ client' = [client EXCEPT !["producer"] = "closed"]
        /\ teardown' = "consumer"
        /\ UNCHANGED processVars
     \/ /\ Fails("close producer")
        /\ Exit("1")
        /\ UNCHANGED <<client, teardown>>
  /\ UNCHANGED <<trouble, boot, server, consumer, elapsed, waited, handlerVars>>

(* Leaving the group commits what has been handled; the handler may still  *)
(* be at work.                                                             *)
DisconnectConsumer ==
  /\ Runs
  /\ teardown = "consumer"
  /\ \/ /\ Works("leave group")
        /\ consumer' = "left"
        /\ committed' \in {committed, position}
        /\ teardown' = "grace"
        /\ UNCHANGED processVars
     \/ /\ Fails("leave group")
        /\ Exit("1")
        /\ UNCHANGED <<consumer, committed, teardown>>
  /\ UNCHANGED <<trouble, boot, client, server, elapsed, waited,
                 inHand, position, outcomeVars>>

GraceOver ==
  /\ Runs
  /\ teardown = "grace"
  /\ waited = GracePeriod
  /\ teardown' = "stores"
  /\ UNCHANGED <<trouble, bootVars, elapsed, waited, processVars, handlerVars>>

(* Mutant: all connectors are disconnected together.                       *)
DisconnectStoreAtOnce(store) ==
  /\ Runs
  /\ teardown \in {"producer", "consumer", "grace", "stores"}
  /\ client[store] = "up"
  /\ client' = [client EXCEPT ![store] = "closed"]
  /\ UNCHANGED <<trouble, boot, server, consumer, teardownVars, processVars, handlerVars>>

(* An error of a store is logged and the others go on.                     *)
DisconnectStore(store) ==
  /\ Runs
  /\ teardown = "stores"
  /\ client[store] = "up"
  /\ \/ Works(CloseOf(store)) /\ client' = [client EXCEPT ![store] = "closed"]
     \/ Fails(CloseOf(store)) /\ client' = [client EXCEPT ![store] = "failed"]
  /\ UNCHANGED <<trouble, boot, server, consumer, teardownVars, processVars, handlerVars>>

(* Odin is disconnected, teardown() resolves, and the process exits.       *)
TeardownCompletes ==
  /\ Runs
  /\ teardown = "stores"
  /\ \A store \in Stores : client[store] # "up"
  /\ Exit("0")
  /\ UNCHANGED <<trouble, bootVars, teardownVars, handlerVars>>

(* Mutants: the timeout is only logged, and runs for the grace period.     *)
TimeoutLogged == Runs /\ elapsed = ShutdownTimeout /\ UNCHANGED vars

TimeoutTooShort ==
  /\ Runs /\ elapsed >= GracePeriod
  /\ Exit("1")
  /\ UNCHANGED <<trouble, bootVars, teardownVars, handlerVars>>

(* timeoutPromise wins the race.                                           *)
Timeout ==
  /\ Runs
  /\ elapsed = ShutdownTimeout
  /\ Exit("1")
  /\ UNCHANGED <<trouble, bootVars, teardownVars, handlerVars>>

(* Whether teardown() can only wait.                                       *)
Waits ==
  \/ teardown = "server" /\ trouble["close server"] = "hangs"
  \/ teardown = "producer" /\ trouble["close producer"] = "hangs"
  \/ teardown = "consumer" /\ trouble["leave group"] = "hangs"
  \/ teardown = "grace" /\ waited < GracePeriod
  \/ teardown = "stores" /\ \E s \in Stores : client[s] = "up" /\ trouble[CloseOf(s)] = "hangs"

Tick ==
  /\ Runs
  /\ Waits
  /\ elapsed < ShutdownTimeout
  /\ elapsed' = elapsed + 1
  /\ waited' = IF teardown = "grace" THEN waited + 1 ELSE waited
  /\ UNCHANGED <<trouble, bootVars, teardown, processVars, handlerVars>>
-----------------------------------------------------------------------------
(* The handler of the partition.                                           *)
InHand == position + 1
Goto(call) == inHand' = call /\ UNCHANGED position
Return == inHand' = "idle" /\ position' = position + 1

(* A call fails when its client is not open, and may fail when it is.      *)
CallFails(call, c) ==
  \/ client[c] # "up" /\ UNCHANGED failedCalls
  \/ /\ client[c] = "up"
     /\ Cardinality(failedCalls) < MaxFailedCalls
     /\ failedCalls' = failedCalls \cup {<<InHand, call>>}

HandlerRuns(call) ==
  Runs /\ inHand = call /\ UNCHANGED <<trouble, bootVars, teardownVars, processVars, committed>>

Deliver ==
  /\ consumer = "joined"
  /\ HandlerRuns("idle")
  /\ position < Len(Log)
  /\ Goto(IF Log[InHand] = "bad" THEN "publishing" ELSE "checking")
  /\ UNCHANGED outcomeVars

(* isProcessed: a closed Redis client counts as "not processed", any other *)
(* error ends in the dead-letter topic.                                    *)
Check ==
  /\ HandlerRuns("checking")
  /\ \/ Log[InHand] = "seen" /\ client["redis"] # "closed" /\ Return /\ UNCHANGED failedCalls
     \/ Log[InHand] = "good" /\ Goto("upserting") /\ UNCHANGED failedCalls
     \/ client["redis"] # "up" /\ Goto("upserting") /\ UNCHANGED failedCalls
     \/ CallFails("check", "redis") /\ Goto("publishing")
  /\ UNCHANGED <<applied, dlq, logOnly>>

(* process: an error is dead-lettered and the offset goes on, whether it   *)
(* is that of a closed client or of an update MongoDB did not take.  The   *)
(* update of a failed call may have taken effect or not.                   *)
Upsert ==
  /\ HandlerRuns("upserting")
  /\ \/ /\ client["mongo"] # "closed"
        /\ applied' = applied \cup {InHand}
        /\ Goto("marking")
        /\ UNCHANGED failedCalls
     \/ /\ CallFails("upsert", "mongo")
        /\ applied' \in {applied, applied \cup {InHand}}
        /\ Goto("publishing")
  /\ UNCHANGED <<dlq, logOnly>>

(* markProcessed: a closed Redis client is no error, any other error is    *)
(* dead-lettered.                                                          *)
Mark ==
  /\ HandlerRuns("marking")
  /\ \/ Return /\ UNCHANGED failedCalls
     \/ CallFails("mark", "redis") /\ Goto("publishing")
  /\ UNCHANGED <<applied, dlq, logOnly>>

(* The producer is closing or closed.                                      *)
ProducerGone == teardown = "producer" \/ client["producer"] = "closed"

(* toDLQ logs an error and goes on: that of a producer that is closing or  *)
(* closed, or of a broker.                                                 *)
Publish ==
  /\ HandlerRuns("publishing")
  /\ Return
  /\ \/ /\ client["producer"] = "up"
        /\ dlq' = dlq \cup {InHand}
        /\ UNCHANGED <<logOnly, failedCalls>>
     \/ /\ \/ ProducerGone /\ UNCHANGED failedCalls
           \/ CallFails("publish", "producer")
        /\ logOnly' = logOnly \cup {InHand}
        /\ UNCHANGED dlq
  /\ UNCHANGED applied

(* The auto-commit timer of the consumer.                                  *)
AutoCommit ==
  /\ Runs
  /\ consumer = "joined"
  /\ committed # position
  /\ committed' = position
  /\ UNCHANGED <<trouble, bootVars, teardownVars, processVars,
                 inHand, position, outcomeVars>>

SetupStep ==
  LoadOdin \/ (\E c \in Clients : Connect(c)) \/ EnsureIndexes
  \/ StartExpress \/ StartConsumer \/ RegisterSignals

TeardownStep ==
  StopExpress \/ DisconnectProducer \/ DisconnectConsumer \/ GraceOver
  \/ (\E store \in Stores : DisconnectStore(store)) \/ TeardownCompletes \/ Timeout

HandlerStep == Deliver \/ Check \/ Upsert \/ Mark \/ Publish \/ AutoCommit

(* The process has ended, hangs in an operation, or waits for messages and *)
(* signals.                                                                *)
Idle ==
  /\ \/ ~Runs
     \/ boot # "running" /\ \E op \in Opening : trouble[op] = "hangs"
     \/ boot = "running" /\ teardown = "no"
  /\ UNCHANGED vars

Next == SetupStep \/ Signal \/ TeardownStep \/ Tick \/ HandlerStep \/ Idle

Spec == Init /\ [][Next]_vars

(* The event loop runs every callback and timer; a signal, a message and   *)
(* an operation that hangs are not forced.                                 *)
FairSpec == Spec /\ WF_vars(TeardownStep) /\ WF_vars(Tick)
-----------------------------------------------------------------------------
(* The stores are closed only after the pod has left its consumer group    *)
(* and the grace period has passed, whichever operation of the teardown    *)
(* hangs or fails before (consumer.init.ts:96-133): nothing is delivered   *)
(* to a handler whose stores are gone.                                     *)
StoresOutliveConsumer ==
  \A store \in Stores : client[store] \in {"closed", "failed"} =>
    consumer = "left" /\ waited = GracePeriod

(* A message reaches a handler only when every client is connected, the    *)
(* indexes are in place and the health server is up, in whatever order the *)
(* connectors come up (consumer.init.ts:56-79).                            *)
ConsumesOnlyWhenServing ==
  inHand # "idle" \/ position > 0 =>
    /\ \A c \in Clients : client[c] # "new"
    /\ server # "none"

(* Closing clients under running handlers loses no event: one whose offset *)
(* is committed without its update had a call of its own fail on an open   *)
(* store, which a closed store never stands for, and then has its          *)
(* dead-letter record, unless that call failed too or the producer was     *)
(* being closed before the consumer (consumer.init.ts:107-133,             *)
(* consumer.ts:104-148,173-178, kafka.connector.ts:54-55).                 *)
StoreFailed(o) == \E call \in {"check", "upsert"} : <<o, call>> \in failedCalls

LossesHaveACause ==
  \A o \in 1..committed : Log[o] = "good" /\ o \notin applied =>
    /\ StoreFailed(o)
    /\ o \in dlq \/ <<o, "publish">> \in failedCalls \/ ProducerGone

(* Exit code 0 is given only after a full teardown: the group left, the    *)
(* grace period waited and no store in use (consumer.init.ts:103-142,      *)
(* express.ts:53-74, signal.util.ts:38-40).                                *)
CleanExitIsDrained ==
  exit = "0" =>
    /\ consumer = "left"
    /\ waited = GracePeriod
    /\ server = "closed"
    /\ \A c \in Clients : client[c] \in {"closed", "failed"}

(* The timeout leaves room for the grace period: one signal to a pod whose *)
(* clients close without trouble ends in exit code 0                       *)
(* (signal.util.ts:18,32-40, consumer.init.ts:111).                        *)
UntroubledExitIsClean ==
  exit = "1" => signals > 1 \/ \E op \in DOMAIN trouble : trouble[op] # "none"

(* A signal ends the process, whatever hangs or fails in the teardown      *)
(* (signal.util.ts:32-51).                                                 *)
SignalEndsProcess == signals > 0 ~> exit # "alive"

(* What README.md:63 says of a message on which a step fails: it is        *)
(* forwarded to the dead-letter topic.  A message committed without its    *)
(* update and without a key before has failed at some step.                *)
FailuresAreDeadLettered ==
  \A o \in 1..committed : Log[o] # "seen" /\ o \notin applied => o \in dlq
=============================================================================
