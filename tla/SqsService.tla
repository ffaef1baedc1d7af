------------------------------ MODULE SqsService ------------------------------
(***************************************************************************)
(* The SQS service of the base library (base/src/sqs): queues created with *)
(* their dead-letter queues, a producer that can be closed, and consumers  *)
(* that are subscribed, started and stopped, and that their own error      *)
(* listeners start again.                                                  *)
(*                                                                         *)
(* A consumer of sqs-consumer is abstracted to whether it runs and whether *)
(* a receive call of it is in flight; stopping it waits for neither that   *)
(* call nor the handlers.  A message is the state SQS has it in, with the  *)
(* handlers that hold one of its deliveries.                               *)
(***************************************************************************)
EXTENDS Integers, FiniteSets

CONSTANTS
  Queues,          \* queues given to createQueues and to subscribe
  WithDLQ,         \* those with shouldCreateDLQ
  Messages,        \* messages the application publishes
  Destination,     \* the queue of each message
  MaxReceiveCount, \* of the redrive policy
  MaxReceives,     \* bound: deliveries of one message
  MaxCreates,      \* bound: calls of createQueues
  MaxFaults        \* bound: calls to SQS and heartbeats that fail

ASSUME QueuesAssumption ==
  /\ WithDLQ \subseteq Queues
  /\ Destination \in [Messages -> Queues]
ASSUME BoundsAssumption ==
  /\ MaxReceiveCount \in Nat \ {0}
  /\ MaxReceives \in Nat /\ MaxCreates \in Nat /\ MaxFaults \in Nat
  /\ MaxReceives > MaxReceiveCount

VARIABLES
  up,           \* initializeService has made the client, producer, consumer
  isOpen,       \* Producer.isOpen
  disconnected, \* the client is destroyed
  created,      \* SQS: the stages done for each queue
  making,       \* per queue: the stage createQueues is asking for, or "idle"
  creation,     \* the last call of createQueues: one of Outcomes
  creates,
  urls,         \* queueURLsCache
  consumer,     \* per queue: "none", "resolving", "stopped" or "running"
  asking,       \* queues with a receive call in flight
  pub,          \* per message: how far publishMessage is
  mail,         \* SQS: where the message is
  receives,     \* SQS: ApproximateReceiveCount
  hands,        \* per message: the deliveries a handler is working on
  faults,
  halted,       \* history: stopped, and not started since
  busy,         \* history: queues with a call or a handler at that stop
  launched,     \* history: queues subscribed when startConsumers was called
  admitted      \* history: messages being published when the producer closed

setupVars == <<up, created, making, creation, creates>>
consumerVars == <<consumer, asking, halted, busy, launched>>
mailVars == <<mail, receives, hands>>
producerVars == <<isOpen, pub, admitted>>
vars == <<setupVars, disconnected, urls, consumerVars, mailVars, producerVars, faults>>

Stages == {"queue", "dlq", "attach"}
Waiting == {"visible", "hidden"}

SetupTyped ==
  /\ up \in BOOLEAN
  /\ created \in [Queues -> SUBSET Stages]
  /\ making \in [Queues -> Stages \cup {"idle"}]
  /\ creation \in {"none", "pending", "ok", "failed"}
  /\ creates \in 0..MaxCreates

ConsumersTyped ==
  /\ consumer \in [Queues -> {"none", "resolving", "stopped", "running"}]
  /\ asking \subseteq Queues /\ busy \subseteq Queues /\ launched \subseteq Queues
  /\ halted \in BOOLEAN

MailTyped ==
  /\ mail \in [Messages -> Waiting \cup {"none", "deleted", "dead"}]
  /\ receives \in [Messages -> 0..MaxReceives]
  /\ hands \in [Messages -> SUBSET (1..MaxReceives)]

ProducerTyped ==
  /\ isOpen \in BOOLEAN
  /\ pub \in [Messages -> {"new", "resolving", "sending", "done", "failed"}]
  /\ admitted \subseteq Messages

ClientTyped == disconnected \in BOOLEAN /\ urls \subseteq Queues /\ faults \in 0..MaxFaults

TypeOK == SetupTyped /\ ConsumersTyped /\ MailTyped /\ ProducerTyped /\ ClientTyped

Init ==
  /\ up = FALSE /\ isOpen = FALSE /\ disconnected = FALSE /\ halted = FALSE
  /\ created = [q \in Queues |-> {}]
  /\ making = [q \in Queues |-> "idle"]
  /\ creation = "none" /\ creates = 0
  /\ urls = {} /\ asking = {} /\ busy = {} /\ launched = {} /\ admitted = {}
  /\ consumer = [q \in Queues |-> "none"]
  /\ pub = [m \in Messages |-> "new"]
  /\ mail = [m \in Messages |-> "none"]
  /\ receives = [m \in Messages |-> 0]
  /\ hands = [m \in Messages |-> {}]
  /\ faults = 0

(* A call to SQS or a heartbeat fails; those of a destroyed client may all  *)
(* fail.                                                                   *)
Fault ==
  \/ disconnected /\ UNCHANGED faults
  \/ faults < MaxFaults /\ faults' = faults + 1

Works == UNCHANGED faults
-----------------------------------------------------------------------------
(* initializeService: the client once made is never made again, not even   *)
(* after disconnect().                                                     *)
Initialize ==
  /\ ~up
  /\ up' = TRUE
  /\ isOpen' = TRUE
  /\ UNCHANGED <<created, making, creation, creates, disconnected, urls, consumerVars,
                 mailVars, pub, admitted, faults>>

(* createQueues: for every queue at once the queue, its dead-letter queue  *)
(* and the redrive policy, one after the other.                            *)
CreateQueues ==
  /\ up
  /\ creates < MaxCreates
  /\ \A q \in Queues : making[q] = "idle"
  /\ making' = [q \in Queues |-> "queue"]
  /\ creation' = "pending"
  /\ creates' = creates + 1
  /\ UNCHANGED <<up, created, disconnected, urls, consumerVars, mailVars, producerVars, faults>>

AfterStage(q) ==
  CASE making[q] = "queue" -> IF q \in WithDLQ THEN "dlq" ELSE "idle"
    [] making[q] = "dlq" -> "attach"
    [] making[q] = "attach" -> "idle"

(* Promise.all: the first failure is the outcome, the other queues go on.  *)
Outcome(next) ==
  IF creation = "pending" /\ \A q \in Queues : next[q] = "idle" THEN "ok" ELSE creation

StageDone(q) ==
  /\ making[q] # "idle"
  /\ created' = [created EXCEPT ![q] = @ \cup {making[q]}]
  /\ making' = [making EXCEPT ![q] = AfterStage(q)]
  /\ creation' = Outcome(making')
  /\ Works
  /\ UNCHANGED <<up, creates, disconnected, urls, consumerVars, mailVars, producerVars>>

(* Mutant: attachDLQToSourceQueue logs its error without throwing it.      *)
StageFailsQuietly(q) ==
  /\ making[q] # "idle"
  /\ Fault
  /\ UNCHANGED created
  /\ making' = [making EXCEPT ![q] = "idle"]
  /\ creation' = IF making[q] = "attach" THEN Outcome(making') ELSE "failed"
  /\ UNCHANGED <<up, creates, disconnected, urls, consumerVars, mailVars, producerVars>>

(* A call that fails may have had its effect.                              *)
StageFails(q) ==
  /\ making[q] # "idle"
  /\ Fault
  /\ created' \in {created, [created EXCEPT ![q] = @ \cup {making[q]}]}
  /\ making' = [making EXCEPT ![q] = "idle"]
  /\ creation' = "failed"
  /\ UNCHANGED <<up, creates, disconnected, urls, consumerVars, mailVars, producerVars>>
-----------------------------------------------------------------------------
(* getQueueURL: a name in the cache is answered without a call, and so     *)
(* before anything else runs.                                              *)
Cached(q) == q \in urls
Exists(q) == "queue" \in created[q]

(* subscribe: the consumer is made, not started, once the URL is known.    *)
Subscribe(q) ==
  /\ up
  /\ consumer[q] = "none"
  /\ consumer' = [consumer EXCEPT ![q] = IF Cached(q) THEN "stopped" ELSE "resolving"]
  /\ UNCHANGED <<setupVars, disconnected, urls, asking, halted, busy, launched,
                 mailVars, producerVars, faults>>

(* Mutant: a consumer subscribed after the others is started at once.      *)
SubscribedAndStarted(q) ==
  /\ consumer[q] = "resolving"
  /\ Exists(q) /\ Works
  /\ consumer' = [consumer EXCEPT ![q] = "running"]
  /\ urls' = urls \cup {q}
  /\ UNCHANGED <<setupVars, disconnected, asking, halted, busy, launched, mailVars, producerVars>>

Subscribed(q) ==
  /\ consumer[q] = "resolving"
  /\ \/ /\ Exists(q) /\ Works
        /\ consumer' = [consumer EXCEPT ![q] = "stopped"]
        /\ urls' = urls \cup {q}
     \/ /\ IF Exists(q) THEN Fault ELSE Works
        /\ consumer' = [consumer EXCEPT ![q] = "none"]
        /\ UNCHANGED urls
  /\ UNCHANGED <<setupVars, disconnected, asking, halted, busy, launched, mailVars, producerVars>>

Subscriptions == {q \in Queues : consumer[q] \in {"stopped", "running"}}

(* startConsumers: the subscriptions made so far.                          *)
StartConsumers ==
  /\ up
  /\ consumer' = [q \in Queues |-> IF q \in Subscriptions THEN "running" ELSE consumer[q]]
  /\ halted' = FALSE
  /\ launched' = Subscriptions
  /\ UNCHANGED <<setupVars, disconnected, urls, asking, busy, mailVars, producerVars, faults>>

HasHandlers(q) == \E m \in Messages : Destination[m] = q /\ hands[m] # {}

(* stopConsumers: no consumer asks again; calls and handlers go on.        *)
Stopped ==
  /\ consumer' = [q \in Queues |-> IF q \in Subscriptions THEN "stopped" ELSE consumer[q]]
  /\ halted' = TRUE
  /\ busy' = {q \in Queues : q \in asking \/ HasHandlers(q)}
  /\ launched' = {}
  /\ UNCHANGED asking

StopConsumers ==
  /\ up
  /\ Stopped
  /\ UNCHANGED <<setupVars, disconnected, urls, mailVars, producerVars, faults>>

(* disconnect: stops the consumers, closes the producer and destroys the   *)
(* client.  The awaits in between wait for nothing.                        *)
Publishing == {m \in Messages : pub[m] \in {"resolving", "sending"}}

Disconnect ==
  /\ up
  /\ Stopped
  /\ isOpen' = FALSE
  /\ disconnected' = TRUE
  /\ admitted' = IF disconnected THEN admitted ELSE Publishing
  /\ UNCHANGED <<setupVars, urls, mailVars, pub, faults>>

(* The listeners of "error", "processing_error" and "timeout_error".       *)
Listener(q) ==
  consumer' = [consumer EXCEPT ![q] = IF @ = "stopped" THEN "running" ELSE @]
-----------------------------------------------------------------------------
(* publishMessage: the producer must be open when it is called; the URL is *)
(* looked up after that.                                                   *)
ToSend(m) == pub' = [pub EXCEPT ![m] = IF Cached(Destination[m]) THEN "sending" ELSE "resolving"]

(* Mutant: checkIfOpen is forgotten.                                       *)
PublishUnchecked(m) ==
  /\ up
  /\ pub[m] = "new"
  /\ ToSend(m)
  /\ UNCHANGED <<setupVars, disconnected, urls, consumerVars, mailVars, isOpen, admitted, faults>>

Publish(m) ==
  /\ up /\ isOpen
  /\ pub[m] = "new"
  /\ ToSend(m)
  /\ UNCHANGED <<setupVars, disconnected, urls, consumerVars, mailVars, isOpen, admitted, faults>>

Addressed(m) ==
  /\ pub[m] = "resolving"
  /\ LET q == Destination[m] IN
       \/ /\ Exists(q) /\ Works
          /\ pub' = [pub EXCEPT ![m] = "sending"]
          /\ urls' = urls \cup {q}
       \/ /\ IF Exists(q) THEN Fault ELSE Works
          /\ pub' = [pub EXCEPT ![m] = "failed"]
          /\ UNCHANGED urls
  /\ UNCHANGED <<setupVars, disconnected, consumerVars, mailVars, isOpen, admitted>>

(* A send that fails may have stored the message.                          *)
Sent(m) ==
  /\ pub[m] = "sending"
  /\ \/ Works /\ pub' = [pub EXCEPT ![m] = "done"]
     \/ Fault /\ pub' = [pub EXCEPT ![m] = "failed"]
  /\ mail' \in {[mail EXCEPT ![m] = "visible"]} \cup (IF pub'[m] = "failed" THEN {mail} ELSE {})
  /\ UNCHANGED <<setupVars, disconnected, urls, consumerVars, receives, hands, isOpen, admitted>>
-----------------------------------------------------------------------------
(* The polling of a running consumer.                                      *)
Ask(q) ==
  /\ consumer[q] = "running"
  /\ q \notin asking
  /\ asking' = asking \cup {q}
  /\ UNCHANGED <<setupVars, disconnected, urls, consumer, halted, busy, launched,
                 mailVars, producerVars, faults>>

Answered(q) == asking' = asking \ {q} /\ UNCHANGED <<halted, busy, launched>>

NothingReceived(q) ==
  /\ q \in asking
  /\ Answered(q)
  /\ UNCHANGED <<setupVars, disconnected, urls, consumer, mailVars, producerVars, faults>>

ReceiveFails(q) ==
  /\ q \in asking
  /\ Fault
  /\ Answered(q)
  /\ Listener(q)
  /\ UNCHANGED <<setupVars, disconnected, urls, mailVars, producerVars>>

(* SQS hides a message it delivers, and moves one delivered too often to   *)
(* the dead-letter queue, once there is a redrive policy.                  *)
Redriven(q) == "attach" \in created[q]

Receive(m) ==
  LET q == Destination[m] IN
  /\ q \in asking
  /\ mail[m] = "visible"
  /\ \/ /\ Redriven(q) /\ receives[m] >= MaxReceiveCount
        /\ mail' = [mail EXCEPT ![m] = "dead"]
        /\ UNCHANGED <<receives, hands>>
     \/ /\ ~(Redriven(q) /\ receives[m] >= MaxReceiveCount)
        /\ receives[m] < MaxReceives
        /\ mail' = [mail EXCEPT ![m] = "hidden"]
        /\ receives' = [receives EXCEPT ![m] = @ + 1]
        /\ hands' = [hands EXCEPT ![m] = @ \cup {receives'[m]}]
  /\ Answered(q)
  /\ UNCHANGED <<setupVars, disconnected, urls, consumer, producerVars, faults>>

(* Whether delivery d is the last one, whose receipt handle is good.       *)
Current(m, d) == mail[m] = "hidden" /\ receives[m] = d
DeleteOutcomes(m, d) ==
  (IF mail[m] \in Waiting THEN {"deleted"} ELSE {}) \cup (IF Current(m, d) THEN {} ELSE {mail[m]})
Settle(m, states) == \E state \in states : mail' = [mail EXCEPT ![m] = state]
Finished(m, d) == hands' = [hands EXCEPT ![m] = @ \ {d}] /\ UNCHANGED receives

(* A handler returns: the message is deleted (shouldDeleteMessages,        *)
(* alwaysAcknowledge).  With an old receipt handle that may do nothing, and *)
(* a call that fails is an "error".                                        *)
HandlerReturns(m, d) ==
  /\ d \in hands[m]
  /\ Finished(m, d)
  /\ \/ /\ Works
        /\ UNCHANGED consumer
        /\ Settle(m, DeleteOutcomes(m, d))
     \/ /\ Fault
        /\ Listener(Destination[m])
        /\ UNCHANGED mail
  /\ UNCHANGED <<setupVars, disconnected, urls, asking, halted, busy, launched, producerVars>>

(* It throws or times out: the message is shown again at once       *)
(* (terminateVisibilityTimeout), or when its timeout is over.              *)
HandlerThrows(m, d) ==
  /\ d \in hands[m]
  /\ Works
  /\ Finished(m, d)
  /\ Listener(Destination[m])
  /\ Settle(m, IF Current(m, d) THEN {"visible", "hidden"} ELSE {mail[m]})
  /\ UNCHANGED <<setupVars, disconnected, urls, asking, halted, busy, launched, producerVars>>

(* The visibility timeout is over; under a handler, which extends it every *)
(* heartbeatInterval, only after a failure.                                *)
VisibilityOver(m) ==
  /\ mail[m] = "hidden"
  /\ IF receives[m] \in hands[m] THEN Fault ELSE Works
  /\ mail' = [mail EXCEPT ![m] = "visible"]
  /\ UNCHANGED <<setupVars, disconnected, urls, consumerVars, receives, hands, producerVars>>
-----------------------------------------------------------------------------
QueueSteps(q) ==
  \/ StageDone(q) \/ StageFails(q)
  \/ Subscribe(q) \/ Subscribed(q)
  \/ Ask(q) \/ NothingReceived(q) \/ ReceiveFails(q)

MessageSteps(m) ==
  \/ Publish(m) \/ Addressed(m) \/ Sent(m)
  \/ Receive(m) \/ VisibilityOver(m)
  \/ \E d \in hands[m] : HandlerReturns(m, d) \/ HandlerThrows(m, d)

Next ==
  \/ Initialize \/ CreateQueues \/ StartConsumers \/ StopConsumers \/ Disconnect
  \/ \E q \in Queues : QueueSteps(q)
  \/ \E m \in Messages : MessageSteps(m)

Spec == Init /\ [][Next]_vars

(* Calls to SQS are answered, handlers end, a running consumer asks again, *)
(* and SQS delivers in the end a message that is asked for again and again. *)
FairSpec ==
  /\ Spec
  /\ \A q \in Queues : WF_vars(StageDone(q)) /\ WF_vars(Ask(q))
  /\ \A m \in Messages :
       /\ SF_vars(Receive(m))
       /\ WF_vars(mail[m] = "hidden" /\ receives[m] \notin hands[m] /\ VisibilityOver(m))
       /\ \A d \in 1..MaxReceives : WF_vars(HandlerReturns(m, d) \/ HandlerThrows(m, d))
-----------------------------------------------------------------------------
(* stopConsumers "stops all the consumers" (Consumer.ts:194-197): a queue  *)
(* without a call or a handler in flight at that moment is not asked again *)
(* before startConsumers.  The others may be, for their listeners start    *)
(* the consumer of whatever fails after the stop, disconnect() included.   *)
IdleStopsAreFinal ==
  halted => \A q \in Queues : consumer[q] = "running" => q \in busy

(* A closed producer sends nothing (Producer.ts:124-127) but the messages  *)
(* whose publishMessage had passed checkIfOpen and was waiting when it was *)
(* closed.                                                                 *)
SendsWereAdmitted ==
  disconnected => {m \in Messages : pub[m] = "sending"} \subseteq admitted

(* Once createQueues has succeeded, a message in a queue with a dead-letter *)
(* queue whose consumer has been started is deleted or dead-lettered,      *)
(* however often its handler throws and whatever call fails on the way,    *)
(* unless the consumers are stopped (Client.ts:180, "After maxReceiveCount *)
(* reties send message to DLQ").                                           *)
EveryMessageSettles ==
  \A m \in Messages :
    LET q == Destination[m] IN
    q \in WithDLQ /\ creation = "ok" /\ mail[m] \in Waiting /\ q \in launched
      ~> mail[m] \in {"deleted", "dead"} \/ q \notin launched \/ disconnected
=============================================================================
