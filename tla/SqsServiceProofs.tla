--------------------------- MODULE SqsServiceProofs ---------------------------
(***************************************************************************)
(* Proofs about SqsService, for any queues, messages, redrive policy and   *)
(* number of faults.                                                       *)
(***************************************************************************)
EXTENDS SqsService, TLAPS

(* The initial state is well typed.                                        *)
LEMMA InitTyped == Init => TypeOK
<1> SUFFICES ASSUME Init PROVE TypeOK
  OBVIOUS
<1>1. SetupTyped
  <2>1. created \in [Queues -> SUBSET Stages] BY DEF Init
  <2>2. making \in [Queues -> Stages \cup {"idle"}] BY DEF Init
  <2>3. creates \in 0..MaxCreates BY BoundsAssumption DEF Init
  <2>4. QED BY <2>1, <2>2, <2>3 DEF Init, SetupTyped
<1>2. ConsumersTyped BY DEF Init, ConsumersTyped
<1>3. MailTyped
  <2>1. receives \in [Messages -> 0..MaxReceives] BY BoundsAssumption DEF Init
  <2>2. hands \in [Messages -> SUBSET (1..MaxReceives)] BY DEF Init
  <2>3. mail \in [Messages -> Waiting \cup {"none", "deleted", "dead"}] BY DEF Init, Waiting
  <2>4. QED BY <2>1, <2>2, <2>3 DEF MailTyped
<1>4. ProducerTyped BY DEF Init, ProducerTyped
<1>5. ClientTyped
  <2>1. faults \in 0..MaxFaults BY BoundsAssumption DEF Init
  <2>2. disconnected \in BOOLEAN /\ urls \subseteq Queues BY DEF Init
  <2>3. QED BY <2>1, <2>2 DEF ClientTyped
<1>6. QED BY <1>1, <1>2, <1>3, <1>4, <1>5 DEF TypeOK

(* Every step keeps the queues SQS has and createQueues makes well typed.*)
LEMMA SetupStayTyped == TypeOK /\ [Next]_vars => SetupTyped'
<1> SUFFICES ASSUME TypeOK, [Next]_vars PROVE SetupTyped'
  OBVIOUS
<1>a. SetupTyped BY DEF TypeOK
<1>1. CASE Initialize
  BY <1>1, <1>a, BoundsAssumption DEF SetupTyped, setupVars, consumerVars, mailVars,
      producerVars, Stages, Initialize
<1>2. CASE CreateQueues
  BY <1>2, <1>a, BoundsAssumption DEF SetupTyped, setupVars, consumerVars, mailVars,
      producerVars, Stages, CreateQueues
<1>3. CASE StartConsumers
  BY <1>3, <1>a, BoundsAssumption DEF SetupTyped, setupVars, consumerVars, mailVars,
      producerVars, Stages, StartConsumers, Subscriptions
<1>4. CASE StopConsumers
  BY <1>4, <1>a, BoundsAssumption DEF SetupTyped, setupVars, consumerVars, mailVars,
      producerVars, Stages, StopConsumers, Stopped, Subscriptions, HasHandlers
<1>5. CASE Disconnect
  BY <1>5, <1>a, BoundsAssumption DEF SetupTyped, setupVars, consumerVars, mailVars,
      producerVars, Stages, Disconnect, Stopped, Subscriptions, Publishing, HasHandlers
<1>6. CASE \E q \in Queues : StageDone(q)
  BY <1>6, <1>a, BoundsAssumption DEF SetupTyped, setupVars, consumerVars, mailVars,
      producerVars, Stages, StageDone, AfterStage, Outcome, Works
<1>7. CASE \E q \in Queues : StageFails(q)
  BY <1>7, <1>a, BoundsAssumption DEF SetupTyped, setupVars, consumerVars, mailVars,
      producerVars, Stages, StageFails, Fault
<1>8. CASE \E q \in Queues : Subscribe(q)
  BY <1>8, <1>a, BoundsAssumption DEF SetupTyped, setupVars, consumerVars, mailVars,
      producerVars, Stages, Subscribe, Cached
<1>9. CASE \E q \in Queues : Subscribed(q)
  BY <1>9, <1>a, BoundsAssumption DEF SetupTyped, setupVars, consumerVars, mailVars,
      producerVars, Stages, Subscribed, Exists, Works, Fault
<1>10. CASE \E q \in Queues : Ask(q)
  BY <1>10, <1>a, BoundsAssumption DEF SetupTyped, setupVars, consumerVars, mailVars,
      producerVars, Stages, Ask
<1>11. CASE \E q \in Queues : NothingReceived(q)
  BY <1>11, <1>a, BoundsAssumption DEF SetupTyped, setupVars, consumerVars, mailVars,
      producerVars, Stages, NothingReceived, Answered
<1>12. CASE \E q \in Queues : ReceiveFails(q)
  BY <1>12, <1>a, BoundsAssumption DEF SetupTyped, setupVars, consumerVars, mailVars,
      producerVars, Stages, ReceiveFails, Answered, Listener, Fault
<1>13. CASE \E m \in Messages : Publish(m)
  BY <1>13, <1>a, BoundsAssumption DEF SetupTyped, setupVars, consumerVars, mailVars,
      producerVars, Stages, Publish, ToSend, Cached
<1>14. CASE \E m \in Messages : Addressed(m)
  BY <1>14, <1>a, BoundsAssumption DEF SetupTyped, setupVars, consumerVars, mailVars,
      producerVars, Stages, Addressed, Exists, Works, Fault
<1>15. CASE \E m \in Messages : Sent(m)
  BY <1>15, <1>a, BoundsAssumption DEF SetupTyped, setupVars, consumerVars, mailVars,
      producerVars, Stages, Sent, Works, Fault
<1>16. CASE \E m \in Messages : Receive(m)
  BY <1>16, <1>a, BoundsAssumption DEF SetupTyped, setupVars, consumerVars, mailVars,
      producerVars, Stages, Receive, Redriven, Answered
<1>17. CASE \E m \in Messages : VisibilityOver(m)
  BY <1>17, <1>a, BoundsAssumption DEF SetupTyped, setupVars, consumerVars, mailVars,
      producerVars, Stages, VisibilityOver, Works, Fault
<1>18. CASE \E m \in Messages : \E d \in hands[m] : HandlerReturns(m, d)
  BY <1>18, <1>a, BoundsAssumption DEF SetupTyped, setupVars, consumerVars, mailVars,
      producerVars, Stages, HandlerReturns, Finished, Works, Fault, Settle,
      DeleteOutcomes, Listener, Current
<1>19. CASE \E m \in Messages : \E d \in hands[m] : HandlerThrows(m, d)
  BY <1>19, <1>a, BoundsAssumption DEF SetupTyped, setupVars, consumerVars, mailVars,
      producerVars, Stages, HandlerThrows, Finished, Works, Listener, Settle, Current
<1>20. CASE UNCHANGED vars
  BY <1>20, <1>a, BoundsAssumption DEF SetupTyped, setupVars, consumerVars, mailVars,
      producerVars, Stages, vars
<1>21. QED
  BY <1>1, <1>2, <1>3, <1>4, <1>5, <1>6, <1>7, <1>8, <1>9, <1>10, <1>11, <1>12, <1>13,
      <1>14, <1>15, <1>16, <1>17, <1>18, <1>19, <1>20 DEF Next, QueueSteps, MessageSteps

(* Every step keeps the consumers and their polling well typed.          *)
LEMMA ConsumersStayTyped == TypeOK /\ [Next]_vars => ConsumersTyped'
<1> SUFFICES ASSUME TypeOK, [Next]_vars PROVE ConsumersTyped'
  OBVIOUS
<1>a. ConsumersTyped BY DEF TypeOK
<1>1. CASE Initialize
  BY <1>1, <1>a DEF ConsumersTyped, setupVars, consumerVars, mailVars, producerVars,
      Initialize
<1>2. CASE CreateQueues
  BY <1>2, <1>a DEF ConsumersTyped, setupVars, consumerVars, mailVars, producerVars,
      CreateQueues
<1>3. CASE StartConsumers
  BY <1>3, <1>a DEF ConsumersTyped, setupVars, consumerVars, mailVars, producerVars,
      StartConsumers, Subscriptions
<1>4. CASE StopConsumers
  BY <1>4, <1>a DEF ConsumersTyped, setupVars, consumerVars, mailVars, producerVars,
      StopConsumers, Stopped, Subscriptions, HasHandlers
<1>5. CASE Disconnect
  BY <1>5, <1>a DEF ConsumersTyped, setupVars, consumerVars, mailVars, producerVars,
      Disconnect, Stopped, Subscriptions, Publishing, HasHandlers
<1>6. CASE \E q \in Queues : StageDone(q)
  BY <1>6, <1>a DEF ConsumersTyped, setupVars, consumerVars, mailVars, producerVars,
      StageDone, AfterStage, Outcome, Works
<1>7. CASE \E q \in Queues : StageFails(q)
  BY <1>7, <1>a DEF ConsumersTyped, setupVars, consumerVars, mailVars, producerVars,
      StageFails, Fault
<1>8. CASE \E q \in Queues : Subscribe(q)
  BY <1>8, <1>a DEF ConsumersTyped, setupVars, consumerVars, mailVars, producerVars,
      Subscribe, Cached
<1>9. CASE \E q \in Queues : Subscribed(q)
  BY <1>9, <1>a DEF ConsumersTyped, setupVars, consumerVars, mailVars, producerVars,
      Subscribed, Exists, Works, Fault
<1>10. CASE \E q \in Queues : Ask(q)
  BY <1>10, <1>a DEF ConsumersTyped, setupVars, consumerVars, mailVars, producerVars, Ask
<1>11. CASE \E q \in Queues : NothingReceived(q)
  BY <1>11, <1>a DEF ConsumersTyped, setupVars, consumerVars, mailVars, producerVars,
      NothingReceived, Answered
<1>12. CASE \E q \in Queues : ReceiveFails(q)
  BY <1>12, <1>a DEF ConsumersTyped, setupVars, consumerVars, mailVars, producerVars,
      ReceiveFails, Answered, Listener, Fault
<1>13. CASE \E m \in Messages : Publish(m)
  BY <1>13, <1>a DEF ConsumersTyped, setupVars, consumerVars, mailVars, producerVars,
      Publish, ToSend, Cached
<1>14. CASE \E m \in Messages : Addressed(m)
  BY <1>14, <1>a DEF ConsumersTyped, setupVars, consumerVars, mailVars, producerVars,
      Addressed, Exists, Works, Fault
<1>15. CASE \E m \in Messages : Sent(m)
  BY <1>15, <1>a DEF ConsumersTyped, setupVars, consumerVars, mailVars, producerVars,
      Sent, Works, Fault
<1>16. CASE \E m \in Messages : Receive(m)
  BY <1>16, <1>a DEF ConsumersTyped, setupVars, consumerVars, mailVars, producerVars,
      Receive, Redriven, Answered
<1>17. CASE \E m \in Messages : VisibilityOver(m)
  BY <1>17, <1>a DEF ConsumersTyped, setupVars, consumerVars, mailVars, producerVars,
      VisibilityOver, Works, Fault
<1>18. CASE \E m \in Messages : \E d \in hands[m] : HandlerReturns(m, d)
  BY <1>18, <1>a DEF ConsumersTyped, setupVars, consumerVars, mailVars, producerVars,
      HandlerReturns, Finished, Works, Fault, Settle, DeleteOutcomes, Listener, Current
<1>19. CASE \E m \in Messages : \E d \in hands[m] : HandlerThrows(m, d)
  BY <1>19, <1>a DEF ConsumersTyped, setupVars, consumerVars, mailVars, producerVars,
      HandlerThrows, Finished, Works, Listener, Settle, Current
<1>20. CASE UNCHANGED vars
  BY <1>20, <1>a DEF ConsumersTyped, setupVars, consumerVars, mailVars, producerVars, vars
<1>21. QED
  BY <1>1, <1>2, <1>3, <1>4, <1>5, <1>6, <1>7, <1>8, <1>9, <1>10, <1>11, <1>12, <1>13,
      <1>14, <1>15, <1>16, <1>17, <1>18, <1>19, <1>20 DEF Next, QueueSteps, MessageSteps

(* Every step keeps the messages and their deliveries well typed.        *)
LEMMA MailStayTyped == TypeOK /\ [Next]_vars => MailTyped'
<1> SUFFICES ASSUME TypeOK, [Next]_vars PROVE MailTyped'
  OBVIOUS
<1>a. MailTyped BY DEF TypeOK
<1>1. CASE Initialize
  BY <1>1, <1>a, BoundsAssumption DEF MailTyped, setupVars, consumerVars, mailVars,
      producerVars, Waiting, Initialize
<1>2. CASE CreateQueues
  BY <1>2, <1>a, BoundsAssumption DEF MailTyped, setupVars, consumerVars, mailVars,
      producerVars, Waiting, CreateQueues
<1>3. CASE StartConsumers
  BY <1>3, <1>a, BoundsAssumption DEF MailTyped, setupVars, consumerVars, mailVars,
      producerVars, Waiting, StartConsumers, Subscriptions
<1>4. CASE StopConsumers
  BY <1>4, <1>a, BoundsAssumption DEF MailTyped, setupVars, consumerVars, mailVars,
      producerVars, Waiting, StopConsumers, Stopped, Subscriptions, HasHandlers
<1>5. CASE Disconnect
  BY <1>5, <1>a, BoundsAssumption DEF MailTyped, setupVars, consumerVars, mailVars,
      producerVars, Waiting, Disconnect, Stopped, Subscriptions, Publishing, HasHandlers
<1>6. CASE \E q \in Queues : StageDone(q)
  BY <1>6, <1>a, BoundsAssumption DEF MailTyped, setupVars, consumerVars, mailVars,
      producerVars, Waiting, StageDone, AfterStage, Outcome, Works
<1>7. CASE \E q \in Queues : StageFails(q)
  BY <1>7, <1>a, BoundsAssumption DEF MailTyped, setupVars, consumerVars, mailVars,
      producerVars, Waiting, StageFails, Fault
<1>8. CASE \E q \in Queues : Subscribe(q)
  BY <1>8, <1>a, BoundsAssumption DEF MailTyped, setupVars, consumerVars, mailVars,
      producerVars, Waiting, Subscribe, Cached
<1>9. CASE \E q \in Queues : Subscribed(q)
  BY <1>9, <1>a, BoundsAssumption DEF MailTyped, setupVars, consumerVars, mailVars,
      producerVars, Waiting, Subscribed, Exists, Works, Fault
<1>10. CASE \E q \in Queues : Ask(q)
  BY <1>10, <1>a, BoundsAssumption DEF MailTyped, setupVars, consumerVars, mailVars,
      producerVars, Waiting, Ask
<1>11. CASE \E q \in Queues : NothingReceived(q)
  BY <1>11, <1>a, BoundsAssumption DEF MailTyped, setupVars, consumerVars, mailVars,
      producerVars, Waiting, NothingReceived, Answered
<1>12. CASE \E q \in Queues : ReceiveFails(q)
  BY <1>12, <1>a, BoundsAssumption DEF MailTyped, setupVars, consumerVars, mailVars,
      producerVars, Waiting, ReceiveFails, Answered, Listener, Fault
<1>13. CASE \E m \in Messages : Publish(m)
  BY <1>13, <1>a, BoundsAssumption DEF MailTyped, setupVars, consumerVars, mailVars,
      producerVars, Waiting, Publish, ToSend, Cached
<1>14. CASE \E m \in Messages : Addressed(m)
  BY <1>14, <1>a, BoundsAssumption DEF MailTyped, setupVars, consumerVars, mailVars,
      producerVars, Waiting, Addressed, Exists, Works, Fault
<1>15. CASE \E m \in Messages : Sent(m)
  BY <1>15, <1>a, BoundsAssumption DEF MailTyped, setupVars, consumerVars, mailVars,
      producerVars, Waiting, Sent, Works, Fault
<1>16. CASE \E m \in Messages : Receive(m)
  BY <1>16, <1>a, BoundsAssumption DEF MailTyped, setupVars, consumerVars, mailVars,
      producerVars, Waiting, Receive, Redriven, Answered
<1>17. CASE \E m \in Messages : VisibilityOver(m)
  BY <1>17, <1>a, BoundsAssumption DEF MailTyped, setupVars, consumerVars, mailVars,
      producerVars, Waiting, VisibilityOver, Works, Fault
<1>18. CASE \E m \in Messages : \E d \in hands[m] : HandlerReturns(m, d)
  BY <1>18, <1>a, BoundsAssumption DEF MailTyped, setupVars, consumerVars, mailVars,
      producerVars, Waiting, HandlerReturns, Finished, Works, Fault, Settle,
      DeleteOutcomes, Listener, Current
<1>19. CASE \E m \in Messages : \E d \in hands[m] : HandlerThrows(m, d)
  BY <1>19, <1>a, BoundsAssumption DEF MailTyped, setupVars, consumerVars, mailVars,
      producerVars, Waiting, HandlerThrows, Finished, Works, Listener, Settle, Current
<1>20. CASE UNCHANGED vars
  BY <1>20, <1>a, BoundsAssumption DEF MailTyped, setupVars, consumerVars, mailVars,
      producerVars, Waiting, vars
<1>21. QED
  BY <1>1, <1>2, <1>3, <1>4, <1>5, <1>6, <1>7, <1>8, <1>9, <1>10, <1>11, <1>12, <1>13,
      <1>14, <1>15, <1>16, <1>17, <1>18, <1>19, <1>20 DEF Next, QueueSteps, MessageSteps

(* Every step keeps the producer and its messages well typed.            *)
LEMMA ProducerStayTyped == TypeOK /\ [Next]_vars => ProducerTyped'
<1> SUFFICES ASSUME TypeOK, [Next]_vars PROVE ProducerTyped'
  OBVIOUS
<1>a. ProducerTyped BY DEF TypeOK
<1>1. CASE Initialize
  BY <1>1, <1>a DEF ProducerTyped, setupVars, consumerVars, mailVars, producerVars,
      Initialize
<1>2. CASE CreateQueues
  BY <1>2, <1>a DEF ProducerTyped, setupVars, consumerVars, mailVars, producerVars,
      CreateQueues
<1>3. CASE StartConsumers
  BY <1>3, <1>a DEF ProducerTyped, setupVars, consumerVars, mailVars, producerVars,
      StartConsumers, Subscriptions
<1>4. CASE StopConsumers
  BY <1>4, <1>a DEF ProducerTyped, setupVars, consumerVars, mailVars, producerVars,
      StopConsumers, Stopped, Subscriptions, HasHandlers
<1>5. CASE Disconnect
  BY <1>5, <1>a DEF ProducerTyped, setupVars, consumerVars, mailVars, producerVars,
      Disconnect, Stopped, Subscriptions, Publishing, HasHandlers
<1>6. CASE \E q \in Queues : StageDone(q)
  BY <1>6, <1>a DEF ProducerTyped, setupVars, consumerVars, mailVars, producerVars,
      StageDone, AfterStage, Outcome, Works
<1>7. CASE \E q \in Queues : StageFails(q)
  BY <1>7, <1>a DEF ProducerTyped, setupVars, consumerVars, mailVars, producerVars,
      StageFails, Fault
<1>8. CASE \E q \in Queues : Subscribe(q)
  BY <1>8, <1>a DEF ProducerTyped, setupVars, consumerVars, mailVars, producerVars,
      Subscribe, Cached
<1>9. CASE \E q \in Queues : Subscribed(q)
  BY <1>9, <1>a DEF ProducerTyped, setupVars, consumerVars, mailVars, producerVars,
      Subscribed, Exists, Works, Fault
<1>10. CASE \E q \in Queues : Ask(q)
  BY <1>10, <1>a DEF ProducerTyped, setupVars, consumerVars, mailVars, producerVars, Ask
<1>11. CASE \E q \in Queues : NothingReceived(q)
  BY <1>11, <1>a DEF ProducerTyped, setupVars, consumerVars, mailVars, producerVars,
      NothingReceived, Answered
<1>12. CASE \E q \in Queues : ReceiveFails(q)
  BY <1>12, <1>a DEF ProducerTyped, setupVars, consumerVars, mailVars, producerVars,
      ReceiveFails, Answered, Listener, Fault
<1>13. CASE \E m \in Messages : Publish(m)
  BY <1>13, <1>a DEF ProducerTyped, setupVars, consumerVars, mailVars, producerVars,
      Publish, ToSend, Cached
<1>14. CASE \E m \in Messages : Addressed(m)
  BY <1>14, <1>a DEF ProducerTyped, setupVars, consumerVars, mailVars, producerVars,
      Addressed, Exists, Works, Fault
<1>15. CASE \E m \in Messages : Sent(m)
  BY <1>15, <1>a DEF ProducerTyped, setupVars, consumerVars, mailVars, producerVars,
      Sent, Works, Fault
<1>16. CASE \E m \in Messages : Receive(m)
  BY <1>16, <1>a DEF ProducerTyped, setupVars, consumerVars, mailVars, producerVars,
      Receive, Redriven, Answered
<1>17. CASE \E m \in Messages : VisibilityOver(m)
  BY <1>17, <1>a DEF ProducerTyped, setupVars, consumerVars, mailVars, producerVars,
      VisibilityOver, Works, Fault
<1>18. CASE \E m \in Messages : \E d \in hands[m] : HandlerReturns(m, d)
  BY <1>18, <1>a DEF ProducerTyped, setupVars, consumerVars, mailVars, producerVars,
      HandlerReturns, Finished, Works, Fault, Settle, DeleteOutcomes, Listener, Current
<1>19. CASE \E m \in Messages : \E d \in hands[m] : HandlerThrows(m, d)
  BY <1>19, <1>a DEF ProducerTyped, setupVars, consumerVars, mailVars, producerVars,
      HandlerThrows, Finished, Works, Listener, Settle, Current
<1>20. CASE UNCHANGED vars
  BY <1>20, <1>a DEF ProducerTyped, setupVars, consumerVars, mailVars, producerVars, vars
<1>21. QED
  BY <1>1, <1>2, <1>3, <1>4, <1>5, <1>6, <1>7, <1>8, <1>9, <1>10, <1>11, <1>12, <1>13,
      <1>14, <1>15, <1>16, <1>17, <1>18, <1>19, <1>20 DEF Next, QueueSteps, MessageSteps

(* Every step keeps the client, its cache and the faults well typed.     *)
LEMMA ClientStayTyped == TypeOK /\ [Next]_vars => ClientTyped'
<1> SUFFICES ASSUME TypeOK, [Next]_vars PROVE ClientTyped'
  OBVIOUS
<1>a. ClientTyped BY DEF TypeOK
<1>1. CASE Initialize
  BY <1>1, <1>a, BoundsAssumption DEF ClientTyped, setupVars, consumerVars, mailVars,
      producerVars, Initialize
<1>2. CASE CreateQueues
  BY <1>2, <1>a, BoundsAssumption DEF ClientTyped, setupVars, consumerVars, mailVars,
      producerVars, CreateQueues
<1>3. CASE StartConsumers
  BY <1>3, <1>a, BoundsAssumption DEF ClientTyped, setupVars, consumerVars, mailVars,
      producerVars, StartConsumers, Subscriptions
<1>4. CASE StopConsumers
  BY <1>4, <1>a, BoundsAssumption DEF ClientTyped, setupVars, consumerVars, mailVars,
      producerVars, StopConsumers, Stopped, Subscriptions, HasHandlers
<1>5. CASE Disconnect
  BY <1>5, <1>a, BoundsAssumption DEF ClientTyped, setupVars, consumerVars, mailVars,
      producerVars, Disconnect, Stopped, Subscriptions, Publishing, HasHandlers
<1>6. CASE \E q \in Queues : StageDone(q)
  BY <1>6, <1>a, BoundsAssumption DEF ClientTyped, setupVars, consumerVars, mailVars,
      producerVars, StageDone, AfterStage, Outcome, Works
<1>7. CASE \E q \in Queues : StageFails(q)
  BY <1>7, <1>a, BoundsAssumption DEF ClientTyped, setupVars, consumerVars, mailVars,
      producerVars, StageFails, Fault
<1>8. CASE \E q \in Queues : Subscribe(q)
  BY <1>8, <1>a, BoundsAssumption DEF ClientTyped, setupVars, consumerVars, mailVars,
      producerVars, Subscribe, Cached
<1>9. CASE \E q \in Queues : Subscribed(q)
  BY <1>9, <1>a, BoundsAssumption DEF ClientTyped, setupVars, consumerVars, mailVars,
      producerVars, Subscribed, Exists, Works, Fault
<1>10. CASE \E q \in Queues : Ask(q)
  BY <1>10, <1>a, BoundsAssumption DEF ClientTyped, setupVars, consumerVars, mailVars,
      producerVars, Ask
<1>11. CASE \E q \in Queues : NothingReceived(q)
  BY <1>11, <1>a, BoundsAssumption DEF ClientTyped, setupVars, consumerVars, mailVars,
      producerVars, NothingReceived, Answered
<1>12. CASE \E q \in Queues : ReceiveFails(q)
  BY <1>12, <1>a, BoundsAssumption DEF ClientTyped, setupVars, consumerVars, mailVars,
      producerVars, ReceiveFails, Answered, Listener, Fault
<1>13. CASE \E m \in Messages : Publish(m)
  BY <1>13, <1>a, BoundsAssumption DEF ClientTyped, setupVars, consumerVars, mailVars,
      producerVars, Publish, ToSend, Cached
<1>14. CASE \E m \in Messages : Addressed(m)
  BY <1>14, <1>a, BoundsAssumption, QueuesAssumption DEF ClientTyped, setupVars,
      consumerVars, mailVars, producerVars, Addressed, Exists, Works, Fault
<1>15. CASE \E m \in Messages : Sent(m)
  BY <1>15, <1>a, BoundsAssumption DEF ClientTyped, setupVars, consumerVars, mailVars,
      producerVars, Sent, Works, Fault
<1>16. CASE \E m \in Messages : Receive(m)
  BY <1>16, <1>a, BoundsAssumption DEF ClientTyped, setupVars, consumerVars, mailVars,
      producerVars, Receive, Redriven, Answered
<1>17. CASE \E m \in Messages : VisibilityOver(m)
  BY <1>17, <1>a, BoundsAssumption DEF ClientTyped, setupVars, consumerVars, mailVars,
      producerVars, VisibilityOver, Works, Fault
<1>18. CASE \E m \in Messages : \E d \in hands[m] : HandlerReturns(m, d)
  BY <1>18, <1>a, BoundsAssumption DEF ClientTyped, setupVars, consumerVars, mailVars,
      producerVars, HandlerReturns, Finished, Works, Fault, Settle, DeleteOutcomes,
      Listener, Current
<1>19. CASE \E m \in Messages : \E d \in hands[m] : HandlerThrows(m, d)
  BY <1>19, <1>a, BoundsAssumption DEF ClientTyped, setupVars, consumerVars, mailVars,
      producerVars, HandlerThrows, Finished, Works, Listener, Settle, Current
<1>20. CASE UNCHANGED vars
  BY <1>20, <1>a, BoundsAssumption DEF ClientTyped, setupVars, consumerVars, mailVars,
      producerVars, vars
<1>21. QED
  BY <1>1, <1>2, <1>3, <1>4, <1>5, <1>6, <1>7, <1>8, <1>9, <1>10, <1>11, <1>12, <1>13,
      <1>14, <1>15, <1>16, <1>17, <1>18, <1>19, <1>20 DEF Next, QueueSteps, MessageSteps

(* The service is well typed, for any queues, messages and faults.         *)
THEOREM TypeCorrect == Spec => []TypeOK
<1>1. TypeOK /\ [Next]_vars => TypeOK'
  BY SetupStayTyped, ConsumersStayTyped, MailStayTyped, ProducerStayTyped, ClientStayTyped
  DEF TypeOK
<1>2. QED BY InitTyped, <1>1, PTL DEF Spec
-----------------------------------------------------------------------------
(* After a stop, nothing goes on for a queue for which nothing went on at   *)
(* the stop: no consumer of it runs or asks, and no handler has a message   *)
(* of it, so that no listener of it is called.                              *)
IdleInv ==
  halted => \A q \in Queues \ busy : consumer[q] # "running" /\ q \notin asking /\ ~HasHandlers(q)

(* Every step keeps IdleInv.                                               *)
LEMMA IdleStep == TypeOK /\ IdleInv /\ [Next]_vars => IdleInv'
<1> SUFFICES ASSUME TypeOK, IdleInv, [Next]_vars PROVE IdleInv'
  OBVIOUS
<1>a. ConsumersTyped /\ MailTyped BY DEF TypeOK
<1>1. CASE Initialize
  BY <1>1, <1>a, IdleInv, QueuesAssumption
  DEF IdleInv, HasHandlers, ConsumersTyped, MailTyped, consumerVars, mailVars, Initialize
<1>2. CASE CreateQueues
  BY <1>2, <1>a, IdleInv, QueuesAssumption
  DEF IdleInv, HasHandlers, ConsumersTyped, MailTyped, consumerVars, mailVars, CreateQueues
<1>3. CASE StartConsumers
  BY <1>3, <1>a, IdleInv, QueuesAssumption
  DEF IdleInv, HasHandlers, ConsumersTyped, MailTyped, consumerVars, mailVars,
      StartConsumers
<1>4. CASE StopConsumers
  BY <1>4, <1>a, IdleInv, QueuesAssumption
  DEF IdleInv, HasHandlers, ConsumersTyped, MailTyped, consumerVars, mailVars,
      StopConsumers, Stopped, Subscriptions
<1>5. CASE Disconnect
  BY <1>5, <1>a, IdleInv, QueuesAssumption
  DEF IdleInv, HasHandlers, ConsumersTyped, MailTyped, consumerVars, mailVars,
      Disconnect, Stopped, Subscriptions
<1>6. CASE \E q \in Queues : StageDone(q)
  BY <1>6, <1>a, IdleInv, QueuesAssumption
  DEF IdleInv, HasHandlers, ConsumersTyped, MailTyped, consumerVars, mailVars, StageDone
<1>7. CASE \E q \in Queues : StageFails(q)
  BY <1>7, <1>a, IdleInv, QueuesAssumption
  DEF IdleInv, HasHandlers, ConsumersTyped, MailTyped, consumerVars, mailVars, StageFails
<1>8. CASE \E q \in Queues : Subscribe(q)
  BY <1>8, <1>a, IdleInv, QueuesAssumption
  DEF IdleInv, HasHandlers, ConsumersTyped, MailTyped, consumerVars, mailVars, Subscribe
<1>9. CASE \E q \in Queues : Subscribed(q)
  BY <1>9, <1>a, IdleInv, QueuesAssumption
  DEF IdleInv, HasHandlers, ConsumersTyped, MailTyped, consumerVars, mailVars, Subscribed
<1>10. CASE \E q \in Queues : Ask(q)
  BY <1>10, <1>a, IdleInv, QueuesAssumption
  DEF IdleInv, HasHandlers, ConsumersTyped, MailTyped, consumerVars, mailVars, Ask
<1>11. CASE \E q \in Queues : NothingReceived(q)
  BY <1>11, <1>a, IdleInv, QueuesAssumption
  DEF IdleInv, HasHandlers, ConsumersTyped, MailTyped, consumerVars, mailVars,
      NothingReceived, Answered
<1>12. CASE \E q \in Queues : ReceiveFails(q)
  BY <1>12, <1>a, IdleInv, QueuesAssumption
  DEF IdleInv, HasHandlers, ConsumersTyped, MailTyped, consumerVars, mailVars,
      ReceiveFails, Answered, Listener
<1>13. CASE \E m \in Messages : Publish(m)
  BY <1>13, <1>a, IdleInv, QueuesAssumption
  DEF IdleInv, HasHandlers, ConsumersTyped, MailTyped, consumerVars, mailVars, Publish
<1>14. CASE \E m \in Messages : Addressed(m)
  BY <1>14, <1>a, IdleInv, QueuesAssumption
  DEF IdleInv, HasHandlers, ConsumersTyped, MailTyped, consumerVars, mailVars, Addressed
<1>15. CASE \E m \in Messages : Sent(m)
  BY <1>15, <1>a, IdleInv, QueuesAssumption
  DEF IdleInv, HasHandlers, ConsumersTyped, MailTyped, consumerVars, mailVars, Sent
<1>16. CASE \E m \in Messages : Receive(m)
  BY <1>16, <1>a, IdleInv, QueuesAssumption
  DEF IdleInv, HasHandlers, ConsumersTyped, MailTyped, consumerVars, mailVars, Receive,
      Answered
<1>17. CASE \E m \in Messages : VisibilityOver(m)
  BY <1>17, <1>a, IdleInv, QueuesAssumption
  DEF IdleInv, HasHandlers, ConsumersTyped, MailTyped, consumerVars, mailVars,
      VisibilityOver
<1>18. CASE \E m \in Messages : \E d \in hands[m] : HandlerReturns(m, d)
  BY <1>18, <1>a, IdleInv, QueuesAssumption
  DEF IdleInv, HasHandlers, ConsumersTyped, MailTyped, consumerVars, mailVars,
      HandlerReturns, Finished, Listener
<1>19. CASE \E m \in Messages : \E d \in hands[m] : HandlerThrows(m, d)
  BY <1>19, <1>a, IdleInv, QueuesAssumption
  DEF IdleInv, HasHandlers, ConsumersTyped, MailTyped, consumerVars, mailVars,
      HandlerThrows, Finished, Listener
<1>20. CASE UNCHANGED vars
  BY <1>20, <1>a, IdleInv, QueuesAssumption
  DEF IdleInv, HasHandlers, ConsumersTyped, MailTyped, consumerVars, mailVars, vars
<1>21. QED
  BY <1>1, <1>2, <1>3, <1>4, <1>5, <1>6, <1>7, <1>8, <1>9, <1>10, <1>11, <1>12, <1>13,
      <1>14, <1>15, <1>16, <1>17, <1>18, <1>19, <1>20
  DEF Next, QueueSteps, MessageSteps

(* A queue that is idle when the consumers are stopped is not asked again   *)
(* before startConsumers, whatever fails and is handled late elsewhere.    *)
THEOREM IdleQueuesStayStopped == Spec => []IdleStopsAreFinal
<1>1. Init => IdleInv BY DEF Init, IdleInv
<1>2. TypeOK /\ IdleInv => IdleStopsAreFinal BY DEF TypeOK, IdleInv, IdleStopsAreFinal
<1>3. QED BY <1>1, <1>2, IdleStep, TypeCorrect, PTL DEF Spec
-----------------------------------------------------------------------------
(* After disconnect the producer stays closed, for the service is never    *)
(* initialized again, and all messages being published were so then.       *)
ClosedInv == disconnected => up /\ ~isOpen /\ Publishing \subseteq admitted

(* Every step keeps ClosedInv.                                             *)
LEMMA ClosedStep == TypeOK /\ ClosedInv /\ [Next]_vars => ClosedInv'
<1> SUFFICES ASSUME TypeOK, ClosedInv, [Next]_vars PROVE ClosedInv'
  OBVIOUS
<1>a. ProducerTyped BY DEF TypeOK
<1>1. CASE Initialize
  BY <1>1, <1>a, ClosedInv
  DEF ClosedInv, Publishing, ProducerTyped, setupVars, producerVars, Initialize
<1>2. CASE CreateQueues
  BY <1>2, <1>a, ClosedInv
  DEF ClosedInv, Publishing, ProducerTyped, setupVars, producerVars, CreateQueues
<1>3. CASE StartConsumers
  BY <1>3, <1>a, ClosedInv
  DEF ClosedInv, Publishing, ProducerTyped, setupVars, producerVars, StartConsumers
<1>4. CASE StopConsumers
  BY <1>4, <1>a, ClosedInv
  DEF ClosedInv, Publishing, ProducerTyped, setupVars, producerVars, StopConsumers
<1>5. CASE Disconnect
  BY <1>5, <1>a, ClosedInv
  DEF ClosedInv, Publishing, ProducerTyped, setupVars, producerVars, Disconnect
<1>6. CASE \E q \in Queues : StageDone(q)
  BY <1>6, <1>a, ClosedInv
  DEF ClosedInv, Publishing, ProducerTyped, setupVars, producerVars, StageDone
<1>7. CASE \E q \in Queues : StageFails(q)
  BY <1>7, <1>a, ClosedInv
  DEF ClosedInv, Publishing, ProducerTyped, setupVars, producerVars, StageFails
<1>8. CASE \E q \in Queues : Subscribe(q)
  BY <1>8, <1>a, ClosedInv
  DEF ClosedInv, Publishing, ProducerTyped, setupVars, producerVars, Subscribe
<1>9. CASE \E q \in Queues : Subscribed(q)
  BY <1>9, <1>a, ClosedInv
  DEF ClosedInv, Publishing, ProducerTyped, setupVars, producerVars, Subscribed
<1>10. CASE \E q \in Queues : Ask(q)
  BY <1>10, <1>a, ClosedInv
  DEF ClosedInv, Publishing, ProducerTyped, setupVars, producerVars, Ask
<1>11. CASE \E q \in Queues : NothingReceived(q)
  BY <1>11, <1>a, ClosedInv
  DEF ClosedInv, Publishing, ProducerTyped, setupVars, producerVars, NothingReceived
<1>12. CASE \E q \in Queues : ReceiveFails(q)
  BY <1>12, <1>a, ClosedInv
  DEF ClosedInv, Publishing, ProducerTyped, setupVars, producerVars, ReceiveFails
<1>13. CASE \E m \in Messages : Publish(m)
  BY <1>13, <1>a, ClosedInv
  DEF ClosedInv, Publishing, ProducerTyped, setupVars, producerVars, Publish, ToSend
<1>14. CASE \E m \in Messages : Addressed(m)
  BY <1>14, <1>a, ClosedInv
  DEF ClosedInv, Publishing, ProducerTyped, setupVars, producerVars, Addressed
<1>15. CASE \E m \in Messages : Sent(m)
  BY <1>15, <1>a, ClosedInv
  DEF ClosedInv, Publishing, ProducerTyped, setupVars, producerVars, Sent
<1>16. CASE \E m \in Messages : Receive(m)
  BY <1>16, <1>a, ClosedInv
  DEF ClosedInv, Publishing, ProducerTyped, setupVars, producerVars, Receive
<1>17. CASE \E m \in Messages : VisibilityOver(m)
  BY <1>17, <1>a, ClosedInv
  DEF ClosedInv, Publishing, ProducerTyped, setupVars, producerVars, VisibilityOver
<1>18. CASE \E m \in Messages : \E d \in hands[m] : HandlerReturns(m, d)
  BY <1>18, <1>a, ClosedInv
  DEF ClosedInv, Publishing, ProducerTyped, setupVars, producerVars, HandlerReturns
<1>19. CASE \E m \in Messages : \E d \in hands[m] : HandlerThrows(m, d)
  BY <1>19, <1>a, ClosedInv
  DEF ClosedInv, Publishing, ProducerTyped, setupVars, producerVars, HandlerThrows
<1>20. CASE UNCHANGED vars
  BY <1>20, <1>a, ClosedInv
  DEF ClosedInv, Publishing, ProducerTyped, setupVars, producerVars, vars
<1>21. QED
  BY <1>1, <1>2, <1>3, <1>4, <1>5, <1>6, <1>7, <1>8, <1>9, <1>10, <1>11, <1>12, <1>13,
      <1>14, <1>15, <1>16, <1>17, <1>18, <1>19, <1>20
  DEF Next, QueueSteps, MessageSteps

(* A closed producer only finishes what was being published.               *)
THEOREM ClosedProducersSendNothingNew == Spec => []SendsWereAdmitted
<1>1. Init => ClosedInv BY DEF Init, ClosedInv
<1>2. ClosedInv => SendsWereAdmitted BY DEF ClosedInv, SendsWereAdmitted, Publishing
<1>3. QED BY <1>1, <1>2, ClosedStep, TypeCorrect, PTL DEF Spec
=============================================================================
