------------------------ MODULE FeaturePipelineProofs ------------------------
(***************************************************************************)
(* Theorems about FeaturePipeline, for every set of pods, every partition  *)
(* log, every combination of faults and every bound.                       *)
(***************************************************************************)
EXTENDS FeaturePipeline, FiniteSetTheorems, TLAPS

USE PodsAssumption, LogAssumption, EventIdsAssumption, BoundsAssumption, FlagsAssumption

-----------------------------------------------------------------------------
(* Types.  They need to know what a handler works on: the id added to      *)
(* marker is an event_id because only events pass the validator.           *)
HandlersInLog ==
  \A pod \in Pods, p \in Partitions :
    /\ position[pod][p] <= Len(Log[p])
    /\ pc[pod][p] # "idle" => Offset(pod, p) <= Len(Log[p])
    /\ pc[pod][p] \in {"checking", "upserting", "marking"} => Message(pod, p) \in EventIds

CommittedInLog == \A p \in Partitions : committed[p] <= Len(Log[p])

TypeInv == TypeOK /\ HandlersInLog /\ CommittedInLog

(* Initially nothing is assigned, held or counted.                         *)
LEMMA TypeInvInit == Init => TypeInv
  BY DEF Init, TypeInv, TypeOK, HandlersInLog, CommittedInLog, PC, DLQReason, Offset

HandlerTypes ==
  /\ position \in [Pods -> [Partitions -> Nat]]
  /\ pc \in [Pods -> [Partitions -> PC]]

(* A handler that returns moves its position over its message.             *)
LEMMA ReturnKeeps ==
  ASSUME TypeInv, NEW pod \in Pods, NEW p \in Partitions,
         pc[pod][p] # "idle", Return(pod, p)
  PROVE  HandlerTypes' /\ HandlersInLog'
<1> USE DEF TypeInv, TypeOK, HandlerTypes, HandlersInLog, Return, Goto, Offset, Message, PC, DLQReason
<1>1. HandlerTypes'
  OBVIOUS
<1>2. ASSUME NEW q \in Pods, NEW r \in Partitions, q # pod \/ r # p
      PROVE  pc'[q][r] = pc[q][r] /\ position'[q][r] = position[q][r]
  BY <1>2
<1>3. pc'[pod][p] = "idle" /\ position'[pod][p] = position[pod][p] + 1
  OBVIOUS
<1> QED
  BY <1>1, <1>2, <1>3

(* A handler that goes on keeps its message.                               *)
LEMMA AdvanceKeeps ==
  ASSUME TypeInv, NEW pod \in Pods, NEW p \in Partitions,
         NEW label \in PC, Advance(pod, p, label),
         Offset(pod, p) <= Len(Log[p]),
         label \in {"checking", "upserting", "marking"} => Message(pod, p) \in EventIds
  PROVE  HandlerTypes' /\ HandlersInLog'
<1> USE DEF TypeInv, TypeOK, HandlerTypes, HandlersInLog, Advance, Goto, Offset, Message
<1>1. HandlerTypes'
  OBVIOUS
<1>2. ASSUME NEW q \in Pods, NEW r \in Partitions, q # pod \/ r # p
      PROVE  pc'[q][r] = pc[q][r] /\ position'[q][r] = position[q][r]
  BY <1>2
<1>3. pc'[pod][p] = label /\ position'[pod][p] = position[pod][p]
  OBVIOUS
<1> QED
  BY <1>1, <1>2, <1>3

(* Every step keeps the types.                                             *)
LEMMA TypeInvStep == TypeInv /\ [Next]_vars => TypeInv'
<1> SUFFICES ASSUME TypeInv, [Next]_vars PROVE TypeInv'
  OBVIOUS
<1> DEFINE Rest == /\ owner \in [Partitions -> Pods \cup {NoPod}]
                   /\ committed \in [Partitions -> Nat]
                   /\ applied \in [EventIds -> Nat]
                   /\ marker \subseteq EventIds
                   /\ dlq \subseteq DLQRecords
                   /\ logOnly \subseteq Partitions \X Nat
                   /\ faults \in [gap: Nat, other: Nat]
                   /\ CommittedInLog
<1>0. Rest
  BY DEF TypeInv, TypeOK
<1>a. ASSUME HandlerTypes', HandlersInLog', Rest' PROVE TypeInv'
  BY <1>a DEF TypeInv, TypeOK, HandlerTypes
<1>b. ASSUME UNCHANGED handlerVars PROVE HandlerTypes' /\ HandlersInLog'
  BY <1>b DEF TypeInv, TypeOK, HandlerTypes, HandlersInLog, handlerVars, Offset, Message
<1>c. ASSUME NEW pod \in Pods, NEW p \in Partitions, pc[pod][p] # "idle"
      PROVE  /\ Offset(pod, p) \in Nat
             /\ Offset(pod, p) <= Len(Log[p])
             /\ Message(pod, p) \in Messages
  <2>1. position[pod][p] \in Nat /\ Offset(pod, p) <= Len(Log[p])
    BY <1>c DEF TypeInv, TypeOK, HandlersInLog
  <2>2. Log[p] \in Seq(Messages)
    OBVIOUS
  <2> QED
    BY <2>1, <2>2 DEF Offset, Message
<1>d. \A kind : Fault(kind) => faults' \in [gap: Nat, other: Nat]
  BY <1>0 DEF Fault
<1> USE <1>0, <1>d DEF storeVars, NoFault, CommittedInLog
<1>1. ASSUME NEW pod \in Pods, NEW p \in Partitions, Assign(pod, p) PROVE TypeInv'
  <2>1. HandlerTypes' /\ HandlersInLog'
    BY <1>1 DEF Assign, TypeInv, TypeOK, HandlerTypes, HandlersInLog, Offset, Message
  <2>2. Rest'
    BY <1>1 DEF Assign
  <2> QED
    BY <2>1, <2>2, <1>a
<1>2. ASSUME NEW pod \in Pods, NEW p \in Partitions, Deliver(pod, p) PROVE TypeInv'
  <2>1. HandlerTypes' /\ HandlersInLog'
    BY <1>2, AdvanceKeeps DEF Deliver, PC
  <2>2. Rest'
    BY <1>2 DEF Deliver
  <2> QED
    BY <2>1, <2>2, <1>a
<1>3. ASSUME NEW pod \in Pods, NEW p \in Partitions, Decode(pod, p) PROVE TypeInv'
  <2>1. HandlerTypes' /\ HandlersInLog'
    BY <1>3, <1>c, AdvanceKeeps, ReturnKeeps DEF Decode, PC
  <2>2. Rest'
    BY <1>3, <1>c DEF Decode
  <2> QED
    BY <2>1, <2>2, <1>a
<1>4. ASSUME NEW pod \in Pods, NEW p \in Partitions, Dispatch(pod, p) PROVE TypeInv'
  <2>1. HandlerTypes' /\ HandlersInLog'
    BY <1>4, <1>c, AdvanceKeeps, ReturnKeeps DEF Dispatch, PC, DLQReason
  <2>2. Rest'
    BY <1>4, <1>c DEF Dispatch
  <2> QED
    BY <2>1, <2>2, <1>a
<1>5. ASSUME NEW pod \in Pods, NEW p \in Partitions, CheckProcessed(pod, p) PROVE TypeInv'
  <2>0. Message(pod, p) \in EventIds
    BY <1>5 DEF CheckProcessed, TypeInv, HandlersInLog
  <2>1. HandlerTypes' /\ HandlersInLog'
    BY <1>5, <2>0, <1>c, AdvanceKeeps, ReturnKeeps DEF CheckProcessed, PC, DLQReason
  <2>2. Rest'
    BY <1>5 DEF CheckProcessed
  <2> QED
    BY <2>1, <2>2, <1>a
<1>6. ASSUME NEW pod \in Pods, NEW p \in Partitions, Upsert(pod, p) PROVE TypeInv'
  <2>0. Message(pod, p) \in EventIds
    BY <1>6 DEF Upsert, TypeInv, HandlersInLog
  <2>1. HandlerTypes' /\ HandlersInLog'
    BY <1>6, <2>0, <1>c, AdvanceKeeps DEF Upsert, PC, DLQReason
  <2>2. applied' \in [EventIds -> Nat]
    <3>1. CASE applied' = [applied EXCEPT ![Message(pod, p)] = @ + 1]
      BY <3>1, <2>0
    <3>2. CASE UNCHANGED applied
      BY <3>2
    <3> QED
      BY <1>6, <3>1, <3>2 DEF Upsert
  <2>3. faults' \in [gap: Nat, other: Nat]
    BY <1>6 DEF Upsert
  <2>4. Rest'
    BY <1>6, <2>2, <2>3 DEF Upsert
  <2> QED
    BY <2>1, <2>4, <1>a
<1>7. ASSUME NEW pod \in Pods, NEW p \in Partitions, MarkProcessed(pod, p) PROVE TypeInv'
  <2>0. Message(pod, p) \in EventIds
    BY <1>7 DEF MarkProcessed, TypeInv, HandlersInLog
  <2>1. HandlerTypes' /\ HandlersInLog'
    BY <1>7, <2>0, <1>c, AdvanceKeeps, ReturnKeeps DEF MarkProcessed, PC, DLQReason
  <2>2. Rest'
    BY <1>7, <2>0 DEF MarkProcessed
  <2> QED
    BY <2>1, <2>2, <1>a
<1>8. ASSUME NEW pod \in Pods, NEW p \in Partitions, PublishDLQ(pod, p) PROVE TypeInv'
  <2>0. pc[pod][p] # "idle" /\ pc[pod][p] \in DLQReason
    BY <1>8 DEF PublishDLQ, DLQReason
  <2>1. HandlerTypes' /\ HandlersInLog'
    BY <1>8, <2>0, ReturnKeeps DEF PublishDLQ
  <2>2. Rest'
    BY <1>8, <2>0, <1>c DEF PublishDLQ, DLQRecords
  <2> QED
    BY <2>1, <2>2, <1>a
<1>9. ASSUME NEW pod \in Pods, NEW p \in Partitions, Commit(pod, p) PROVE TypeInv'
  <2>1. position[pod][p] \in Nat /\ position[pod][p] <= Len(Log[p])
    BY DEF TypeInv, TypeOK, HandlersInLog
  <2>2. Rest'
    BY <1>9, <2>1 DEF Commit
  <2> QED
    BY <1>9, <2>2, <1>a, <1>b DEF Commit
<1>10. ASSUME NEW p \in Partitions, Revoke(p) PROVE TypeInv'
  <2>1. Rest'
    BY <1>10 DEF Revoke
  <2> QED
    BY <1>10, <2>1, <1>a, <1>b DEF Revoke
<1>11. ASSUME NEW pod \in Pods, Crash(pod) PROVE TypeInv'
  <2>1. HandlerTypes' /\ HandlersInLog'
    BY <1>11 DEF Crash, TypeInv, TypeOK, HandlerTypes, HandlersInLog, Offset, Message, PC
  <2>2. Rest'
    BY <1>11 DEF Crash
  <2> QED
    BY <2>1, <2>2, <1>a
<1>12. ASSUME NEW id \in EventIds, Expire(id) PROVE TypeInv'
  <2>1. Rest'
    BY <1>12 DEF Expire
  <2> QED
    BY <1>12, <2>1, <1>a, <1>b DEF Expire
<1>13. CASE UNCHANGED vars
  BY <1>13, <1>a, <1>b DEF vars, handlerVars
<1> QED
  BY <1>1, <1>2, <1>3, <1>4, <1>5, <1>6, <1>7, <1>8, <1>9, <1>10, <1>11, <1>12, <1>13
  DEF Next, Step, Idle

(* Every variable keeps its type.                                          *)
THEOREM TypeCorrect == Spec => []TypeOK
<1>1. Spec => []TypeInv
  BY TypeInvInit, TypeInvStep, PTL DEF Spec
<1> QED
  BY <1>1, PTL DEF TypeInv

-----------------------------------------------------------------------------
(* Outcomes are never taken back: no step lowers a counter, removes a      *)
(* dead-letter record or forgets a log line, so a settled message stays    *)
(* settled.                                                                *)
LEMMA OutcomesGrow ==
  ASSUME TypeInv, [Next]_vars
  PROVE  /\ \A id \in EventIds : applied'[id] >= applied[id]
         /\ dlq \subseteq dlq'
         /\ logOnly \subseteq logOnly'
<1> USE DEF TypeInv, TypeOK, storeVars
<1>1. ASSUME NEW pod \in Pods, NEW p \in Partitions, Upsert(pod, p)
      PROVE  /\ \A id \in EventIds : applied'[id] >= applied[id]
             /\ UNCHANGED <<dlq, logOnly>>
  <2>1. CASE applied' = [applied EXCEPT ![Message(pod, p)] = @ + 1]
    BY <1>1, <2>1 DEF Upsert
  <2>2. CASE UNCHANGED applied
    BY <1>1, <2>2 DEF Upsert
  <2> QED
    BY <1>1, <2>1, <2>2 DEF Upsert
<1>2. ASSUME NEW pod \in Pods, NEW p \in Partitions,
             Decode(pod, p) \/ Dispatch(pod, p) \/ PublishDLQ(pod, p)
      PROVE  UNCHANGED applied /\ dlq \subseteq dlq' /\ logOnly \subseteq logOnly'
  BY <1>2 DEF Decode, Dispatch, PublishDLQ
<1>3. ASSUME NEW pod \in Pods, NEW p \in Partitions,
             \/ Assign(pod, p) \/ Deliver(pod, p) \/ CheckProcessed(pod, p)
             \/ MarkProcessed(pod, p) \/ Commit(pod, p) \/ Revoke(p)
             \/ Crash(pod)
      PROVE  UNCHANGED <<applied, dlq, logOnly>>
  BY <1>3 DEF Assign, Deliver, CheckProcessed, MarkProcessed, Commit, Revoke, Crash
<1>4. ASSUME NEW p \in Partitions, Revoke(p) PROVE UNCHANGED <<applied, dlq, logOnly>>
  BY <1>4 DEF Revoke
<1>5. ASSUME NEW pod \in Pods, Crash(pod) PROVE UNCHANGED <<applied, dlq, logOnly>>
  BY <1>5 DEF Crash
<1>6. ASSUME NEW id \in EventIds, Expire(id) PROVE UNCHANGED <<applied, dlq, logOnly>>
  BY <1>6 DEF Expire
<1>7. CASE UNCHANGED vars
  BY <1>7 DEF vars
<1>8. UNCHANGED <<applied, dlq, logOnly>>
      => /\ \A id \in EventIds : applied'[id] >= applied[id]
         /\ dlq \subseteq dlq'
         /\ logOnly \subseteq logOnly'
  OBVIOUS
<1>9. UNCHANGED applied => \A id \in EventIds : applied'[id] >= applied[id]
  OBVIOUS
<1> QED
  BY <1>1, <1>2, <1>3, <1>4, <1>5, <1>6, <1>7, <1>8, <1>9 DEF Next, Step, Idle

(* What is settled stays settled.                                          *)
LEMMA SettledIsStable ==
  ASSUME TypeInv, [Next]_vars, NEW p \in Partitions, NEW o \in 1..Len(Log[p]), Settled(p, o)
  PROVE  Settled(p, o)'
<1>1. Log[p][o] \in EventIds /\ applied[Log[p][o]] > 0
      => applied'[Log[p][o]] > 0
  <2>1. \A id \in EventIds : applied[id] \in Nat /\ applied'[id] \in Nat
    BY TypeInvStep DEF TypeInv, TypeOK
  <2> QED
    BY <2>1, OutcomesGrow
<1> QED
  BY <1>1, OutcomesGrow DEF Settled, Traced

(* The strengthening of CommittedIsSettled: what a handler has moved past  *)
(* is settled, and a handler about to mark has applied its event.          *)
SettledInv ==
  /\ TypeInv
  /\ CommittedIsSettled
  /\ MarkedIsApplied
  /\ \A pod \in Pods, p \in Partitions :
       /\ \A o \in 1..position[pod][p] : Settled(p, o)
       /\ pc[pod][p] = "marking" => applied[Message(pod, p)] > 0

(* Initially nothing is committed or marked.                               *)
LEMMA SettledInvInit == Init => SettledInv
  BY TypeInvInit DEF Init, SettledInv, CommittedIsSettled, MarkedIsApplied

(* A handler returns only from a message that is settled by then.          *)
LEMMA ReturnIsSettled ==
  ASSUME SettledInv, NEW pod \in Pods, NEW p \in Partitions,
         Step(pod, p), position'[pod][p] # position[pod][p],
         NEW o \in Nat, o = Offset(pod, p)
  PROVE  Settled(p, o)'
<1>1. TypeInv /\ TypeInv'
  BY TypeInvStep DEF SettledInv, Next
<1>2. CASE logOnly' = logOnly \cup {<<p, o>>}
  BY <1>2 DEF Settled
<1>3. CASE CheckProcessed(pod, p)
  <2>1. Message(pod, p) \in marker /\ UNCHANGED applied
    BY <1>3 DEF CheckProcessed, Advance, storeVars
  <2>2. Message(pod, p) \in EventIds /\ applied[Message(pod, p)] > 0
    BY <1>1, <2>1 DEF SettledInv, MarkedIsApplied, TypeInv, TypeOK
  <2> QED
    BY <2>1, <2>2 DEF Settled, Traced, Message
<1>4. CASE MarkProcessed(pod, p)
  <2>1. Message(pod, p) \in EventIds /\ applied[Message(pod, p)] > 0
    BY <1>4 DEF MarkProcessed, SettledInv, TypeInv, HandlersInLog
  <2>2. UNCHANGED applied
    BY <1>4 DEF MarkProcessed
  <2> QED
    BY <2>1, <2>2 DEF Settled, Traced, Message
<1>5. CASE PublishDLQ(pod, p) /\ logOnly' # logOnly \cup {<<p, o>>}
  <2>1. [partition |-> p, offset |-> o, reason |-> pc[pod][p]] \in dlq'
    BY <1>5 DEF PublishDLQ
  <2> QED
    BY <2>1 DEF Settled, Traced
<1> QED
  BY <1>2, <1>3, <1>4, <1>5 DEF Step, Decode, Dispatch, Upsert, PublishDLQ, Advance

(* How a handler's position can change, and when it reaches "marking".     *)
LEMMA HandlerMoves ==
  ASSUME SettledInv, [Next]_vars, NEW pod \in Pods, NEW p \in Partitions
  PROVE  /\ \/ position'[pod][p] \in {position[pod][p], committed[p], 0}
            \/ \E o \in Nat : /\ o = position[pod][p] + 1
                               /\ position'[pod][p] = o
                               /\ Settled(p, o)'
         /\ pc'[pod][p] = "marking"
            => /\ position'[pod][p] = position[pod][p]
               /\ pc[pod][p] = "marking" \/ applied'[Message(pod, p)] > 0
<1> DEFINE Goal == /\ \/ position'[pod][p] \in {position[pod][p], committed[p], 0}
                      \/ \E o \in Nat : /\ o = position[pod][p] + 1
                                         /\ position'[pod][p] = o
                                         /\ Settled(p, o)'
                   /\ pc'[pod][p] = "marking"
                      => /\ position'[pod][p] = position[pod][p]
                         /\ pc[pod][p] = "marking" \/ applied'[Message(pod, p)] > 0
<1>0. TypeOK /\ position[pod][p] \in Nat
  BY DEF SettledInv, TypeInv, TypeOK
<1>1. ASSUME NEW q \in Pods, NEW r \in Partitions, Assign(q, r) PROVE Goal
  BY <1>0, <1>1 DEF Assign, TypeOK
<1>2. ASSUME NEW q \in Pods, NEW r \in Partitions, Deliver(q, r) PROVE Goal
  BY <1>0, <1>2 DEF Deliver, Advance, Goto, TypeOK
<1>3. ASSUME NEW q \in Pods, NEW r \in Partitions, Step(q, r) PROVE Goal
  <2>1. CASE q # pod \/ r # p
    BY <1>0, <1>3, <2>1
    DEF Step, Decode, Dispatch, CheckProcessed, Upsert, MarkProcessed, PublishDLQ,
        Return, Advance, Goto, TypeOK
  <2>2. CASE q = pod /\ r = p
    <3>1. position'[pod][p] \in {position[pod][p], position[pod][p] + 1}
      BY <1>0, <1>3, <2>2
      DEF Step, Decode, Dispatch, CheckProcessed, Upsert, MarkProcessed, PublishDLQ,
          Return, Advance, TypeOK
    <3>2. ASSUME NEW o \in Nat, o = position[pod][p] + 1, position'[pod][p] = o
          PROVE  Settled(p, o)'
      BY <1>0, <1>3, <2>2, <3>2, ReturnIsSettled DEF Offset
    <3>3. ASSUME pc'[pod][p] = "marking"
          PROVE  position'[pod][p] = position[pod][p] /\ applied'[Message(pod, p)] > 0
      <4>1. Upsert(pod, p) /\ Advance(pod, p, "marking")
        BY <1>0, <1>3, <2>2, <3>3
        DEF Step, Decode, Dispatch, CheckProcessed, Upsert, MarkProcessed, PublishDLQ,
            Return, Advance, Goto, TypeOK
      <4>2. Message(pod, p) \in EventIds
        BY <4>1 DEF Upsert, SettledInv, TypeInv, HandlersInLog
      <4>3. applied' = [applied EXCEPT ![Message(pod, p)] = @ + 1]
        BY <1>0, <3>3, <4>1 DEF Upsert, Advance, Goto, TypeOK
      <4> QED
        BY <1>0, <4>1, <4>2, <4>3 DEF Advance, TypeOK
    <3> QED
      BY <1>0, <3>1, <3>2, <3>3
  <2> QED
    BY <2>1, <2>2
<1>4. ASSUME NEW q \in Pods, NEW r \in Partitions, Commit(q, r) PROVE Goal
  BY <1>4 DEF Commit, handlerVars
<1>5. ASSUME NEW r \in Partitions, Revoke(r) PROVE Goal
  BY <1>5 DEF Revoke, handlerVars
<1>6. ASSUME NEW q \in Pods, Crash(q) PROVE Goal
  BY <1>0, <1>6 DEF Crash, TypeOK
<1>7. ASSUME NEW id \in EventIds, Expire(id) PROVE Goal
  BY <1>7 DEF Expire, handlerVars
<1>8. CASE UNCHANGED vars
  BY <1>8 DEF vars
<1> QED
  BY <1>1, <1>2, <1>3, <1>4, <1>5, <1>6, <1>7, <1>8 DEF Next, Idle

(* Every step keeps what is behind a position settled.                     *)
LEMMA SettledInvStep == SettledInv /\ [Next]_vars => SettledInv'
<1> SUFFICES ASSUME SettledInv, [Next]_vars PROVE SettledInv'
  OBVIOUS
<1>1. TypeInv /\ TypeInv'
  BY TypeInvStep DEF SettledInv
<1>2. ASSUME NEW p \in Partitions, NEW o \in 1..Len(Log[p]), Settled(p, o)
      PROVE  Settled(p, o)'
  BY <1>1, <1>2, SettledIsStable
<1>3. CommittedIsSettled'
  <2> SUFFICES ASSUME NEW p \in Partitions, NEW o \in 1..committed'[p]
               PROVE  Settled(p, o)'
    BY DEF CommittedIsSettled
  <2>1. o \in 1..Len(Log[p])
    BY <1>1 DEF TypeInv, TypeOK, CommittedInLog
  <2>2. \/ committed'[p] = committed[p]
        \/ \E pod \in Pods : committed'[p] = position[pod][p]
    BY <1>1 DEF Next, Assign, Deliver, Step, Decode, Dispatch, CheckProcessed, Upsert,
                MarkProcessed, PublishDLQ, Commit, Revoke, Crash, Expire, Idle, vars,
                TypeInv, TypeOK
  <2>3. Settled(p, o)
    BY <2>2 DEF SettledInv, CommittedIsSettled
  <2> QED
    BY <1>2, <2>1, <2>3
<1>4. MarkedIsApplied'
  <2> SUFFICES ASSUME NEW id \in marker' PROVE applied'[id] > 0
    BY DEF MarkedIsApplied
  <2>1. id \in EventIds
    BY <1>1 DEF TypeInv, TypeOK
  <2>2. id \in marker \/ \E pod \in Pods, p \in Partitions :
                           pc[pod][p] = "marking" /\ id = Message(pod, p)
    BY DEF Next, Assign, Deliver, Step, Decode, Dispatch, CheckProcessed, Upsert,
           MarkProcessed, PublishDLQ, Commit, Revoke, Crash, Expire, Idle, vars, storeVars
  <2>3. applied[id] > 0
    BY <2>2 DEF SettledInv, MarkedIsApplied
  <2>4. applied'[id] >= applied[id]
    BY <1>1, <2>1, OutcomesGrow
  <2> QED
    BY <1>1, <2>1, <2>3, <2>4 DEF TypeInv, TypeOK
<1>5. ASSUME NEW pod \in Pods, NEW p \in Partitions, NEW o \in 1..position'[pod][p]
      PROVE  Settled(p, o)'
  <2>1. o \in 1..Len(Log[p]) /\ position[pod][p] \in Nat /\ committed[p] \in Nat
    BY <1>1 DEF TypeInv, TypeOK, HandlersInLog
  <2>2. CASE position'[pod][p] \in {position[pod][p], committed[p], 0}
    <3>1. o \in 1..position[pod][p] \/ o \in 1..committed[p]
      BY <2>1, <2>2
    <3>2. Settled(p, o)
      BY <3>1 DEF SettledInv, CommittedIsSettled
    <3> QED
      BY <1>2, <2>1, <3>2
  <2>3. ASSUME NEW n \in Nat, n = position[pod][p] + 1, position'[pod][p] = n, Settled(p, n)'
        PROVE  Settled(p, o)'
    <3>1. CASE o = n
      BY <2>3, <3>1
    <3>2. CASE o \in 1..position[pod][p]
      BY <1>2, <2>1, <3>2 DEF SettledInv
    <3> QED
      BY <2>1, <2>3, <3>1, <3>2
  <2> QED
    BY <2>2, <2>3, HandlerMoves
<1>6. ASSUME NEW pod \in Pods, NEW p \in Partitions, pc'[pod][p] = "marking"
      PROVE  applied'[Message(pod, p)'] > 0
  <2>1. Message(pod, p)' = Message(pod, p) /\ Message(pod, p)' \in EventIds
    BY <1>1, <1>6, HandlerMoves DEF Message, Offset, TypeInv, HandlersInLog
  <2>2. CASE applied'[Message(pod, p)] > 0
    BY <2>1, <2>2
  <2>3. CASE pc[pod][p] = "marking"
    <3>1. applied[Message(pod, p)] > 0
      BY <2>3 DEF SettledInv
    <3>2. Message(pod, p) \in EventIds
      BY <2>1
    <3>3. applied'[Message(pod, p)] >= applied[Message(pod, p)]
      BY <1>1, <3>2, OutcomesGrow
    <3>4. applied[Message(pod, p)] \in Nat /\ applied'[Message(pod, p)] \in Nat
      BY <1>1, <3>2 DEF TypeInv, TypeOK
    <3>5. applied'[Message(pod, p)] > 0
      BY <3>1, <3>3, <3>4
    <3> QED
      BY <2>1, <3>5
  <2> QED
    BY <1>6, <2>2, <2>3, HandlerMoves
<1> QED
  BY <1>1, <1>3, <1>4, <1>5, <1>6 DEF SettledInv

(* The group commits only settled messages, whatever fails.                *)
THEOREM CommittedAreSettled == Spec => []CommittedIsSettled
<1>1. Spec => []SettledInv
  BY SettledInvInit, SettledInvStep, PTL DEF Spec
<1> QED
  BY <1>1, PTL DEF SettledInv

(* A key is in Redis only for an event that has been applied.              *)
THEOREM MarkedAreApplied == Spec => []MarkedIsApplied
<1>1. Spec => []SettledInv
  BY SettledInvInit, SettledInvStep, PTL DEF Spec
<1> QED
  BY <1>1, PTL DEF SettledInv

-----------------------------------------------------------------------------
(* What the idempotency keys guarantee.  The first ingredient: without     *)
(* zombies a busy handler is the owner's, so a partition has one handler.  *)
Fenced ==
  \A pod \in Pods, p \in Partitions : pc[pod][p] # "idle" => owner[p] = pod

FenceInv == TypeInv /\ Fenced

(* Initially no handler runs.                                              *)
LEMMA FenceInvInit == Init => FenceInv
  BY TypeInvInit DEF Init, FenceInv, Fenced

(* Without zombies, a handler always runs for the owner.                   *)
LEMMA FenceInvStep ==
  ASSUME "zombie" \notin Faults, FenceInv, [Next]_vars
  PROVE  FenceInv'
<1> USE DEF FenceInv, Fenced
<1>0. TypeInv' /\ TypeOK
  BY TypeInvStep DEF TypeInv
<1>1. ASSUME NEW pod \in Pods, NEW p \in Partitions, Assign(pod, p) PROVE Fenced'
  BY <1>0, <1>1 DEF Assign, TypeOK
<1>2. ASSUME NEW pod \in Pods, NEW p \in Partitions, Deliver(pod, p) PROVE Fenced'
  BY <1>0, <1>2 DEF Deliver, Advance, Goto, TypeOK
<1>3. ASSUME NEW pod \in Pods, NEW p \in Partitions, Step(pod, p) PROVE Fenced'
  <2>1. pc[pod][p] # "idle" /\ UNCHANGED owner
    BY <1>3 DEF Step, Decode, Dispatch, CheckProcessed, Upsert, MarkProcessed, PublishDLQ, DLQReason
  <2>2. \A q \in Pods, r \in Partitions : q # pod \/ r # p => pc'[q][r] = pc[q][r]
    BY <1>0, <1>3
    DEF Step, Decode, Dispatch, CheckProcessed, Upsert, MarkProcessed, PublishDLQ,
        Return, Advance, Goto, TypeOK
  <2> QED
    BY <2>1, <2>2
<1>4. ASSUME NEW pod \in Pods, NEW p \in Partitions, Commit(pod, p) PROVE Fenced'
  BY <1>4 DEF Commit, handlerVars
<1>5. ASSUME NEW p \in Partitions, Revoke(p) PROVE Fenced'
  BY <1>0, <1>5 DEF Revoke, Fault, handlerVars, TypeOK
<1>6. ASSUME NEW pod \in Pods, Crash(pod) PROVE Fenced'
  BY <1>0, <1>6 DEF Crash, TypeOK
<1>7. ASSUME NEW id \in EventIds, Expire(id) PROVE Fenced'
  BY <1>7 DEF Expire, handlerVars
<1>8. CASE UNCHANGED vars
  BY <1>0, <1>8 DEF vars
<1> QED
  BY <1>0, <1>1, <1>2, <1>3, <1>4, <1>5, <1>6, <1>7, <1>8 DEF Next, Idle

(* Without handlers that outlive their assignment a partition has one      *)
(* handler at most, in whichever pod: the events of a user are applied one *)
(* after the other (consumer.ts:39-63).                                    *)
THEOREM PartitionsAreSequential ==
  ASSUME "zombie" \notin Faults
  PROVE  Spec => []OneHandlerPerPartition
<1>1. FenceInv /\ [Next]_vars => FenceInv'
  BY FenceInvStep
<1>2. FenceInv => OneHandlerPerPartition
  <2> SUFFICES ASSUME FenceInv, NEW p \in Partitions
               PROVE  Cardinality({pod \in Pods : pc[pod][p] # "idle"}) <= 1
    BY DEF OneHandlerPerPartition
  <2> DEFINE busy == {pod \in Pods : pc[pod][p] # "idle"}
  <2>1. busy \subseteq {owner[p]}
    BY DEF FenceInv, Fenced
  <2>2. IsFiniteSet({owner[p]}) /\ Cardinality({owner[p]}) = 1
    BY FS_Singleton
  <2> QED BY <2>1, <2>2, FS_Subset
<1> QED BY <1>1, <1>2, FenceInvInit, PTL DEF Spec

(* The second ingredient: two handlers at work on one event are one.       *)
LEMMA OneHandlerPerEvent ==
  ASSUME KeyedByUser, FenceInv,
         NEW pod \in Pods, NEW p \in Partitions, NEW q \in Pods, NEW r \in Partitions,
         pc[pod][p] \in {"checking", "upserting", "marking"},
         pc[q][r] \in {"checking", "upserting", "marking"},
         Message(pod, p) = Message(q, r)
  PROVE  pod = q /\ p = r
<1>1. /\ Message(pod, p) \in EventIds
      /\ Offset(pod, p) \in 1..Len(Log[p]) /\ Offset(q, r) \in 1..Len(Log[r])
  BY DEF FenceInv, TypeInv, TypeOK, HandlersInLog, Offset
<1>2. p = r
  BY <1>1 DEF KeyedByUser, Message
<1> QED
  BY <1>2 DEF FenceInv, Fenced

(* A handler about to upsert works on an event without a key.              *)
UnmarkedInv ==
  /\ FenceInv
  /\ IdempotencyEnabled \/ marker = {}
  /\ \A pod \in Pods, p \in Partitions :
       pc[pod][p] = "upserting" => Message(pod, p) \notin marker

(* Initially no handler is at its upsert.                                  *)
LEMMA UnmarkedInvInit == Init => UnmarkedInv
  BY FenceInvInit DEF Init, UnmarkedInv

(* Every step keeps the event of an upsert unmarked.                       *)
LEMMA UnmarkedInvStep ==
  ASSUME "zombie" \notin Faults, "redis_closed" \notin Faults, KeyedByUser,
         UnmarkedInv, [Next]_vars
  PROVE  UnmarkedInv'
<1>0. FenceInv /\ FenceInv' /\ TypeOK
  BY FenceInvStep DEF UnmarkedInv, FenceInv, TypeInv
<1>1. IdempotencyEnabled \/ marker' = {}
  BY DEF UnmarkedInv, Next, Assign, Deliver, Step, Decode, Dispatch, CheckProcessed, Upsert,
         MarkProcessed, PublishDLQ, Commit, Revoke, Crash, Expire, Idle, vars, storeVars
<1>2. ASSUME NEW pod \in Pods, NEW p \in Partitions, pc'[pod][p] = "upserting"
      PROVE  Message(pod, p)' \notin marker'
  <2>1. CASE CheckProcessed(pod, p)
    <3>1. Advance(pod, p, "upserting") /\ Message(pod, p) \notin marker /\ UNCHANGED marker
      BY <1>0, <1>2, <2>1
      DEF CheckProcessed, Return, Advance, Goto, Fault, storeVars, UnmarkedInv, TypeOK
    <3> QED
      BY <3>1 DEF Advance, Message, Offset
  <2>2. CASE ~CheckProcessed(pod, p)
    <3>1. pc[pod][p] = "upserting" /\ position'[pod][p] = position[pod][p]
      <4>1. ASSUME NEW q \in Pods, NEW r \in Partitions, Step(q, r)
            PROVE  pc[pod][p] = "upserting" /\ position'[pod][p] = position[pod][p]
        <5>1. CASE q # pod \/ r # p
          BY <1>0, <1>2, <4>1, <5>1
          DEF Step, Decode, Dispatch, CheckProcessed, Upsert, MarkProcessed, PublishDLQ,
              Return, Advance, Goto, TypeOK
        <5>2. CASE q = pod /\ r = p
          <6>1. ~CheckProcessed(q, r)
            BY <2>2, <5>2
          <6>2. pc'[pod][p] # "upserting"
            BY <1>0, <4>1, <5>2, <6>1
            DEF Step, Decode, Dispatch, Upsert, MarkProcessed, PublishDLQ,
                Return, Advance, Goto, DLQReason, TypeOK
          <6> QED
            BY <1>2, <6>2
        <5> QED
          BY <5>1, <5>2
      <4>2. ASSUME NEW q \in Pods, NEW r \in Partitions, Assign(q, r)
            PROVE  pc[pod][p] = "upserting" /\ position'[pod][p] = position[pod][p]
        <5>1. pc[pod][p] = "upserting" /\ pc[q][r] = "idle"
          BY <1>2, <4>2 DEF Assign
        <5>2. q # pod \/ r # p
          BY <5>1
        <5> QED
          BY <1>0, <4>2, <5>1, <5>2 DEF Assign, TypeOK
      <4>4. ASSUME NEW q \in Pods, NEW r \in Partitions, Deliver(q, r)
            PROVE  pc[pod][p] = "upserting" /\ position'[pod][p] = position[pod][p]
        BY <1>0, <1>2, <4>4 DEF Deliver, Advance, Goto, TypeOK
      <4>5. ASSUME NEW q \in Pods, NEW r \in Partitions, Commit(q, r)
            PROVE  pc[pod][p] = "upserting" /\ position'[pod][p] = position[pod][p]
        BY <1>2, <4>5 DEF Commit, handlerVars
      <4>3. ASSUME NEW q \in Pods, Crash(q)
            PROVE  pc[pod][p] = "upserting" /\ position'[pod][p] = position[pod][p]
        BY <1>0, <1>2, <4>3 DEF Crash, TypeOK
      <4> QED
        BY <1>2, <4>1, <4>2, <4>3, <4>4, <4>5 DEF Next, Revoke, Expire, Idle, handlerVars, vars
    <3>2. Message(pod, p)' = Message(pod, p) /\ Message(pod, p) \notin marker
      BY <3>1 DEF Message, Offset, UnmarkedInv
    <3>3. ASSUME NEW q \in Pods, NEW r \in Partitions, MarkProcessed(q, r)
          PROVE  Message(pod, p) \notin marker'
      <4>1. pc[q][r] = "marking" /\ marker' \subseteq marker \cup {Message(q, r)}
        BY <3>3 DEF MarkProcessed
      <4>2. Message(q, r) # Message(pod, p)
        BY <1>0, <3>1, <4>1, OneHandlerPerEvent
      <4> QED
        BY <3>2, <4>1, <4>2
    <3>4. marker' \subseteq marker
          \/ \E q \in Pods, r \in Partitions : MarkProcessed(q, r)
      BY DEF Next, Assign, Deliver, Step, Decode, Dispatch, CheckProcessed, Upsert,
             PublishDLQ, Commit, Revoke, Crash, Expire, Idle, vars, storeVars
    <3> QED
      BY <3>2, <3>3, <3>4
  <2> QED
    BY <2>1, <2>2
<1> QED
  BY <1>0, <1>1, <1>2 DEF UnmarkedInv

(* Once an event has its key no delivery reaches the store again: crashes, *)
(* lost offsets, ambiguous Mongo errors and expiring keys notwithstanding. *)
THEOREM MarkedAreNotReplayed ==
  ASSUME "zombie" \notin Faults, "redis_closed" \notin Faults, KeyedByUser
  PROVE  Spec => MarkedIsNotApplied
<1>1. UnmarkedInv /\ [Next]_vars => UnmarkedInv'
  BY UnmarkedInvStep
<1>2. UnmarkedInv /\ [Next]_vars => [\A id \in marker : applied'[id] = applied[id]]_vars
  <2> SUFFICES ASSUME UnmarkedInv, Next, NEW id \in marker
               PROVE  applied'[id] = applied[id]
    OBVIOUS
  <2>0. TypeOK
    BY DEF UnmarkedInv, FenceInv, TypeInv
  <2>1. ASSUME NEW pod \in Pods, NEW p \in Partitions, Upsert(pod, p)
        PROVE  applied'[id] = applied[id]
    <3>1. Message(pod, p) # id
      BY <2>1 DEF Upsert, UnmarkedInv
    <3> QED
      BY <2>0, <2>1, <3>1 DEF Upsert, TypeOK
  <2>2. UNCHANGED applied \/ \E pod \in Pods, p \in Partitions : Upsert(pod, p)
    BY DEF Next, Assign, Deliver, Step, Decode, Dispatch, CheckProcessed, MarkProcessed,
           PublishDLQ, Commit, Revoke, Crash, Expire, Idle, vars, storeVars
  <2> QED
    BY <2>1, <2>2
<1> QED
  BY UnmarkedInvInit, <1>1, <1>2, PTL DEF Spec, MarkedIsNotApplied

-----------------------------------------------------------------------------
(* Counting.  As long as no fault of GapFaults is unaccounted for, an      *)
(* event applied once per gap fault and once more has its key, or the      *)
(* handler that applied it is about to set it; so a handler that passes    *)
(* the check works on an event that may be applied once more.              *)
OnceInv ==
  /\ FenceInv
  /\ OvercountIsBounded
  /\ \A id \in EventIds :
       applied[id] > faults.gap => \/ id \in marker
                                  \/ \E pod \in Pods, p \in Partitions :
                                       pc[pod][p] = "marking" /\ Message(pod, p) = id
  /\ \A pod \in Pods, p \in Partitions :
       pc[pod][p] = "upserting" => applied[Message(pod, p)] <= faults.gap

(* Initially nothing has been applied.                                     *)
LEMMA OnceInvInit == Init => OnceInv
  BY FenceInvInit DEF Init, OnceInv, OvercountIsBounded

(* A step that changes neither counters nor keys, takes no handler to the  *)
(* upsert and none away from the marking, keeps the invariant.             *)
LEMMA QuietKeepsOnce ==
  ASSUME OnceInv, FenceInv', UNCHANGED <<applied, marker>>, faults'.gap = faults.gap,
         \A pod \in Pods, p \in Partitions :
           /\ pc'[pod][p] = "upserting" \/ pc[pod][p] = "marking"
              => pc'[pod][p] = pc[pod][p] /\ position'[pod][p] = position[pod][p]
  PROVE  OnceInv'
<1>1. ASSUME NEW pod \in Pods, NEW p \in Partitions,
             pc'[pod][p] = "upserting" \/ pc[pod][p] = "marking"
      PROVE  pc'[pod][p] = pc[pod][p] /\ Message(pod, p)' = Message(pod, p)
  BY <1>1 DEF Message, Offset
<1> QED
  BY <1>1 DEF OnceInv, OvercountIsBounded

(* A fault of GapFaults is counted as such, and no other fault is.         *)
LEMMA FaultsAreCounted ==
  ASSUME TypeOK, NEW kind \in FaultKinds, Fault(kind)
  PROVE  faults'.gap = IF kind \in GapFaults THEN faults.gap + 1 ELSE faults.gap
  BY DEF TypeOK, Fault

(* A gap fault pays for whatever it lets happen: it applies an event at    *)
(* most once more.                                                         *)
LEMMA GapFaultKeepsOnce ==
  ASSUME "zombie" \notin Faults, OnceInv, [Next]_vars, faults'.gap # faults.gap
  PROVE  OnceInv'
<1>0. FenceInv /\ FenceInv' /\ TypeOK /\ TypeOK' /\ HandlersInLog'
  BY FenceInvStep DEF OnceInv, FenceInv, TypeInv
<1>1. faults'.gap = faults.gap + 1
  BY <1>0 DEF Next, Assign, Deliver, Step, Decode, Dispatch, CheckProcessed, Upsert,
         MarkProcessed, PublishDLQ, Commit, Revoke, Crash, Expire, Idle, vars,
         Fault, NoFault, TypeOK
<1>2. ASSUME NEW id \in EventIds PROVE applied'[id] <= faults'.gap
  <2>1. applied[id] \in Nat /\ faults.gap \in Nat /\ applied[id] <= 1 + faults.gap
    BY <1>0 DEF OnceInv, OvercountIsBounded, TypeOK
  <2>2. ASSUME NEW pod \in Pods, NEW p \in Partitions, Upsert(pod, p)
        PROVE  applied'[id] <= faults'.gap
    <3>1. applied[Message(pod, p)] <= faults.gap
      BY <2>2 DEF Upsert, OnceInv
    <3>2. \/ UNCHANGED applied
          \/ /\ Message(pod, p) \in EventIds
             /\ applied' = [applied EXCEPT ![Message(pod, p)] = @ + 1]
      BY <1>0, <2>2 DEF Upsert, FenceInv, TypeInv, HandlersInLog
    <3>3. CASE UNCHANGED applied
      BY <1>1, <2>1, <3>3
    <3>4. CASE applied' = [applied EXCEPT ![Message(pod, p)] = @ + 1]
      <4>1. applied'[id] = IF id = Message(pod, p) THEN applied[id] + 1 ELSE applied[id]
        BY <1>0, <3>4 DEF TypeOK
      <4> QED
        BY <1>1, <2>1, <3>1, <4>1
    <3> QED
      BY <3>2, <3>3, <3>4
  <2>3. UNCHANGED applied \/ \E pod \in Pods, p \in Partitions : Upsert(pod, p)
    BY DEF Next, Assign, Deliver, Step, Decode, Dispatch, CheckProcessed, MarkProcessed,
           PublishDLQ, Commit, Revoke, Crash, Expire, Idle, vars, storeVars
  <2> QED
    BY <1>1, <2>1, <2>2, <2>3
<1>3. ASSUME NEW id \in EventIds
      PROVE  applied'[id] <= 1 + faults'.gap /\ ~(applied'[id] > faults'.gap)
  BY <1>0, <1>2 DEF TypeOK
<1>4. ASSUME NEW pod \in Pods, NEW p \in Partitions, pc'[pod][p] = "upserting"
      PROVE  applied'[Message(pod, p)'] <= faults'.gap
  BY <1>0, <1>2, <1>4 DEF HandlersInLog
<1> QED
  BY <1>0, <1>3, <1>4 DEF OnceInv, OvercountIsBounded

(* Every other step keeps applied events accounted for.                    *)
LEMMA NoGapKeepsOnce ==
  ASSUME IdempotencyEnabled, "zombie" \notin Faults, KeyedByUser, OnceInv, [Next]_vars,
         faults'.gap = faults.gap
  PROVE  OnceInv'
<1>0. FenceInv /\ FenceInv' /\ TypeOK /\ faults.gap \in Nat
  BY FenceInvStep DEF OnceInv, FenceInv, TypeInv, TypeOK
<1>z. ASSUME NEW kind \in GapFaults, Fault(kind) PROVE FALSE
  BY <1>0, <1>z, FaultsAreCounted DEF GapFaults, FaultKinds
<1>a. ASSUME NEW pod \in Pods, NEW p \in Partitions, pc[pod][p] # "marking",
             UNCHANGED <<applied, marker>>,
             \/ Return(pod, p)
             \/ \E label \in PC : label # "upserting" /\ Advance(pod, p, label)
      PROVE  OnceInv'
  <2>1. \A q \in Pods, r \in Partitions :
          pc'[q][r] = "upserting" \/ pc[q][r] = "marking"
          => pc'[q][r] = pc[q][r] /\ position'[q][r] = position[q][r]
    <3>1. pc'[pod][p] # "upserting"
      BY <1>0, <1>a DEF Return, Advance, Goto, TypeOK
    <3>2. ASSUME NEW q \in Pods, NEW r \in Partitions, q # pod \/ r # p
          PROVE  pc'[q][r] = pc[q][r] /\ position'[q][r] = position[q][r]
      BY <1>0, <1>a, <3>2 DEF Return, Advance, Goto, TypeOK
    <3> QED
      BY <1>a, <3>1, <3>2
  <2> QED
    BY <1>0, <1>a, <2>1, QuietKeepsOnce
<1>1. ASSUME NEW pod \in Pods, NEW p \in Partitions, Assign(pod, p) PROVE OnceInv'
  <2>1. \A q \in Pods, r \in Partitions :
          pc'[q][r] = "upserting" \/ pc[q][r] = "marking"
          => pc'[q][r] = pc[q][r] /\ position'[q][r] = position[q][r]
    BY <1>0, <1>1 DEF Assign, TypeOK
  <2> QED
    BY <1>0, <1>1, <2>1, QuietKeepsOnce DEF Assign, storeVars
<1>2. ASSUME NEW pod \in Pods, NEW p \in Partitions, Deliver(pod, p) PROVE OnceInv'
  BY <1>a, <1>2 DEF Deliver, storeVars, PC
<1>3. ASSUME NEW pod \in Pods, NEW p \in Partitions, Decode(pod, p) PROVE OnceInv'
  BY <1>a, <1>3 DEF Decode, PC
<1>4. ASSUME NEW pod \in Pods, NEW p \in Partitions, Dispatch(pod, p) PROVE OnceInv'
  BY <1>a, <1>4 DEF Dispatch, PC, DLQReason
<1>5. ASSUME NEW pod \in Pods, NEW p \in Partitions, CheckProcessed(pod, p) PROVE OnceInv'
  <2>1. pc[pod][p] = "checking" /\ UNCHANGED <<applied, marker>>
    BY <1>5 DEF CheckProcessed, storeVars
  <2>2. CASE Return(pod, p) \/ Advance(pod, p, "PROCESSING_ERROR")
    BY <1>a, <2>1, <2>2 DEF PC, DLQReason
  <2>3. CASE Advance(pod, p, "upserting") /\ Message(pod, p) \notin marker
    <3>1. Message(pod, p) \in EventIds
      BY <1>0, <2>1 DEF FenceInv, TypeInv, HandlersInLog
    <3>2. applied[Message(pod, p)] <= faults.gap
      <4>1. ASSUME NEW q \in Pods, NEW r \in Partitions,
                   pc[q][r] = "marking", Message(q, r) = Message(pod, p)
            PROVE  FALSE
        BY <1>0, <2>1, <4>1, OneHandlerPerEvent
      <4>2. ~(applied[Message(pod, p)] > faults.gap)
        BY <2>3, <3>1, <4>1 DEF OnceInv
      <4> QED
        BY <1>0, <3>1, <4>2 DEF TypeOK
    <3>3. /\ \A q \in Pods, r \in Partitions :
               q # pod \/ r # p => pc'[q][r] = pc[q][r]
          /\ pc'[pod][p] = "upserting"
          /\ UNCHANGED position
      BY <1>0, <2>3 DEF Advance, Goto, TypeOK
    <3>4. \A q \in Pods, r \in Partitions : Message(q, r)' = Message(q, r)
      BY <3>3 DEF Message, Offset
    <3>5. ASSUME NEW q \in Pods, NEW r \in Partitions, pc'[q][r] = "upserting"
          PROVE  applied'[Message(q, r)'] <= faults'.gap
      BY <2>1, <3>2, <3>3, <3>4, <3>5 DEF OnceInv
    <3>6. ASSUME NEW q \in Pods, NEW r \in Partitions, pc[q][r] = "marking"
          PROVE  pc'[q][r] = "marking" /\ Message(q, r)' = Message(q, r)
      BY <2>1, <3>3, <3>4, <3>6
    <3>7. ASSUME NEW id \in EventIds, applied'[id] > faults'.gap
          PROVE  \/ id \in marker'
                 \/ \E q \in Pods, r \in Partitions :
                      pc'[q][r] = "marking" /\ Message(q, r)' = id
      BY <2>1, <3>6, <3>7 DEF OnceInv
    <3> QED
      BY <1>0, <2>1, <3>5, <3>7 DEF OnceInv, OvercountIsBounded
  <2> QED
    BY <1>5, <1>z, <2>2, <2>3 DEF CheckProcessed, GapFaults
<1>6. ASSUME NEW pod \in Pods, NEW p \in Partitions, Upsert(pod, p) PROVE OnceInv'
  <2>1. /\ pc[pod][p] = "upserting"
        /\ UNCHANGED marker
        /\ Message(pod, p) \in EventIds
        /\ applied[Message(pod, p)] <= faults.gap
    BY <1>0, <1>6 DEF Upsert, OnceInv, FenceInv, TypeInv, HandlersInLog
  <2>2. CASE Advance(pod, p, "UPSERT_FAILED") /\ UNCHANGED applied
    BY <1>a, <2>1, <2>2 DEF PC, DLQReason
  <2>3. CASE /\ Advance(pod, p, "marking")
             /\ applied' = [applied EXCEPT ![Message(pod, p)] = @ + 1]
    <3>1. /\ \A q \in Pods, r \in Partitions :
               q # pod \/ r # p => pc'[q][r] = pc[q][r]
          /\ pc'[pod][p] = "marking"
          /\ UNCHANGED position
      BY <1>0, <2>3 DEF Advance, Goto, TypeOK
    <3>2. \A q \in Pods, r \in Partitions : Message(q, r)' = Message(q, r)
      BY <3>1 DEF Message, Offset
    <3>3. /\ applied'[Message(pod, p)] <= 1 + faults'.gap
          /\ \A id \in EventIds : id # Message(pod, p) => applied'[id] = applied[id]
      BY <1>0, <2>1, <2>3 DEF TypeOK
    <3>4. OvercountIsBounded'
      BY <3>3 DEF OnceInv, OvercountIsBounded
    <3>5. ASSUME NEW id \in EventIds, applied'[id] > faults'.gap
          PROVE  \/ id \in marker'
                 \/ \E q \in Pods, r \in Partitions :
                      pc'[q][r] = "marking" /\ Message(q, r)' = id
      <4>1. CASE id = Message(pod, p)
        BY <3>1, <3>2, <4>1
      <4>2. CASE id # Message(pod, p)
        <5>1. applied[id] > faults.gap
          BY <3>3, <3>5, <4>2
        <5>2. ASSUME NEW q \in Pods, NEW r \in Partitions, pc[q][r] = "marking"
              PROVE  pc'[q][r] = "marking" /\ Message(q, r)' = Message(q, r)
          BY <2>1, <3>1, <3>2, <5>2
        <5> QED
          BY <2>1, <5>1, <5>2 DEF OnceInv
      <4> QED
        BY <4>1, <4>2
    <3>6. ASSUME NEW q \in Pods, NEW r \in Partitions, pc'[q][r] = "upserting"
          PROVE  applied'[Message(q, r)'] <= faults'.gap
      <4>1. (q # pod \/ r # p) /\ pc[q][r] = "upserting"
        BY <3>1, <3>6
      <4>2. Message(q, r) # Message(pod, p)
        BY <1>0, <2>1, <4>1, OneHandlerPerEvent
      <4>3. Message(q, r) \in EventIds /\ applied[Message(q, r)] <= faults.gap
        BY <1>0, <4>1 DEF OnceInv, FenceInv, TypeInv, HandlersInLog
      <4> QED
        BY <3>2, <3>3, <4>2, <4>3
    <3> QED
      BY <1>0, <3>4, <3>5, <3>6 DEF OnceInv
  <2> QED
    BY <1>6, <1>z, <2>2, <2>3 DEF Upsert, GapFaults
<1>7. ASSUME NEW pod \in Pods, NEW p \in Partitions, MarkProcessed(pod, p) PROVE OnceInv'
  <2>1. /\ pc[pod][p] = "marking"
        /\ UNCHANGED applied
        /\ marker' = marker \cup {Message(pod, p)}
        /\ Return(pod, p)
    BY <1>7, <1>z DEF MarkProcessed, GapFaults
  <2>2. \A q \in Pods, r \in Partitions :
          q # pod \/ r # p => pc'[q][r] = pc[q][r] /\ position'[q][r] = position[q][r]
    BY <1>0, <2>1 DEF Return, Goto, TypeOK
  <2>3. pc'[pod][p] = "idle"
    BY <1>0, <2>1 DEF Return, Goto, TypeOK
  <2>4. \A q \in Pods, r \in Partitions :
          q # pod \/ r # p => Message(q, r)' = Message(q, r)
    BY <2>2 DEF Message, Offset
  <2>5. ASSUME NEW id \in EventIds, applied'[id] > faults'.gap
        PROVE  \/ id \in marker'
               \/ \E q \in Pods, r \in Partitions :
                    pc'[q][r] = "marking" /\ Message(q, r)' = id
    <3>1. CASE id \in marker
      BY <2>1, <3>1
    <3>2. ASSUME NEW q \in Pods, NEW r \in Partitions,
                 pc[q][r] = "marking", Message(q, r) = id
          PROVE  \/ id \in marker'
                 \/ pc'[q][r] = "marking" /\ Message(q, r)' = id
      BY <2>1, <2>2, <2>4, <3>2
    <3> QED
      BY <2>1, <2>5, <3>1, <3>2 DEF OnceInv
  <2>6. ASSUME NEW q \in Pods, NEW r \in Partitions, pc'[q][r] = "upserting"
        PROVE  applied'[Message(q, r)'] <= faults'.gap
    <3>1. (q # pod \/ r # p) /\ pc[q][r] = "upserting"
      BY <2>2, <2>3, <2>6
    <3> QED
      BY <2>1, <2>4, <3>1 DEF OnceInv
  <2> QED
    BY <1>0, <2>1, <2>5, <2>6 DEF OnceInv, OvercountIsBounded
<1>8. ASSUME NEW pod \in Pods, NEW p \in Partitions, PublishDLQ(pod, p) PROVE OnceInv'
  BY <1>a, <1>8 DEF PublishDLQ, DLQReason
<1>9. ASSUME NEW pod \in Pods, NEW p \in Partitions, Commit(pod, p) PROVE OnceInv'
  BY <1>0, <1>9, QuietKeepsOnce DEF Commit, handlerVars, storeVars
<1>10. ASSUME NEW p \in Partitions, Revoke(p) PROVE OnceInv'
  BY <1>0, <1>10, QuietKeepsOnce DEF Revoke, handlerVars, storeVars
<1>11. ASSUME NEW pod \in Pods, Crash(pod) PROVE OnceInv'
  BY <1>11, <1>z DEF Crash, GapFaults
<1>12. ASSUME NEW id \in EventIds, Expire(id) PROVE OnceInv'
  BY <1>12, <1>z DEF Expire, GapFaults
<1>13. CASE UNCHANGED vars
  BY <1>0, <1>13, QuietKeepsOnce DEF vars
<1> QED
  BY <1>1, <1>2, <1>3, <1>4, <1>5, <1>6, <1>7, <1>8, <1>9, <1>10, <1>11, <1>12, <1>13
  DEF Next, Step, Idle

(* With idempotency on and one partition per event, an event counts at     *)
(* most once, over any number of rebalances, duplicates, failed lookups    *)
(* and failed upserts, and once more per gap fault.                        *)
THEOREM CountedAtMostOnce ==
  ASSUME IdempotencyEnabled, "zombie" \notin Faults, KeyedByUser
  PROVE  Spec => []OvercountIsBounded
<1>1. OnceInv /\ [Next]_vars => OnceInv'
  BY GapFaultKeepsOnce, NoGapKeepsOnce
<1>2. OnceInv => OvercountIsBounded
  BY DEF OnceInv
<1> QED
  BY OnceInvInit, <1>1, <1>2, PTL DEF Spec

-----------------------------------------------------------------------------
(* Offsets.  The owner of a partition is never behind its commit, so a     *)
(* commit never moves back.                                                *)
FrontInv ==
  /\ TypeInv
  /\ \A pod \in Pods, p \in Partitions : owner[p] = pod => committed[p] <= position[pod][p]

(* Initially nothing is handled or committed.                              *)
LEMMA FrontInvInit == Init => FrontInv
  BY TypeInvInit DEF Init, FrontInv

(* Every step keeps the positions of owners at or past the group's.        *)
LEMMA FrontInvStep == FrontInv /\ [Next]_vars => FrontInv'
<1> SUFFICES ASSUME FrontInv, [Next]_vars PROVE FrontInv'
  OBVIOUS
<1> DEFINE Ahead == \A pod \in Pods, p \in Partitions :
                      owner[p] = pod => committed[p] <= position[pod][p]
<1>0. TypeInv' /\ TypeOK /\ Ahead
  BY TypeInvStep DEF FrontInv, TypeInv
<1>1. ASSUME NEW pod \in Pods, NEW p \in Partitions, Assign(pod, p) PROVE Ahead'
  BY <1>0, <1>1 DEF Assign, TypeOK
<1>2. ASSUME NEW pod \in Pods, NEW p \in Partitions, Deliver(pod, p) PROVE Ahead'
  BY <1>0, <1>2 DEF Deliver, Advance
<1>3. ASSUME NEW pod \in Pods, NEW p \in Partitions, Step(pod, p) PROVE Ahead'
  <2>1. UNCHANGED <<owner, committed>> /\ (UNCHANGED position \/ Return(pod, p))
    BY <1>3
    DEF Step, Decode, Dispatch, CheckProcessed, Upsert, MarkProcessed, PublishDLQ, Advance
  <2>2. ASSUME NEW q \in Pods, NEW r \in Partitions
        PROVE  position'[q][r] >= position[q][r] /\ position'[q][r] \in Nat
               /\ position[q][r] \in Nat /\ committed[r] \in Nat
    <3>1. position[q][r] \in Nat /\ committed[r] \in Nat
      BY <1>0 DEF TypeOK
    <3>2. CASE UNCHANGED position
      BY <3>1, <3>2
    <3>3. CASE Return(pod, p)
      <4>1. position'[q][r] \in {position[q][r], position[q][r] + 1}
        BY <1>0, <3>3 DEF Return, TypeOK
      <4> QED
        BY <3>1, <4>1
    <3> QED
      BY <2>1, <3>2, <3>3
  <2> QED
    BY <1>0, <2>1, <2>2
<1>4. ASSUME NEW pod \in Pods, NEW p \in Partitions, Commit(pod, p) PROVE Ahead'
  BY <1>0, <1>4 DEF Commit, handlerVars, TypeOK
<1>5. ASSUME NEW p \in Partitions, Revoke(p) PROVE Ahead'
  BY <1>0, <1>5 DEF Revoke, handlerVars, TypeOK
<1>6. ASSUME NEW pod \in Pods, Crash(pod) PROVE Ahead'
  BY <1>0, <1>6 DEF Crash, TypeOK
<1>7. ASSUME NEW id \in EventIds, Expire(id) PROVE Ahead'
  BY <1>0, <1>7 DEF Expire, handlerVars
<1>8. ASSUME UNCHANGED vars PROVE Ahead'
  BY <1>0, <1>8 DEF vars
<1>9. Ahead'
  BY <1>1, <1>2, <1>3, <1>4, <1>5, <1>6, <1>7, <1>8 DEF Next, Idle
<1> QED
  BY <1>0, <1>9 DEF FrontInv

(* A commit moves the offset of its partition forward.                     *)
LEMMA CommitStep ==
  ASSUME [Next]_vars
  PROVE  \/ UNCHANGED committed
         \/ \E pod \in Pods, p \in Partitions : Commit(pod, p)
  BY DEF Next, Assign, Deliver, Step, Decode, Dispatch, CheckProcessed, Upsert,
         MarkProcessed, PublishDLQ, Revoke, Crash, Expire, Idle, vars

(* The committed offset of a partition never moves back, whoever commits.  *)
THEOREM CommitsAreMonotone == Spec => CommitsNeverRegress
<1>1. FrontInv /\ [Next]_vars
      => [\A p \in Partitions : committed'[p] >= committed[p]]_vars
  <2> SUFFICES ASSUME FrontInv, Next, NEW p \in Partitions
               PROVE  committed'[p] >= committed[p]
    OBVIOUS
  <2>1. TypeOK
    BY DEF FrontInv, TypeInv
  <2>2. ASSUME NEW pod \in Pods, NEW q \in Partitions, Commit(pod, q)
        PROVE  committed'[p] >= committed[p]
    BY <2>1, <2>2 DEF FrontInv, Commit, TypeOK
  <2>3. CASE UNCHANGED committed
    BY <2>1, <2>3 DEF TypeOK
  <2> QED
    BY <2>2, <2>3, CommitStep
<1> QED
  BY FrontInvInit, FrontInvStep, <1>1, PTL DEF Spec, CommitsNeverRegress

-----------------------------------------------------------------------------
(* The pipeline implements EventLedger.                                    *)
LEMMA LedgerInit == Init => Ledger!Init
<1> SUFFICES ASSUME Init PROVE Ledger!Init
  OBVIOUS
<1>1. \A p \in Partitions, o \in Nat :
        Log[p][o] \in EventIds => ~(applied[Log[p][o]] > 0)
  BY DEF Init
<1>2. ASSUME NEW po \in AllOffsets PROVE ~Settled(po[1], po[2])
  <2>1. PICK p \in Partitions : po \in {p} \X (1..Len(Log[p]))
    BY DEF AllOffsets
  <2>2. po[1] \in Partitions /\ po[2] \in Nat
    BY <2>1
  <2> QED
    BY <1>1, <2>2 DEF Settled, Traced, Init
<1> QED
  BY <1>2 DEF Init, Ledger!Init

(* Every step of the pipeline is a step of the ledger or a stutter.        *)
LEMMA LedgerStep ==
  ASSUME SettledInv, SettledInv', FrontInv, [Next]_vars
  PROVE  [Ledger!Next]_(Ledger!vars)
<1> DEFINE settled == {po \in AllOffsets : Settled(po[1], po[2])}
<1>0. TypeInv /\ TypeOK /\ TypeInv'
  BY DEF SettledInv, TypeInv
<1>1. settled \subseteq settled'
  <2> SUFFICES ASSUME NEW po \in AllOffsets, Settled(po[1], po[2])
               PROVE  Settled(po[1], po[2])'
    BY DEF AllOffsets
  <2>1. PICK p \in Partitions : po \in {p} \X (1..Len(Log[p]))
    BY DEF AllOffsets
  <2>2. po[1] \in Partitions /\ po[2] \in 1..Len(Log[po[1]])
    BY <2>1
  <2> QED
    BY <1>0, <2>2, SettledIsStable
<1>2. settled' \subseteq AllOffsets
  BY DEF AllOffsets
<1>3. Ledger!Offsets = AllOffsets
  BY DEF Ledger!Offsets, AllOffsets
<1>4. CASE UNCHANGED committed
  BY <1>1, <1>2, <1>3, <1>4 DEF Ledger!Next, Ledger!Settle
<1>5. ASSUME NEW pod \in Pods, NEW p \in Partitions, Commit(pod, p)
      PROVE  Ledger!Next
  <2>1. UNCHANGED <<applied, dlq, logOnly>>
    BY <1>5 DEF Commit, storeVars
  <2>2. UNCHANGED settled
    BY <2>1 DEF Settled, Traced
  <2>3. /\ committed' = [committed EXCEPT ![p] = committed'[p]]
        /\ committed'[p] \in (committed[p] + 1)..Len(Log[p])
    BY <1>0, <1>5 DEF Commit, FrontInv, TypeInv, TypeOK, HandlersInLog
  <2>4. ASSUME NEW o \in 1..committed'[p] PROVE <<p, o>> \in settled
    <3>1. Settled(p, o)'
      BY DEF SettledInv, CommittedIsSettled
    <3>2. <<p, o>> \in AllOffsets
      BY <1>0, <2>3 DEF AllOffsets, TypeOK
    <3> QED
      BY <2>1, <3>1, <3>2 DEF Settled, Traced
  <2> QED
    BY <2>2, <2>3, <2>4 DEF Ledger!Next, Ledger!Advance
<1> QED
  BY <1>4, <1>5, CommitStep

(* Every behaviour of the pipeline is one of the ledger.                   *)
THEOREM PipelineImplementsLedger == Spec => ImplementsLedger
<1>1. SettledInv /\ SettledInv' /\ FrontInv /\ [Next]_vars
      => [Ledger!Next]_(Ledger!vars)
  BY LedgerStep
<1> QED
  BY SettledInvInit, SettledInvStep, FrontInvInit, FrontInvStep, LedgerInit, <1>1, PTL
  DEF Spec, ImplementsLedger, Ledger!Spec
=============================================================================
