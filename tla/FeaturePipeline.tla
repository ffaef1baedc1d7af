--------------------------- MODULE FeaturePipeline ---------------------------
(***************************************************************************)
(* The consume path of feature-service: Kafka partitions consumed by the   *)
(* pods of one consumer group, each message taken through                  *)
(* decode -> validate -> idempotency check -> Mongo upsert -> mark, or     *)
(* diverted to the dead-letter topic, while offsets are auto-committed     *)
(* behind the handlers.                                                    *)
(*                                                                         *)
(* One action per asynchronous step: between two awaits of                 *)
(* FeatureConsumer.dispatch the handlers of other partitions, other pods,  *)
(* the commit timer, crashes and rebalances may run.                       *)
(*                                                                         *)
(* Offsets are counted from 1: Log[p][o] is the o-th message of partition  *)
(* p and committed[p] the number of messages the group has committed.      *)
(***************************************************************************)
EXTENDS Integers, Sequences, FiniteSets

CONSTANTS
  Pods,                  \* members of the consumer group
  NoPod,                 \* the owner of an unassigned partition
  Partitions,
  EventIds,              \* event_id of the messages that validate
  Log,                   \* the messages produced, per partition
  Unstorable,            \* events whose update the store always refuses
  MaxInFlight,           \* config.MAX_IN_FLIGHT, the pLimit bound of a pod
  PartitionsConcurrency, \* config.PARTITIONS_CONCURRENCY
  IdempotencyEnabled,    \* config.IDEMPOTENCY_ENABLED
  Faults,                \* what the environment may do wrong
  MaxFaults              \* how many times it may do it

(***************************************************************************)
(* A message is the id of a well-formed event, or one of:                  *)
(*   undecodable  decodeMessage throws                                     *)
(*   empty        the decoded value is falsy (a tombstone)                 *)
(*   invalid      decoded, refused by FeatureValidator                     *)
(***************************************************************************)
BadMessages == {"undecodable", "empty", "invalid"}
Messages == EventIds \cup BadMessages

(* The reasons of DLQReason the consumer can publish with.  DECODE_FAILED  *)
(* is never used by the code; NO_USER_KEY needs an event without           *)
(* anonymous_id, which the validator has refused before.                   *)
DLQReason == {"VALIDATION_FAILED", "UPSERT_FAILED", "PROCESSING_ERROR"}

FaultKinds == {
  "crash",          \* a pod dies at any point and comes back empty
  "rebalance",      \* a partition is revoked between two messages
  "zombie",         \* a partition is revoked while its handler still runs
  "registry",       \* decoding a good message fails
  "redis_read",     \* GET throws
  "redis_closed",   \* the Redis client is closed under the handler
  "redis_write",    \* SET throws, whether or not it took effect
  "expiry",         \* a marker's TTL runs out
  "mongo",          \* updateOne throws and has not been applied
  "mongo_ambiguous",\* updateOne throws but has been applied
  "dlq" }           \* every attempt to publish to the DLQ fails

(* The faults after which an applied event may be without its key, or an   *)
(* event with its key pass the check.                                      *)
GapFaults == {"crash", "zombie", "redis_closed", "redis_write", "expiry", "mongo_ambiguous"}

ASSUME PodsAssumption == NoPod \notin Pods
ASSUME LogAssumption == Log \in [Partitions -> Seq(Messages)]
ASSUME EventIdsAssumption == EventIds \cap BadMessages = {}
ASSUME BoundsAssumption ==
  /\ MaxInFlight \in Nat \ {0}
  /\ PartitionsConcurrency \in Nat \ {0}
  /\ MaxFaults \in Nat
ASSUME FlagsAssumption == IdempotencyEnabled \in BOOLEAN /\ Faults \subseteq FaultKinds

VARIABLES
  owner,      \* partition -> the member it is assigned to
  committed,  \* partition -> committed offset of the group
  position,   \* pod -> partition -> messages handled since assignment
  pc,         \* pod -> partition -> where the handler of its message is
  applied,    \* event -> times its update took effect in user_features
  marker,     \* events whose idempotency key is in Redis
  dlq,        \* records on the dead-letter topic
  logOnly,    \* offsets whose only trace is a log line
  faults      \* faults so far, those of GapFaults apart

vars == <<owner, committed, position, pc, applied, marker, dlq, logOnly, faults>>
handlerVars == <<position, pc>>
storeVars == <<applied, marker, dlq, logOnly>>

PC == {"idle", "decoding", "queued", "checking", "upserting", "marking"} \cup DLQReason
(* Inside the limiter: dispatch has started and is at one of its awaits.   *)
Running == {"checking", "upserting", "marking"} \cup DLQReason

DLQRecords == [partition: Partitions, offset: Nat, reason: DLQReason]

TypeOK ==
  /\ owner \in [Partitions -> Pods \cup {NoPod}]
  /\ committed \in [Partitions -> Nat]
  /\ position \in [Pods -> [Partitions -> Nat]]
  /\ pc \in [Pods -> [Partitions -> PC]]
  /\ applied \in [EventIds -> Nat]
  /\ marker \subseteq EventIds
  /\ dlq \subseteq DLQRecords
  /\ logOnly \subseteq Partitions \X Nat
  /\ faults \in [gap: Nat, other: Nat]
-----------------------------------------------------------------------------
(* The message the handler of (pod, p) holds, or would fetch next.         *)
Offset(pod, p) == position[pod][p] + 1
Message(pod, p) == Log[p][Offset(pod, p)]

Goto(pod, p, label) == pc' = [pc EXCEPT ![pod][p] = label]

(* eachMessage returned: the client stores the offset for the next commit. *)
(* dispatch swallows every error, so it always returns.                    *)
Return(pod, p) ==
  /\ Goto(pod, p, "idle")
  /\ position' = [position EXCEPT ![pod][p] = @ + 1]

Advance(pod, p, label) == Goto(pod, p, label) /\ UNCHANGED position

Fault(kind) ==
  /\ kind \in Faults
  /\ faults.gap + faults.other < MaxFaults
  /\ faults' = IF kind \in GapFaults THEN [faults EXCEPT !.gap = @ + 1]
                                     ELSE [faults EXCEPT !.other = @ + 1]

NoFault == UNCHANGED faults

BusyPartitions(pod) == {p \in Partitions : pc[pod][p] # "idle"}
RunningPartitions(pod) == {p \in Partitions : pc[pod][p] \in Running}
-----------------------------------------------------------------------------
Init ==
  /\ owner = [p \in Partitions |-> NoPod]
  /\ committed = [p \in Partitions |-> 0]
  /\ position = [pod \in Pods |-> [p \in Partitions |-> 0]]
  /\ pc = [pod \in Pods |-> [p \in Partitions |-> "idle"]]
  /\ applied = [e \in EventIds |-> 0]
  /\ marker = {}
  /\ dlq = {}
  /\ logOnly = {}
  /\ faults = [gap |-> 0, other |-> 0]

(* The group coordinator gives p to a member, which resumes at the         *)
(* committed offset (0 stands for the offset the group has committed when  *)
(* the model starts: with none at all a member would start at the end of   *)
(* the partition, fromBeginning being false).  A member is not handed a    *)
(* partition while its own handler of that partition still runs.           *)
Assign(pod, p) ==
  /\ owner[p] = NoPod
  /\ pc[pod][p] = "idle"
  /\ owner' = [owner EXCEPT ![p] = pod]
  /\ position' = [position EXCEPT ![pod][p] = committed[p]]
  /\ UNCHANGED <<committed, pc, storeVars, faults>>

(* The client hands the next message of an owned partition to eachMessage. *)
Deliver(pod, p) ==
  /\ owner[p] = pod
  /\ pc[pod][p] = "idle"
  /\ Offset(pod, p) <= Len(Log[p])
  /\ Cardinality(BusyPartitions(pod)) < PartitionsConcurrency
  /\ Advance(pod, p, "decoding")
  /\ UNCHANGED <<owner, committed, storeVars, faults>>

(* A decode failure is logged and the message skipped: the handler of the  *)
(* service is not called.  Otherwise handle() enters the limiter's queue.  *)
Decode(pod, p) ==
  /\ pc[pod][p] = "decoding"
  /\ \/ /\ Message(pod, p) # "undecodable"
        /\ Advance(pod, p, "queued")
        /\ NoFault
        /\ UNCHANGED logOnly
     \/ /\ \/ Message(pod, p) = "undecodable" /\ NoFault
           \/ Message(pod, p) # "undecodable" /\ Fault("registry")
        /\ logOnly' = logOnly \cup {<<p, Offset(pod, p)>>}
        /\ Return(pod, p)
  /\ UNCHANGED <<owner, committed, applied, marker, dlq>>

(* Mutant: dispatch without its idempotency check.                         *)
DispatchUnchecked(pod, p) ==
  /\ pc[pod][p] = "queued"
  /\ Cardinality(RunningPartitions(pod)) < MaxInFlight
  /\ Advance(pod, p, IF Message(pod, p) \in EventIds THEN "upserting" ELSE "VALIDATION_FAILED")
  /\ UNCHANGED <<owner, committed, storeVars, faults>>

(* The limiter runs dispatch up to its first await: an empty value is      *)
(* logged and dropped, an invalid one goes to the DLQ.                     *)
Dispatch(pod, p) ==
  /\ pc[pod][p] = "queued"
  /\ Cardinality(RunningPartitions(pod)) < MaxInFlight
  /\ \/ /\ Message(pod, p) = "empty"
        /\ logOnly' = logOnly \cup {<<p, Offset(pod, p)>>}
        /\ Return(pod, p)
     \/ /\ Message(pod, p) = "invalid"
        /\ Advance(pod, p, "VALIDATION_FAILED")
        /\ UNCHANGED logOnly
     \/ /\ Message(pod, p) \in EventIds
        /\ Advance(pod, p, "checking")
        /\ UNCHANGED logOnly
  /\ UNCHANGED <<owner, committed, applied, marker, dlq, faults>>

(* Mutants: the key is set at the check (SET NX before the upsert), and an *)
(* error of the check counts as "seen before".                             *)
CheckMarksEarly(pod, p) ==
  /\ pc[pod][p] = "checking"
  /\ IF Message(pod, p) \in marker THEN Return(pod, p) ELSE Advance(pod, p, "upserting")
  /\ marker' = marker \cup {Message(pod, p)}
  /\ UNCHANGED <<owner, committed, applied, dlq, logOnly, faults>>

CheckSkipsOnError(pod, p) ==
  /\ pc[pod][p] = "checking"
  /\ \/ Message(pod, p) \notin marker /\ Advance(pod, p, "upserting") /\ NoFault
     \/ Message(pod, p) \in marker /\ Return(pod, p) /\ NoFault
     \/ Return(pod, p) /\ Fault("redis_read")
  /\ UNCHANGED <<owner, committed, storeVars>>

(* IdempotencyService.isProcessed: false when disabled or when the client  *)
(* is closed, otherwise whether the key exists; any other error reaches    *)
(* dispatch's outer catch.                                                 *)
CheckProcessed(pod, p) ==
  /\ pc[pod][p] = "checking"
  /\ \/ /\ IdempotencyEnabled
        /\ Message(pod, p) \in marker
        /\ Return(pod, p)
        /\ NoFault
     \/ /\ IdempotencyEnabled => Message(pod, p) \notin marker
        /\ Advance(pod, p, "upserting")
        /\ NoFault
     \/ /\ IdempotencyEnabled
        /\ Fault("redis_closed")
        /\ Advance(pod, p, "upserting")
     \/ /\ IdempotencyEnabled
        /\ Fault("redis_read")
        /\ Advance(pod, p, "PROCESSING_ERROR")
  /\ UNCHANGED <<owner, committed, storeVars>>

(* Mutant: an event the store refuses is tried again.                      *)
UpsertAgain(pod, p) ==
  LET id == Message(pod, p) IN
  /\ pc[pod][p] = "upserting"
  /\ IF id \in Unstorable
       THEN Advance(pod, p, "checking") /\ UNCHANGED applied
       ELSE Advance(pod, p, "marking") /\ applied' = [applied EXCEPT ![id] = @ + 1]
  /\ UNCHANGED <<owner, committed, marker, dlq, logOnly, faults>>

(* FeatureService.process: one updateOne with upsert.  It is refused,      *)
(* fails, or takes effect; retryWrites is off, so an error may also be     *)
(* reported for an update that did take effect.                            *)
Upsert(pod, p) ==
  LET id == Message(pod, p) IN
  /\ pc[pod][p] = "upserting"
  /\ \/ /\ id \notin Unstorable
        /\ applied' = [applied EXCEPT ![id] = @ + 1]
        /\ \/ Advance(pod, p, "marking") /\ NoFault
           \/ Advance(pod, p, "UPSERT_FAILED") /\ Fault("mongo_ambiguous")
     \/ /\ \/ id \in Unstorable /\ NoFault
           \/ Fault("mongo")
        /\ Advance(pod, p, "UPSERT_FAILED")
        /\ UNCHANGED applied
  /\ UNCHANGED <<owner, committed, marker, dlq, logOnly>>

(* IdempotencyService.markProcessed: a closed client is swallowed, any     *)
(* other error reaches dispatch's outer catch although the update of the   *)
(* event has been applied.                                                 *)
MarkProcessed(pod, p) ==
  LET id == Message(pod, p) IN
  /\ pc[pod][p] = "marking"
  /\ \/ /\ marker' = IF IdempotencyEnabled THEN marker \cup {id} ELSE marker
        /\ Return(pod, p)
        /\ NoFault
     \/ /\ IdempotencyEnabled
        /\ Fault("redis_closed")
        /\ Return(pod, p)
        /\ UNCHANGED marker
     \/ /\ IdempotencyEnabled
        /\ Fault("redis_write")
        /\ Advance(pod, p, "PROCESSING_ERROR")
        /\ marker' \in {marker, marker \cup {id}}
  /\ UNCHANGED <<owner, committed, applied, dlq, logOnly>>

(* toDLQ: after the producer's own retries a failed publish is logged and  *)
(* swallowed.                                                              *)
PublishDLQ(pod, p) ==
  /\ pc[pod][p] \in DLQReason
  /\ Return(pod, p)
  /\ \/ /\ dlq' = dlq \cup {[partition |-> p, offset |-> Offset(pod, p), reason |-> pc[pod][p]]}
        /\ NoFault
        /\ UNCHANGED logOnly
     \/ /\ Fault("dlq")
        /\ logOnly' = logOnly \cup {<<p, Offset(pod, p)>>}
        /\ UNCHANGED dlq
  /\ UNCHANGED <<owner, committed, applied, marker>>

(* Mutants: the offset of the message in hand is committed, and the broker *)
(* takes the commit of a member that has lost the partition.               *)
CommitInHand(pod, p) ==
  /\ owner[p] = pod
  /\ pc[pod][p] # "idle"
  /\ committed[p] < Offset(pod, p)
  /\ committed' = [committed EXCEPT ![p] = Offset(pod, p)]
  /\ UNCHANGED <<owner, handlerVars, storeVars, faults>>

CommitUnfenced(pod, p) ==
  /\ committed[p] # position[pod][p]
  /\ committed' = [committed EXCEPT ![p] = position[pod][p]]
  /\ UNCHANGED <<owner, handlerVars, storeVars, faults>>

(* The auto-commit timer of the member that owns p.  The broker refuses    *)
(* the commit of a member that no longer does.                             *)
Commit(pod, p) ==
  /\ owner[p] = pod
  /\ committed[p] # position[pod][p]
  /\ committed' = [committed EXCEPT ![p] = position[pod][p]]
  /\ UNCHANGED <<owner, handlerVars, storeVars, faults>>

(* p is taken from its owner: uncommitted progress will be redelivered.    *)
(* If the handler runs on, it is no longer fenced from the stores.         *)
Revoke(p) ==
  /\ owner[p] # NoPod
  /\ \/ pc[owner[p]][p] = "idle" /\ Fault("rebalance")
     \/ pc[owner[p]][p] # "idle" /\ Fault("zombie")
  /\ owner' = [owner EXCEPT ![p] = NoPod]
  /\ UNCHANGED <<committed, handlerVars, storeVars>>

(* The process dies: its handlers vanish, its partitions are reassigned.   *)
Crash(pod) ==
  /\ Fault("crash")
  /\ owner' = [p \in Partitions |-> IF owner[p] = pod THEN NoPod ELSE owner[p]]
  /\ pc' = [pc EXCEPT ![pod] = [p \in Partitions |-> "idle"]]
  /\ position' = [position EXCEPT ![pod] = [p \in Partitions |-> 0]]
  /\ UNCHANGED <<committed, storeVars>>

(* IDEMPOTENCY_TTL_SECONDS after it was set, a key is gone.                *)
Expire(id) ==
  /\ id \in marker
  /\ Fault("expiry")
  /\ marker' = marker \ {id}
  /\ UNCHANGED <<owner, committed, handlerVars, applied, dlq, logOnly>>

Step(pod, p) ==
  \/ Decode(pod, p)
  \/ Dispatch(pod, p)
  \/ CheckProcessed(pod, p)
  \/ Upsert(pod, p)
  \/ MarkProcessed(pod, p)
  \/ PublishDLQ(pod, p)

(* Everything is consumed and committed: the consumer waits for messages   *)
(* beyond the log of this model.                                           *)
Drained ==
  \A p \in Partitions : owner[p] # NoPod /\ committed[p] = Len(Log[p])

Idle == Drained /\ UNCHANGED vars

Next ==
  \/ \E pod \in Pods, p \in Partitions :
       Assign(pod, p) \/ Deliver(pod, p) \/ Step(pod, p) \/ Commit(pod, p)
  \/ \E p \in Partitions : Revoke(p)
  \/ \E pod \in Pods : Crash(pod)
  \/ \E id \in EventIds : Expire(id)
  \/ Idle

Spec == Init /\ [][Next]_vars

(***************************************************************************)
(* Fairness: every await of a handler settles (each client call has its    *)
(* own timeout), the commit timer keeps firing, the coordinator reassigns  *)
(* partitions, and the client keeps polling.  The limiter is a FIFO queue, *)
(* so a queued handler is not passed over for ever: strong fairness on     *)
(* Dispatch stands for that, and on Deliver for the client's round robin.  *)
(***************************************************************************)
Fairness ==
  /\ \A p \in Partitions : WF_vars(\E pod \in Pods : Assign(pod, p))
  /\ \A pod \in Pods, p \in Partitions :
       /\ SF_vars(Deliver(pod, p))
       /\ SF_vars(Dispatch(pod, p))
       /\ WF_vars(Step(pod, p))
       /\ WF_vars(Commit(pod, p))

FairSpec == Spec /\ Fairness
-----------------------------------------------------------------------------
(* A trace of message o of p outside the log files: its event is in the    *)
(* feature store or a record of it is on the dead-letter topic.            *)
Traced(p, o) ==
  \/ Log[p][o] \in EventIds /\ applied[Log[p][o]] > 0
  \/ \E r \in dlq : r.partition = p /\ r.offset = o

Settled(p, o) == Traced(p, o) \/ <<p, o>> \in logOnly

(* Whatever fails, crashes or is reassigned, the group never commits past  *)
(* a message that has not come to an end: applied, dead-lettered, or given *)
(* up with a log line (consumer.ts:79-149, Service.ts:335-352).            *)
CommittedIsSettled ==
  \A p \in Partitions : \A o \in 1..committed[p] : Settled(p, o)

(* The idempotency key of an event is in Redis only if its update took     *)
(* effect: no interleaving, and no redelivery, marks an event that was     *)
(* never applied, which later deliveries would then skip for good          *)
(* (consumer.ts:115-138).                                                  *)
MarkedIsApplied == \A id \in marker : applied[id] > 0

(* The counters of an event move at most once, however often it is         *)
(* delivered, and once more for each fault that separates an applied event *)
(* from its key.  Redeliveries, duplicates, failed lookups and failed      *)
(* updates never count anything twice by themselves: this is what the      *)
(* idempotency keys are for (idempotency.service.ts:11-14), the copies of  *)
(* an event being in one partition.                                        *)
OvercountIsBounded == \A id \in EventIds : applied[id] <= 1 + faults.gap

(* Once an event carries its key, no delivery of it reaches the store      *)
(* again: a redelivered or duplicated event is stopped by the check        *)
(* before the upsert even when pods crash, Redis or Mongo fail and keys    *)
(* expire (consumer.ts:102-107), as long as no handler outlives its        *)
(* assignment.                                                             *)
MarkedIsNotApplied ==
  [][\A id \in marker : applied'[id] = applied[id]]_vars

(* The committed offset of the group never moves back, not even when a     *)
(* handler that lost its partition finishes late (Consumer.ts:52-53).      *)
CommitsNeverRegress ==
  [][\A p \in Partitions : committed'[p] >= committed[p]]_vars

(* Two handlers never work on one partition at the same time, so the       *)
(* events of one user are applied one after the other (README.md, High     *)
(* concurrency), unless a handler outlives its assignment.                 *)
OneHandlerPerPartition ==
  \A p \in Partitions :
    Cardinality({pod \in Pods : pc[pod][p] # "idle"}) <= 1

(* All copies of an event are in one partition: the producer keys messages *)
(* by user (README.md, High concurrency).                                  *)
KeyedByUser ==
  \A p, q \in Partitions : \A i \in 1..Len(Log[p]), j \in 1..Len(Log[q]) :
    Log[p][i] = Log[q][j] /\ Log[p][i] \in EventIds => p = q

(* Every message is eventually committed (and so, by CommittedIsSettled,   *)
(* settled) once faults stop: no handler waits for ever on the limiter,    *)
(* on a store or on the dead-letter topic.                                 *)
EverythingIsCommitted == <>[]Drained

AllOffsets == UNION {{p} \X (1..Len(Log[p])) : p \in Partitions}

(* The ledger of EventLedger, read off the state of the pipeline.          *)
Ledger == INSTANCE EventLedger WITH
  Length <- [p \in Partitions |-> Len(Log[p])],
  settled <- {po \in AllOffsets : Settled(po[1], po[2])},
  frontier <- committed

(* The pipeline implements the ledger: settled messages stay settled and   *)
(* offsets advance over settled messages only (consumer.ts:79-179).        *)
ImplementsLedger == Ledger!Spec
=============================================================================
