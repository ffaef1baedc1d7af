# Verification of analytics-feature-service

TLA+ models of the feature pipeline in `src/` (the service) and `src/base/` (the
library it is built on), checked with TLC on small instances and, where it says so
below, proved with TLAPS for every value of the constants.

Contents: [the system](#the-system), [modules](#the-modules-and-the-code),
[runs](#the-runs), [fairness](#fairness), [proofs](#what-is-proved),
[what the checks found](#what-the-checks-found), [what is not
modelled](#what-is-not-modelled), [plan](#plan).

## The system

Pods of one Kafka consumer group read user events, derive features from each and
write them to one MongoDB document per user.

```
Kafka topic --> KafkaService.startConsumer --> FeatureConsumer --pLimit--> dispatch
 (partitions)    decode (SchemaRegistry)        handle                     |
     ^                                                                     +-- FeatureValidator
     | auto-commit                                                         +-- IdempotencyService (Redis GET)
     +---------------------------------------------------------------------+-- FeatureService -> builders
                                                                           |     -> FeatureRepository (updateOne)
                                    dead-letter topic <-- toDLQ (on error) +-- IdempotencyService (Redis SET)
```

| component | state | operations | what must hold |
|---|---|---|---|
| consume path: `FeatureConsumer`, `KafkaService`, `IdempotencyService` | offsets, running handlers, keys in Redis, documents, dead letters | deliver, decode, dispatch, check, upsert, mark, publish, auto-commit | no offset committed over an unsettled message; a key only for an applied event; a marked event never applied again; progress |
| `pLimit` | active count, queue | submit, settle/next | bound kept, slots never leak, FIFO, nobody waits at a free slot |
| builders, registry, `mergeUpdates` | none (pure) | six builders, merge | each event contributes exactly its counters, extremes and values |
| `FeatureService`, `FeatureRepository` | `user_features` | resolve key, upsert | a document is what its events say, filed under the right identity |
| pod lifecycle: `Consumer.init/setup/teardown`, `signalHandler`, connectors, health server | connections, phase of setup and teardown | connect, start, signal, disconnect, timeout | consume only when set up; close stores last; a signal ends the process; exit 0 means drained |
| `SchemaRegistry` | in-flight map, not-found set, cache | `fetchSchemaType`, `encodeMessages`, `decodeMessage` | one fetch per schema; only missing schemas recorded as missing; everyone answered |
| `FeatureValidator` | none | validate | (an outcome of a message) |
| Odin and `ZKClient` | properties with their levels, clients, watches | load, watch, reconnect, set | once nothing is on its way the configuration is what Zookeeper says; a load that succeeds has read everything |
| `RedshiftDb` | pool, credential timer, configuration, `isReconnecting` | connect, query, reconnect, refresh, disconnect | replaced pools are closed, disconnect is final, one reconnection at a time, a usable pool afterwards, every query answered |
| SQS: `SQSService`, `Consumer`, `Producer`, `SQSClient` | queues, consumers, producer, URL cache | create, subscribe, start, stop, publish, disconnect | what is stopped stays stopped, a closed producer sends nothing new, poisonous messages end in the dead-letter queue |
| requests: circuit breaker, retry | breakers and fallbacks by name | execute, fall back, retry | a call gets its own fallback; one answer after one request |
| redlock, Postgres/Redis/Mongo access, logging, middlewares, utilities, configuration, DI | thin wrappers | | |

What is hard here: handlers of different partitions and pods interleave at every
`await`; a crash or rebalance replays what was not committed; each of five external
calls may fail alone; the shutdown closes clients under running handlers while a
timeout runs; promises shared between callers settle in several callbacks; and the
library replaces its pools, clients and fallbacks under those who use them. The
`hazards` of `PROJECT.json` list the main ones at their lines, with the properties about
them; the others are among the [notes](#what-the-checks-found) below.

## The modules and the code

All source references are below `src/`. `PROJECT.json` maps every definition to its
lines.

### FeaturePipeline, EventLedger (consume path)

One action per asynchronous step. `pc[pod][p]` is the `await` the handler of
partition `p` on `pod` is at:

| `pc` | action | code |
|---|---|---|
| `idle` | `Deliver` | the client calls `eachMessage` |
| `decoding` | `Decode` | `KafkaService.startConsumer`: a decode failure is logged and the message skipped |
| `queued` | `Dispatch` | `pLimit` runs `dispatch` up to its first await: empty value, validation |
| `checking` | `CheckProcessed` | `isProcessed` |
| `upserting` | `Upsert` | `FeatureService.process` -> `updateOne` |
| `marking` | `MarkProcessed` | `markProcessed` |
| a `DLQReason` | `PublishDLQ` | `toDLQ` |

`Return` stores the offset (`position`), `Commit` is the auto-commit timer. The
environment is `Assign`, `Revoke`, `Crash`, `Expire`, and the failure branch of each
call, counted by `Fault(kind)` and enabled by the constant `Faults`. A handler keeps
running after `Revoke` under the fault `zombie`; everything it writes to the stores
takes effect, only its commits are refused. A message is the id of a well-formed
event or one of `undecodable`, `empty`, `invalid`. One partition has at most one
message in hand per pod (`eachMessage` is awaited); a pod works on
`PartitionsConcurrency` partitions and has `MaxInFlight` messages inside the limiter.

`EventLedger` is what the path promises: settled messages stay settled, the
committed offset moves forward and only over settled messages. `FeaturePipeline`
implements it (`ImplementsLedger`, with `settled` read off the stores).

### PLimit

`concurrency.util.ts`: one action per synchronous block, with the gap between the
end of a task and the callback that calls `next()`. `FeaturePipeline` uses the
limiter as a bound on `RunningPartitions` with a fair queue; this module shows that
it is one.

### FeatureUpdate, FeatureStore (builders, registry, merge, repository)

`FeatureUpdate` is pure: one operator per builder, `MergeTwo`/`MergeUpdates` for
`mergeUpdates`, `FinalUpdate` for the update the repository sends, `ApplyUpdate` for
what MongoDB does with it. A field is a path (a sequence of names), because
`event_counts.<event_type>` is spliced from data. Fields that a builder only copies
when present are represented by one of them. `FeatureStore` applies events in any
order to a collection and keeps, beside each document, the history of the events
behind it; the properties read the document directly off that history, without
builders or merging. `EventsAssumption` is what the validator guarantees of an event
(`schemas.ts`): the fields that are required are not empty, and a type is one name or
several with dots between them.

### SchemaRegistry

`SchemaRegistry.ts` with `InMemoryCacheWrapper.getValue`. A request is a schema and a
slot, so that two requests of one schema can exist; that they are never in progress
together is a property. A request goes `due` (an attempt of `backOff`), `sent` (Glue is
asked), an outcome (the promise has settled and its callers may resume), `forgotten`
(`.finally` has run, `.catch` has not), `free`. Promise callbacks run between any two
of these; answers of Glue and cache expiry are events of the loop and wait for pending
callbacks (`CallbacksRun`). `encodeMessages` asks for a set of schemas at once and
goes on with the first failure (`Promise.all`), `decodeMessage` for one.

### PodLifecycle

`setup()` (Odin, the connectors in parallel, indexes, health server, consumer, signal
handlers) and `teardown()` (server, producer, consumer, grace period, stores), with a
coarser handler at work throughout and every operation that may hang or fail
(`trouble`, chosen once at the start). A message is `good` (check, upsert, mark), `seen`
(its event has its key) or `bad` (refused by the validator, so dead-lettered), and `inHand`
is the call its handler awaits:

| `inHand` | action | when the call fails |
|---|---|---|
| `checking` | `Check` | a closed Redis client counts as "not processed"; any other error: dead-letter topic |
| `upserting` | `Upsert` | dead-letter topic, whether the update took effect or not; the handler returns |
| `marking` | `Mark` | a closed client is no error; any other: dead-letter topic |
| `publishing` | `Publish` | logged; the handler returns |

A call fails when its client is closed, and may fail when it is open (`CallFails`), which
`failedCalls` records; in each case the offset goes on. Which messages are `seen` is fixed:
repetitions are FeaturePipeline's subject. Time counts steps of ten seconds and passes only while teardown
waits, so a step of the code itself takes none. A signal before `signalHandler()` is
registered kills the process (tini passes it on, there is no handler yet); one during
teardown takes the early return of `signal.util.ts:24-27` through its `finally`.

### RedshiftPool

`redshift.db.ts`. Pools are numbered as they are created, 0 is `undefined`. A process is
a caller of `preparedQuery`, the application in `connect`, or the refresh the timer
started; `pc` is the `await` it is at:

| `pc` | what is awaited | code |
|---|---|---|
| `querying`, `retrying` | `pool.query`, first and second | `preparedQuery` |
| `sleeping`, `reclosing` | the delay, `end()` of the old pool | `attemptReconnection` |
| `credentials`, `closing`, `testing` | AWS, `end()`, the test connection | `connect` |
| `fetching`, `ending`, `probing` | the same three | `refreshCredentials` |

`hold` is the pool it waits for: `end()` settles when nobody uses that pool any more
(`Drained`). `disconnect` is synchronous. What follows an await that settles at once is
part of the step before it. `mishaps` is a history of the three kinds of overlap the
properties name; `gaveUp` of a connect that failed for good.

### OdinConfig

`Odin.ts` and `ZkClient.ts`. Zookeeper has two trees (`base`, and the service's) of a
root and its leaves; a node's value is its version. Each client has a session with
requests (`asked`), replies and events in order (`inbox`), and one-shot watches on what it
has read (`watches`, `lists`). `Write` changes, creates or deletes a node; `Disconnected`
and `Expired` lose a connection or a session and, as the `state` handler does, make
another client without closing the old one, whose library reconnects by itself. All
clients write the same `props`, whose level decides. Requests go to `this.zkClient`,
whichever client made them.

### SqsService

`sqs/Service.ts`, `Client.ts`, `Consumer.ts`, `Producer.ts`. `createQueues` takes each
queue through its stages (`making`) at once; `subscribe` and `publishMessage` wait for the
queue's URL unless it is cached. A consumer of sqs-consumer is whether it runs and whether
a receive call is in flight (`asking`): stopping waits for neither that call nor the
handlers, and the listeners of `Consumer.ts:74-109` start a stopped consumer. A message is
visible, hidden, deleted or dead, with a receive count and the deliveries handlers are
working on (`hands`), several when its visibility ended under a handler.

### CircuitBreaker

`request/index.ts` and `circuitBreaker.ts`. A breaker of opossum is its state and its
fallback, shared by all calls of its name. A failure may open a closed breaker or not: the
rate that decides is not modelled. `Rejects` is what `executeRequest` makes of an outcome
for the `backOff` around it: never a rejection. `rescuer` and `after` are histories.

## The runs

A run of each module, with the properties of its cfg:

| run | instance | states | shows |
|---|---|---|---|
| PipelineSafety | 2 pods, 2 partitions (`e1 invalid e1`, `undecodable e2`), limiter of 1, up to 3 faults of any kind but `zombie`, `redis_closed` | 2.7M (pods symmetric) | `CommittedIsSettled`, `MarkedIsApplied`, `MarkedIsNotApplied`, `OvercountIsBounded` |
| PipelineProgress | `e1 empty e1`, `e2`; every kind of fault, one of them; the store refuses `e2` | 37k | `CommitsNeverRegress`, `ImplementsLedger`, `EverythingIsCommitted` |
| PLimitPool | 3 slots, 7 calls | 848 | the pool's bound, no idle slot, FIFO, everyone starts |
| StoreHistory | 13 events of two users and of none, 4 upserts | 15k | the document equals its history, identities kept apart |
| SchemaFetch | 2 callers, 3 schemas, 2 requests per schema, 2 attempts, cache of 1 | 35k | one fetch per schema, known schemas never condemned, cached means served, everyone answered |
| LifecycleRun | a `good`, a `seen` and a `bad` message, 2 failing calls, grace 20 s, timeout 30 s, 2 signals, 2 operations in trouble | 557k | order of closing, what can lose a good event, exit codes, a signal ends the process |
| RedshiftQueries | 2 callers, 2 attempts, 2 connects, 1 refresh, 2 faults, IAM or password | 541k | leaks need an overlap, disconnect is final, one reconnection, a usable pool, queries return |
| OdinWatches | a key with a node in both trees, 2 changes of them, of which the service's may go and come back, a connection lost and a session expired | 548k | a quiet configuration is current, a load that succeeded is complete, changes arrive |
| SqsDelivery | 2 queues, 1 with a dead-letter queue, 1 message, 2 calls of createQueues, receive count 1, 1 fault | 514k | idle stops are final, sends were admitted, every message settles |
| BreakerCalls | 5 calls, 4 of them guarded by 2 breakers, 3 with a fallback, 2 attempts | 41k | foreign fallbacks need an overlap, one request and an answer |
| FindingDuplicatePaths, FindingClosedProducer | a small instance of their module | | [see below](#what-the-checks-found) |

The type invariants are theorems (`TypeCorrect`); those of `FeatureStore` (a field keeps
its shape whatever event types are spliced into it: `StoreTypes`) and `OdinConfig` (a
version goes with its level: `ConfigTypes`) say more than types, and are checked as well.

Why the bounds are enough:

- *Two pods, two partitions*: the interactions are between two handlers of one pod
  (limiter, crash of both), two owners of one partition in turn (replay, zombie) and a
  commit timer. A third pod or partition adds no new pair. Three faults let a fault hit
  a replay of a replay: crash after the upsert, crash after the key, then an expiry or
  a failed read. Each log has a repeated event with another message between the
  copies, and between them the logs have every kind of message.
- The limiter of 1 with two partitions makes the limiter's queue real.
- Seven calls of a limiter of three: a full pool, a queue longer than the pool, and a
  refill.
- Four upserts: each builder's `$min`/`$max` needs two out-of-order events, a lost
  counter shows in three (two types and one repeat), and one more is slack. The events
  are chosen so that any two disagree on something.
- `MaxAttempts` is 2 (5 in the code): first, retried and last attempt all occur, and
  the proof covers every value. A cache of one entry makes "full" happen with two
  schemas (`maxKeys` is 1000 in the code).
- Grace 2 and timeout 3 are the code's 20 s and 30 s in steps of ten seconds; two
  operations in trouble pair every hang with every failure. Two failing calls of the handler
  let one event fail at a store and at the dead-letter topic, or two events once each.
- Two callers, the timer's refresh and `connect` are four processes, so every pair of
  replacements overlaps. Two faults are an authentication error and one failure after it, so
  a reconnection may need its second attempt. That all attempts of one fail takes more
  faults than that; the proofs, which have no bound, cover it (`UsableOrGivenUp`), and the 3
  attempts of the code.
- A key with a node in both trees is what the precedence is about: both may change, or the
  service's go and come back, while either is being read by any of three clients: the one
  that lost its connection, the one that came then, and the one that came when the session
  expired. Another key would meet the others only through the order of a load.
- `q1` redelivers its message once before its dead-letter queue takes it; the fault may hit
  any call, a heartbeat included, and after a disconnect every call may fail. The second
  `createQueues` repairs what the first left half done.
- Three calls of one breaker: one that waits, one that sets its fallback under it, one that
  probes; the other breaker shows that fallbacks do not leak between names.

In `StoreHistory` the store does not refuse the duplicate path of
[below](#what-the-checks-found) (`StrictStore = FALSE`): with a store that does, no
event of the service is stored at all, and the run is about what the updates mean
apart from that.

Each property has a mutant in the module it is about: a definition next to the one it
mutates, marked "Mutant", with the change a plausible bug would make.

## Fairness

- **FeaturePipeline**: weak fairness of every step of a handler (each client call
  settles: the clients have request timeouts of their own; nothing in this repository
  limits a handler, and one that never settled would keep its slot and its partition), of the commit timer and of assignment
  (the coordinator always reassigns). Strong fairness of `Dispatch` stands for the
  FIFO queue of the limiter (proved in `PLimitProofs`) and of `Deliver` for the
  client's round robin over its partitions. Faults are never forced.
- **PLimit**: tasks end and callbacks run. Nobody is forced to call the limiter.
- **SchemaRegistry**: callbacks and timers run, Glue's client answers or gives up.
  Strong fairness, since an answer waits for the callbacks of other requests.
- **PodLifecycle**: the teardown's own steps and time. Setup, signals and messages
  are not forced.
- **RedshiftPool**: AWS and the cluster answer or time out, delays elapse. Nobody has to
  query, connect or disconnect. For connections this leans on `connectionTimeoutMillis`,
  which the code defaults only with IAM (`redshift.db.ts:272`): with a password the caller
  has to set it, or a connection to a cluster that does not answer waits for ever. A query
  that waits for a client of a full pool is not modelled.
- **OdinConfig**: Zookeeper is reachable again in the end and answers, and callbacks run.
  Writes and losses are not forced. In the end everything is quiet, so the run does not
  ask for the absence of deadlock.
- **SqsService**: calls to SQS are answered, handlers end, a running consumer asks again,
  a visibility timeout without a handler ends. Strong fairness of `Receive`: SQS delivers
  in the end a message that is asked for again and again. Nobody has to start or stop.
- **CircuitBreaker**: only the timeouts of axios and of the breaker; the server need never
  answer. Once all calls are answered nothing is left to do, so the run does not ask for the
  absence of deadlock.

## What is proved

Each proof module holds an inductive invariant, the lemma that every action keeps it,
and the theorems that follow. They assume the named `ASSUME`s of the component's module,
which TLC evaluates in every run, and what a theorem states itself (the faults it excludes,
`KeyedByUser`: all copies of an event are in one partition, the producer keying by user).

- **FeaturePipelineProofs**, for any pods, partitions, log, concurrency and faults.
  - `TypeInv` adds to `TypeOK` that a handler in progress holds a message of the log of
    the right kind.
  - `SettledInv`: every offset below `position` or `committed` is settled.
    `CommittedIsSettled` alone is not inductive: `Commit` copies `position`, so the
    claim has to hold of what handlers have returned from, whether committed or not.
    Gives `CommittedAreSettled`.
  - `MarkedAreApplied`: a handler that is `marking` has applied its event.
  - `FenceInv` (no zombie): only the owner of a partition has a handler in it, so the
    partition has one handler at most (`PartitionsAreSequential`).
  - `UnmarkedInv`, `OnceInv`: with one handler per partition and copies of an event in one
    partition, an event being upserted has no key, and an applied event without a key has
    a fault of `GapFaults` behind it for each time it was applied; hence
    `MarkedAreNotReplayed`, and `CountedAtMostOnce` (`OvercountIsBounded`: one count, and
    one more for each such fault).
  - `FrontInv`: a position of an owner is never behind the committed offset, zombies
    included: `CommitsAreMonotone`. With `SettledInv` it gives `PipelineImplementsLedger`:
    initial states map to initial states, and every step to a step of the ledger or a
    stutter.
- **PLimitProofs**: `PoolInv` says the queue is the segment of the calls not yet
  started; the counter is the number of slots in use (`SlotsAreExact`), no slot is idle
  (`NoSlotIsIdle`), tasks start in order (`StartsInOrder`).
- **PodLifecycleProofs**: `OrderInv` ties the stage of the teardown to what has been
  closed: a store is closed in the last stage only, which is entered with the group left
  and the grace period over (`StoresCloseLast`). `DrainInv` says that while the pod is in
  the group the stores are up under a running handler, so that a good event which is being
  dead-lettered, or was handled without its update, has a failed call behind it
  (`Excused`), and a dead-letter record unless publishing failed or the producer was gone
  (`Recorded`); after leaving, nothing is committed any more, so what was committed stays
  accounted for whatever is closed (`LossesAreAccountedFor`).
  `JoinInv` is the part about setup: a handler runs only after every client connected
  (`ServesBeforeConsuming`). `ExitInv` accounts for exit codes: what each stage has behind
  it (`ExitZeroIsDrained`), and that without trouble all elapsed time is the grace
  period's, so the timeout cannot win (`ExitOneHasACause`).
- **SchemaRegistryProofs**: `MapInv` says a request not yet removed is the entry of its
  schema in the in-flight map, hence the only one; `CacheInv` that what is being asked,
  or failed, is not cached; `MissingInv` and `AttemptInv` the rest. They give
  `FetchesAreShared`, `CacheShieldsCallers`, `KnownSchemasStayAvailable`, and the bound
  on attempts in `TypeCorrect`.
- **RedshiftPoolProofs**, for any callers, attempts and faults. `LeakInv`: while no
  installation has overlapped a replacement, only the current pool is open, and not even
  that one while somebody is replacing it (without the second half a replacement could
  install beside an open pool); gives `LeaksOnlyByOverlap`. `ExclusiveInv`: the flag stands
  for the one caller that reconnects, which has a configuration (`OneReconnection`).
  `FinalInv` adds to `DisconnectIsFinal` that nobody is past its last look at the
  configuration (`DisconnectedForGood`). `UsableInv`: a connected client without an open
  pool has somebody on the way to install one, or has given up (`UsableOrGivenUp`).
- **SqsServiceProofs**, for any queues, messages and faults. `IdleInv`: a queue idle at the
  stop has no running consumer, no call and no handler, hence nothing to call a listener
  (`IdleQueuesStayStopped`). `ClosedInv`: after disconnect the producer stays closed, and
  who is publishing was so then (`ClosedProducersSendNothingNew`).
- **FeatureStoreProofs**, for any events the validator lets through, in any order and
  number.
  - First what an update is: of the five builders that specialise on a type at most one
    contributes, so `mergeUpdates` over all six is the core block merged with one other
    (`BuildIs`); which fields each operator then has (`InsertBlock`, `SetBlock`, `IncBlock`,
    `ExtremeBlocks`); that no field but the ids is in two of them (`BlocksApart`); and what
    the update does to a document, field by field (`AppliedFields`).
  - `DocInv(k, d, h)` relates the document `d` of a key `k` to the history `h` behind it:
    counters, the sum of prices, times, sets, last values, what was inserted, and the shape
    of the document. It is needed as a whole: whether `$setOnInsert` applies depends on
    there being a document, a counter can be added to only if it is a number, and a field
    is found only if none is inside another. The properties quantify over the keys with a
    document, `DocInv` over all keys: without one the history is empty.
  - The sum of prices is a recursive function of the history. `Sum` says that some function
    with the recursive equations has the counter as its last value: one more event extends
    that function by one place, and no induction is needed.
  - They give `StoreTypes`, `CountersCorrect`, `ExtremesCorrect`, `LastValuesCorrect` and
    `FiledCorrectly`.
  - `RefusalInv` is about what is refused. A store that rejects duplicate fields has no
    document ever (`StrictStoresStoreNothing`, the general form of FindingDuplicatePaths).
    One that does not refuses an event only when its type is inside a type of the same
    identity, or that one in it, and never has both (`OnlyNestedTypesAreRefused`).
- **ClientProofs** holds the proofs of two components, which have in common that they are
  clients of a library: the requests and Odin.
  - `CircuitBreaker`, for any calls, breakers and attempts. `OnceInv`: no call retries or
    sends twice (`SentAtMostOnce`). `RescueInv`: while a call waits, the fallback of its
    breaker is its own or one of a call that began since
    (`FallbacksAreOwnOrOverlapping`).
  - `OdinConfig`, for any keys, nodes, changes, lost connections and expired sessions. The
    parts of `OdinInv`:
    - `TypeInv` adds to `OdinTypeOK` that replies fit their requests and that the number of
      clients is what the losses and expiries paid for (`ConfigTypes`).
    - `StatusInv`: the newest client is being connected or up, and no other is to come.
    - `OriginInv`: what is owed was asked for by a watch, or by the load of a client that
      has connected and is no later than the one that owes it. Hence a client that
      connects finds no request of its load about.
    - `SingleInv`: a load has at most one request or reply anywhere, counted by places in
      the queues of all clients, which is what makes a load go on from where it is
      (`LoadGoesOn`). A lost connection is the hard step: it moves replies back among the
      requests.
    - `TreeInv`: a load that reads a leaf is in its tree.
    - `NodeInv`: the nodes of keys not `altered` exist or not as they did at first, and so
      say replies and properties.
    - `ReadInv`: while the first load was not cut, a node is read, or what the load waits
      for is that node or comes before it (`LoadsAreComplete`).
    - `StaleInv`: a reply that Zookeeper has overtaken is followed by the event that says
      so, in the same inbox. Without it a stale reply delivered last would be a
      counterexample.
    - `LiveInv`: a node is being asked for, its event is on its way to some client, or the
      newest client watches it and has, or is being told, what it is now. Any client's
      event will do, for all of them ask the newest. When nothing is on its way only the
      last case is left: `QuietMeansCurrent`.

    What `Picked` does for an inbox of any length is an induction: it is done by the least
    number that is a counterexample (`LeastNumber`, from the well-foundedness of numbers),
    for the induction theorems of the library take an operator and cannot be used.

Only model-checked: every liveness property (`EverythingIsCommitted`,
`EveryTaskStarts`, `EveryCallerIsAnswered`, `SignalEndsProcess`, `QueriesReturn`,
`ChangesArrive`, `EveryMessageSettles`, `AnsweredAfterOneRequest`): fairness and ENABLED are
beyond the prover. Every safety property of a passing run is a theorem. In `SchemaFetch` no
schema is both known to Glue and uncompilable; that such a definition never makes a schema
count as missing rests on `KnownSchemasStayAvailable`.

Some properties bound what the code does wrong rather than exclude it: `LeaksNeedOverlap`
and `DisconnectIsFinal` (replacements that overlap, a refresh in flight at a disconnect),
`IdleStopsAreFinal` (consumers with work in flight), `SendsWereAdmitted` (messages waiting
when the producer is closed), `ForeignFallbackNeedsOverlap` (calls of a breaker that
overlap). They say that nothing else can go wrong in that way; the exempted cases are real,
and described in the next section.

## What the checks found

With a run of their own:

- **FindingDuplicatePaths**: every update has `anonymous_id` both in `$setOnInsert`
  (seed, `feature.repository.ts:66-67`) and in `$set` (`core.builder.ts:28-29`). The
  comment at `feature.repository.ts:71-73` says MongoDB rejects duplicates across the
  two and that there are none. By that rule every upsert is refused, for all events and
  histories (`StrictStoresStoreNothing`).
- **FindingClosedProducer**: `KafkaConnector.disconnect` closes the producer before the
  consumer (`kafka.connector.ts:54-55`), so a message refused, or an event that fails, in
  between is committed without a dead-letter record, against README.md:63 ("forward the
  original message to the DLQ"). That this, or a publish that fails by itself, is the only
  way to lose a good event without a trace is `LossesHaveACause`.

Noted while modelling, without a run:

- An undecodable message is logged, skipped and committed (`KafkaService.startConsumer`);
  README.md:55-63 says failures of the steps, decoding being the first, go to the
  dead-letter topic.
- `signup_method` is replaced by every later signup (`signup.builder.ts:28-30`), against the
  comment at 9-10 of that file ("on first sight only"). `LastValuesAreKept` therefore asks of
  it only that it be the method of some signup.
- An event type that extends another with a dot (`a`, `a.b`) makes `event_counts.a` a
  number and an object: the update is refused (`ShapeClash`), against
  `core.builder.ts:9-10`. Nothing else is (`OnlyNestedTypesAreRefused`).
- `k8s/feature-service/02-configmap.yaml:33-34` ships `IDEMPOTENCY_ENABLED: "false"` below
  the comment that it must stay true; `OvercountIsBounded` needs it on.
- With it on, a crash between the upsert and the key applies the event again; the comment
  of `idempotency.service.ts:11-14` says a replay adds zero. Each fault of `GapFaults`
  may count an event once more.
- A failed upsert is dead-lettered and its offset committed, so a restart does not apply
  it, against `consumer.ts:136-137` ("a Mongo failure → restart still results in the event
  being applied").
- A second signal, logged as ignored (`signal.util.ts:25`), passes the `finally` and exits
  with code 1 in the middle of the drain.
- `first_seen_ts` is that of the event processed first, not of the earliest event.
- `KafkaConnector.isReady` asks the producer only; a pod whose consumer stopped stays ready.
- The consumer starts a partition without a committed offset at its end (`fromBeginning`
  is false).
- A missing schema version stays missing for the process, even when it is registered
  later. `stdTTL: 1000 * 60 * 60 * 10, // 10 hours` (`SchemaRegistry.ts:265`) is read by
  node-cache as seconds, 416 days. A full cache (`maxKeys`) makes every fetch of another
  schema fail although Glue answered.
- Redshift: a disconnect that comes while a refresh, a connect or a reconnection is past its
  last look at the configuration is undone by it: a pool and a timer appear afterwards
  (`late`). Replacements that overlap leave the pool installed in between open for good
  (`overlap`). Both are outside the sources' comments, and bound `DisconnectIsFinal` and
  `LeaksNeedOverlap`. When every attempt to reconnect fails, `this.pool` is undefined and
  later queries are refused without another attempt; "will retry on next query"
  (`redshift.db.ts:322`) is not what happens then. A query is retried "after successful
  reconnection" (461, 466) also when `reconnectWithRetry` returned at once because another
  caller is reconnecting. `disconnect` leaves `this.pool` set, so a second one ends it twice,
  an unhandled rejection.
- Odin: a children watch is set once, and its event reloads the root of the tree and not,
  as `ZkClient.ts:170` has it, the changed child: a new key arrives with the next client
  only, a deleted one keeps its value, and its level for good. A load cut by a lost connection
  resolves with what it has. A node that cannot be read rejects inside the async callback of
  `getChildren`, so the load never settles; before `signalHandler` is registered the unhandled
  rejection ends the process. Every lost connection adds a client and none is closed. (The
  shipped configuration leaves the connection string of Zookeeper empty.)
- SQS: a receive call or a handler that fails after `stopConsumers` or `disconnect` has its
  consumer started again by the listeners of `Consumer.ts:74-109`, after a disconnect with a
  destroyed client. The log says "nullified", but nothing is: `initializeService` after a disconnect keeps the
  closed producer and the destroyed client. A subscription that is waiting for its URL at
  `startConsumers` is never started. `publishMessageBatch` does not look at `Failed`, and
  `alwaysAcknowledge` deletes a whole batch whatever its handler returns.
- Requests: an `onFallback`'s result is dropped (the wrapper at `circuitBreaker.ts:112-116`
  returns nothing), so the caller gets the 500 of `executeRequest`; the default fallback
  gives a response with neither `success` nor `status`. `retry.attempts` has no effect, for
  `executeRequest` never rejects. `resetTimeout: 3000` is commented "After 30 seconds", and
  `axiosConfig.timeout = requestOptions.params` (33) drops the query parameters of guarded
  requests.

## What is not modelled

- Avro bytes, the wire format and JSON schema validation: outcomes of a message.
- The contents of logs, metrics, health answers, API middlewares; dependency injection
  and configuration loading (values that matter are CONSTANTS).
- `eachBatch`, `publishBatchMessage`, pause/resume and Kafka's Admin client, which the
  service does not use.
- Two upserts of a new key at once (a duplicate-key error of the unique index): in
  `FeaturePipeline` as the fault `mongo`, without its cause.
- Odin: the parsing of values, `initOdin`/`getValue`, `disconnect`, and trees deeper than a
  root and its children. SQS: batches, `changeMessageVisibility`, several consumers of a
  queue. Requests: opossum's failure rate, the interceptors of `tstAxios`. Redshift:
  the wording of authentication errors and the length of delays.
- redlock, Postgres and Redis access: one library call per method, with no state of their own.
- Data. 85 thousand of the repository's 95 thousand lines of implementation are the word
  list of `username.constant.ts`, which has nothing to model; the share of the lines that
  the map covers is to be read with this in mind.

## Plan

Done, in this order: FeaturePipeline with EventLedger and its proofs; PLimit and proofs;
FeatureUpdate and FeatureStore; PodLifecycle and proofs; SchemaRegistry and proofs;
RedshiftPool and proofs; OdinConfig; SqsService and proofs; CircuitBreaker and proofs; the
proofs of FeatureStore and of OdinConfig.

To do:

1. A composition of PodLifecycle with the health endpoints (readiness against the
   consumer's state), and the first start of a consumer group without an offset.
2. The race of two upserts of a new key against the unique index.
3. `eachBatch` and pause/resume of KafkaService, batches of SQS.
4. Proofs: that the handler of `PodLifecycle` implements `EventLedger` too.
